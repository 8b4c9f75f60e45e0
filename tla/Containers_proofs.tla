-------------------------- MODULE Containers_proofs --------------------------
(* Proofs about the containers that the network and database parts stand on, *)
(* the counted object and the queues with and without locks, one section     *)
(* each.  The modules share nothing: every section has its own invariant,    *)
(* the step lemmas that keep it, and the theorem it is for.                  *)
EXTENDS RefCountable, TaskQueue, DoubleBufferQueue, DelayedTaskQueue, SlotStack, LockFreeQueue,
        FiniteSetTheorems, TLAPS

-----------------------------------------------------------------------------
(* RefCountable: an object and its block under strong and weak pointers.     *)
(* Who is between the last release and the end of what it must do.           *)
Deleting == \E t \in Holders : refPc[t] = "delete"
Dropping == \E t \in Holders : refPc[t] = "dropBlock"
Freeing  == \E t \in Holders : refPc[t] = "deleteBlock"

RefPlaces == {"idle", "delete", "dropBlock", "deleteBlock", "lock"}

Ending == {"delete", "dropBlock", "deleteBlock"}

RefTypeOK ==
    /\ object \in Nat /\ block \in Nat
    /\ strong \in SUBSET Holders /\ weak \in SUBSET Holders
    /\ oldCount \in [Holders -> Nat]
    /\ refPc \in [Holders -> RefPlaces]

(* The counts are the numbers of the pointers; the weak count also of the    *)
(* reference that the strong pointers have together.                         *)
RefCounts ==
    /\ refCount = Cardinality(strong)
    /\ weakCount = Cardinality(weak) + (IF strong # {} \/ Deleting \/ Dropping THEN 1 ELSE 0)

(* One thread deletes, when the last pointer is gone and before anything     *)
(* else is deleted.                                                          *)
Deletions ==
    /\ Deleting \/ Dropping => strong = {}
    /\ Freeing => strong = {} /\ weak = {} /\ ~Deleting /\ ~Dropping
    /\ \A t, u \in Holders :
         refPc[t] \in Ending /\ refPc[u] \in Ending => t = u
    /\ object = IF strong # {} \/ Deleting THEN 0 ELSE 1
    /\ block = IF strong \union weak # {} \/ Deleting \/ Dropping \/ Freeing THEN 0 ELSE 1
    /\ \A t \in Holders : refPc[t] = "lock" => t \in weak /\ t \notin strong

RefInv == RefTypeOK /\ RefCounts /\ Deletions

(* The numbers of the pointers, and how one more or one less moves them.     *)
LEMMA CountsOfPointers ==
  ASSUME RefTypeOK
  PROVE  /\ Cardinality(strong) \in Nat /\ (Cardinality(strong) = 0 <=> strong = {})
         /\ Cardinality(weak) \in Nat /\ (Cardinality(weak) = 0 <=> weak = {})
         /\ \A t : /\ Cardinality(strong \union {t}) = Cardinality(strong) + (IF t \in strong THEN 0 ELSE 1)
                   /\ Cardinality(strong \ {t}) = Cardinality(strong) - (IF t \in strong THEN 1 ELSE 0)
                   /\ Cardinality(weak \union {t}) = Cardinality(weak) + (IF t \in weak THEN 0 ELSE 1)
                   /\ Cardinality(weak \ {t}) = Cardinality(weak) - (IF t \in weak THEN 1 ELSE 0)
                   /\ Cardinality(strong \ {t}) = 0 <=> strong \ {t} = {}
                   /\ Cardinality(weak \ {t}) = 0 <=> weak \ {t} = {}
<1>1. IsFiniteSet(strong) /\ IsFiniteSet(weak)
  BY RefCountableConstants, FS_Subset DEF RefTypeOK
<1>2. Cardinality(strong) \in Nat /\ Cardinality(weak) \in Nat
  BY <1>1, FS_CardinalityType
<1>3. ASSUME NEW S, IsFiniteSet(S), Cardinality(S) \in Nat, NEW t
      PROVE  /\ Cardinality(S \ {t}) = 0 <=> S \ {t} = {}
             /\ Cardinality(S \union {t}) = Cardinality(S) + (IF t \in S THEN 0 ELSE 1)
             /\ Cardinality(S \ {t}) = Cardinality(S) - (IF t \in S THEN 1 ELSE 0)
  <2>1. Cardinality(S \union {t}) = IF t \in S THEN Cardinality(S) ELSE Cardinality(S) + 1
    BY <1>3, FS_AddElement
  <2>2. Cardinality(S \ {t}) = IF t \in S THEN Cardinality(S) - 1 ELSE Cardinality(S)
    BY <1>3, FS_RemoveElement
  <2>3. Cardinality(S \ {t}) = 0 <=> S \ {t} = {}
    BY <1>3, FS_RemoveElement, FS_EmptySet
  <2>. QED BY ONLY <1>3, <2>1, <2>2, <2>3
<1>4. /\ Cardinality(strong) = 0 <=> strong = {}
      /\ Cardinality(weak) = 0 <=> weak = {}
  BY <1>1, FS_EmptySet
<1>. QED BY ONLY <1>1, <1>2, <1>3, <1>4

(* A thread that ends is the only one; the others are elsewhere.             *)
LEMMA OneEnds ==
  ASSUME RefInv, NEW t \in Holders
  PROVE  /\ refPc[t] = "delete" => Deleting /\ ~Dropping /\ ~Freeing
         /\ refPc[t] = "dropBlock" => ~Deleting /\ Dropping /\ ~Freeing
         /\ refPc[t] = "deleteBlock" => ~Deleting /\ ~Dropping /\ Freeing
         /\ refPc[t] \in Ending => \A u \in Holders \ {t} : refPc[u] \notin Ending
         /\ ~Deleting /\ ~Dropping /\ ~Freeing <=> \A u \in Holders : refPc[u] \notin Ending
  BY DEF RefInv, RefTypeOK, Deletions, Deleting, Dropping, Freeing, Ending, RefPlaces

(* Where the threads are after one of them has moved.                        *)
LEMMA RefMoves ==
  ASSUME refPc \in [Holders -> RefPlaces], NEW t \in Holders, NEW p \in RefPlaces, GoesTo(t, p),
         \A u \in Holders \ {t} : refPc[u] \notin Ending
  PROVE  /\ Deleting' <=> p = "delete"
         /\ Dropping' <=> p = "dropBlock"
         /\ Freeing' <=> p = "deleteBlock"
         /\ \A u \in Holders \ {t} : refPc'[u] \notin Ending
         /\ refPc'[t] = p
  BY DEF GoesTo, Deleting, Dropping, Freeing, Ending

(* A step that leaves every place alone leaves the three predicates alone.   *)
LEMMA RefStays ==
  ASSUME refPc \in [Holders -> RefPlaces], NEW t \in Holders, NEW p \in {"idle", "lock"}, GoesTo(t, p),
         refPc[t] \in {"idle", "lock"}
  PROVE  /\ Deleting' <=> Deleting
         /\ Dropping' <=> Dropping
         /\ Freeing' <=> Freeing
         /\ \A u \in Holders : refPc'[u] \in Ending <=> refPc[u] \in Ending
         /\ \A u \in Holders \ {t} : refPc'[u] = refPc[u]
         /\ refPc'[t] = p
  BY DEF GoesTo, Deleting, Dropping, Freeing, Ending

(* Every step of one thread keeps the types.                                 *)
LEMMA RefTypeStep ==
  ASSUME RefInv, RefNext
  PROVE  RefTypeOK'
<1>. refCount \in Nat
  BY CountsOfPointers DEF RefInv, RefCounts
<1>. QED BY DEF RefInv, RefTypeOK, RefPlaces, GoesTo, RefNext, CopyStrong, MakeWeak, ReleaseRef, DeleteObject,
            ReleaseWeakRef, DeleteBlock, LockLoad, LockGivesUp, LockExchange

(* Every step of RefCountable.h keeps the invariant: copy, release, promote, *)
(* delete, and the end of the block.                                         *)
LEMMA RefStep ==
  ASSUME RefInv, NEW t \in Holders,
         \/ \E u \in Holders \ {t} : CopyStrong(t, u)
         \/ \E u \in Holders : MakeWeak(t, u)
         \/ ReleaseRef(t) \/ DeleteObject(t) \/ ReleaseWeakRef(t) \/ DeleteBlock(t)
         \/ LockLoad(t) \/ LockGivesUp(t) \/ LockExchange(t)
  PROVE  RefCounts' /\ Deletions'
<1>. USE DEF RefInv
<1>0. /\ refPc \in [Holders -> RefPlaces] /\ strong \in SUBSET Holders /\ weak \in SUBSET Holders
      /\ \A p : p \in {"idle", "lock"} => p \notin Ending /\ p \in RefPlaces
      /\ \A p \in Ending : p \in RefPlaces
      /\ oldCount \in [Holders -> Nat]
  BY DEF RefTypeOK, Ending, RefPlaces
<1>1. ASSUME NEW u \in Holders \ {t}, CopyStrong(t, u) PROVE RefCounts' /\ Deletions'
  <2>1. /\ strong # {} /\ strong' = strong \union {u} /\ weak' = weak /\ refPc' = refPc
        /\ object' = object /\ block' = block /\ refCount' = refCount + 1 /\ weakCount' = weakCount
        /\ u \notin strong /\ refPc[u] = "idle"
        /\ Deleting' = Deleting /\ Dropping' = Dropping /\ Freeing' = Freeing
    BY <1>1 DEF CopyStrong, Deleting, Dropping, Freeing
  <2>2. RefCounts'
    BY <2>1, CountsOfPointers DEF RefCounts
  <2>. QED BY <2>1, <2>2 DEF Deletions
<1>2. ASSUME NEW u \in Holders, MakeWeak(t, u) PROVE RefCounts' /\ Deletions'
  <2>1. /\ strong # {} /\ strong' = strong /\ weak' = weak \union {u} /\ refPc' = refPc
        /\ object' = object /\ block' = block /\ refCount' = refCount /\ weakCount' = weakCount + 1
        /\ u \notin weak
        /\ Deleting' = Deleting /\ Dropping' = Dropping /\ Freeing' = Freeing
    BY <1>2 DEF MakeWeak, Deleting, Dropping, Freeing
  <2>2. RefCounts'
    BY <2>1, CountsOfPointers DEF RefCounts
  <2>. QED BY <2>1, <2>2 DEF Deletions
<1>3. CASE ReleaseRef(t)
  <2>1. /\ t \in strong /\ strong' = strong \ {t} /\ weak' = weak /\ object' = object /\ block' = block
        /\ refPc[t] = "idle" /\ weakCount' = weakCount /\ refCount' = refCount - 1
        /\ GoesTo(t, IF refCount' = 0 THEN "delete" ELSE "idle")
    BY <1>3 DEF ReleaseRef
  <2>2. ~Deleting /\ ~Dropping /\ ~Freeing /\ \A u \in Holders : refPc[u] \notin Ending
    BY <2>1, OneEnds DEF Deletions
  <2>3. refCount' = Cardinality(strong') /\ (refCount' = 0 <=> strong' = {})
    BY <2>1, CountsOfPointers DEF RefCounts
  <2>4. object = 0 /\ block = 0 /\ weakCount = Cardinality(weak) + 1
    BY <2>1 DEF Deletions, RefCounts
  <2>5. \A u \in Holders : refPc[u] = "lock" => u \in weak /\ u \notin strong
    BY DEF Deletions
  <2>6. CASE refCount' = 0
    <3>1. /\ Deleting' /\ ~Dropping' /\ ~Freeing' /\ strong' = {} /\ refPc' = [refPc EXCEPT ![t] = "delete"]
          /\ \A u \in Holders \ {t} : refPc'[u] \notin Ending
      BY <1>0, <2>1, <2>2, <2>3, <2>6, RefMoves DEF GoesTo, RefPlaces
    <3>2. RefCounts'
      BY <2>1, <2>3, <2>4, <3>1 DEF RefCounts
    <3>. QED BY <1>0, <2>1, <2>4, <2>5, <3>1, <3>2 DEF Deletions
  <2>7. CASE refCount' # 0
    <3>1. /\ ~Deleting' /\ ~Dropping' /\ ~Freeing' /\ strong' # {} /\ refPc' = refPc
          /\ \A u \in Holders : refPc'[u] \notin Ending
      BY <1>0, <2>1, <2>2, <2>3, <2>7 DEF GoesTo, Deleting, Dropping, Freeing
    <3>2. RefCounts'
      BY <2>1, <2>3, <2>4, <3>1 DEF RefCounts
    <3>. QED BY <1>0, <2>1, <2>4, <2>5, <3>1, <3>2 DEF Deletions
  <2>. QED BY <2>6, <2>7
<1>4. CASE DeleteObject(t)
  <2>1. /\ refPc[t] = "delete" /\ object' = object + 1 /\ GoesTo(t, "dropBlock")
        /\ refCount' = refCount /\ weakCount' = weakCount /\ block' = block /\ strong' = strong /\ weak' = weak
    BY <1>4 DEF DeleteObject
  <2>2. /\ Deleting /\ ~Freeing /\ strong = {} /\ block = 0 /\ object = 0
        /\ weakCount = Cardinality(weak) + 1
        /\ \A u \in Holders \ {t} : refPc[u] \notin Ending
    BY <2>1, OneEnds DEF Deletions, RefCounts, Ending
  <2>3. ~Deleting' /\ Dropping' /\ ~Freeing' /\ \A u \in Holders \ {t} : refPc'[u] \notin Ending
    BY <1>0, <2>1, <2>2, RefMoves DEF RefPlaces
  <2>4. \A u \in Holders : refPc'[u] = "lock" => u \in weak /\ u \notin strong
    BY <1>0, <2>1 DEF Deletions, GoesTo
  <2>5. RefCounts'
    BY <2>1, <2>2, <2>3 DEF RefCounts
  <2>. QED BY <2>1, <2>2, <2>3, <2>4, <2>5 DEF Deletions
<1>5. CASE ReleaseWeakRef(t)
  <2>1. /\ weakCount' = weakCount - 1 /\ GoesTo(t, IF weakCount' = 0 THEN "deleteBlock" ELSE "idle")
        /\ refCount' = refCount /\ object' = object /\ block' = block /\ strong' = strong
        /\ \/ refPc[t] = "dropBlock" /\ weak' = weak
           \/ refPc[t] = "idle" /\ t \in weak /\ weak' = weak \ {t}
    BY <1>5 DEF ReleaseWeakRef
  <2>2. \A u \in Holders : refPc[u] = "lock" => u \in weak /\ u \notin strong
    BY DEF Deletions
  <2>3. CASE refPc[t] = "dropBlock" /\ weak' = weak
    <3>1. /\ Dropping /\ ~Deleting /\ ~Freeing /\ strong = {}
          /\ \A u \in Holders \ {t} : refPc[u] \notin Ending
      BY <2>3, OneEnds DEF Deletions, Ending
    <3>2. /\ weakCount' = Cardinality(weak') /\ (weakCount' = 0 <=> weak' = {})
          /\ block = 0 /\ object = 1
      BY <2>1, <2>3, <3>1, CountsOfPointers DEF RefCounts, Deletions
    <3>3. /\ ~Dropping' /\ ~Deleting' /\ (Freeing' <=> weak' = {})
          /\ \A u \in Holders \ {t} : refPc'[u] \notin Ending
      <4>. DEFINE p == IF weakCount' = 0 THEN "deleteBlock" ELSE "idle"
      <4>1. p \in RefPlaces /\ p # "delete" /\ p # "dropBlock" /\ (p = "deleteBlock" <=> weak' = {})
        BY <3>2 DEF RefPlaces
      <4>. HIDE DEF p
      <4>. QED BY <1>0, <2>1, <3>1, <4>1, RefMoves DEF p
    <3>4. \A u \in Holders : refPc'[u] = "lock" => u \in weak /\ u \notin strong
      BY <1>0, <2>1, <2>2 DEF GoesTo
    <3>5. RefCounts'
      BY <2>1, <3>1, <3>2, <3>3 DEF RefCounts
    <3>. QED BY <2>1, <2>3, <3>1, <3>2, <3>3, <3>4, <3>5 DEF Deletions
  <2>4. CASE refPc[t] = "idle" /\ t \in weak /\ weak' = weak \ {t}
    <3>0. ~Freeing /\ block = 0
      BY <2>4 DEF Deletions
    <3>5. Cardinality(weak) \in Nat /\ Cardinality(weak \ {t}) = Cardinality(weak) - 1
      BY <2>4, CountsOfPointers
    <3>6. (Cardinality(weak \ {t}) = 0 <=> weak \ {t} = {}) /\ (Cardinality(weak) = 0 <=> weak = {})
      BY CountsOfPointers
    <3>1. /\ ~Freeing /\ block = 0
          /\ Cardinality(weak') = Cardinality(weak) - 1
          /\ Cardinality(weak') \in Nat /\ (Cardinality(weak') = 0 <=> weak' = {})
      BY ONLY <2>4, <3>0, <3>5, <3>6
    <3>7. weakCount = Cardinality(weak) + (IF strong # {} \/ Deleting \/ Dropping THEN 1 ELSE 0)
      BY DEF RefCounts
    <3>2. /\ strong # {} \/ Deleting \/ Dropping => weakCount' = Cardinality(weak') + 1
          /\ ~(strong # {} \/ Deleting \/ Dropping) => weakCount' = Cardinality(weak')
      <4>1. CASE strong # {} \/ Deleting \/ Dropping
        <5>1. weakCount = Cardinality(weak) + 1
          BY <3>7, <4>1
        <5>. QED BY ONLY <2>1, <3>1, <3>5, <4>1, <5>1
      <4>2. CASE ~(strong # {} \/ Deleting \/ Dropping)
        <5>1. weakCount = Cardinality(weak)
          BY <3>5, <3>7, <4>2
        <5>. QED BY ONLY <2>1, <3>1, <3>5, <4>2, <5>1
      <4>. QED BY <4>1, <4>2
    <3>3. CASE weakCount' = 0
      <4>0. ~(strong # {} \/ Deleting \/ Dropping)
        BY ONLY <3>1, <3>2, <3>3
      <4>1. strong = {} /\ ~Deleting /\ ~Dropping /\ weak' = {} /\ GoesTo(t, "deleteBlock")
        BY <2>1, <3>1, <3>2, <3>3, <4>0
      <4>2. \A u \in Holders : refPc[u] \notin Ending
        BY <3>1, <4>1, OneEnds
      <4>3. Freeing' /\ ~Deleting' /\ ~Dropping' /\ \A u \in Holders \ {t} : refPc'[u] \notin Ending
        BY <1>0, <4>1, <4>2, RefMoves DEF RefPlaces
      <4>4. \A u \in Holders : refPc'[u] = "lock" => u \in weak' /\ u \notin strong
        BY <1>0, <4>1, <2>2, <2>4 DEF GoesTo
      <4>5. RefCounts'
        BY <2>1, <3>2, <4>1, <4>3 DEF RefCounts
      <4>6. object = 1
        BY <4>1 DEF Deletions
      <4>. QED BY <2>1, <3>1, <4>1, <4>3, <4>4, <4>5, <4>6 DEF Deletions
    <3>4. CASE weakCount' # 0
      <4>1. GoesTo(t, "idle") /\ (weak' # {} \/ strong # {} \/ Deleting \/ Dropping)
        BY ONLY <2>1, <3>1, <3>2, <3>4
      <4>2. /\ Deleting' = Deleting /\ Dropping' = Dropping /\ Freeing' = Freeing /\ refPc' = refPc
        BY <1>0, <2>4, <4>1 DEF GoesTo, Deleting, Dropping, Freeing
      <4>3. \A u \in Holders : refPc'[u] = "lock" => u \in weak' /\ u \notin strong
        BY <2>2, <2>4, <4>2
      <4>4. RefCounts'
        <5>1. refCount' = Cardinality(strong')
          BY <2>1 DEF RefCounts
        <5>2. weakCount' = Cardinality(weak') + (IF strong' # {} \/ Deleting' \/ Dropping' THEN 1 ELSE 0)
          <6>1. strong' # {} \/ Deleting' \/ Dropping' <=> strong # {} \/ Deleting \/ Dropping
            BY ONLY <2>1, <4>2
          <6>2. Cardinality(weak') \in Nat
            BY <3>1
          <6>. QED BY ONLY <3>2, <6>1, <6>2
        <5>. QED BY ONLY <5>1, <5>2 DEF RefCounts
      <4>. QED BY <2>1, <3>1, <4>1, <4>2, <4>3, <4>4 DEF Deletions
    <3>. QED BY <3>3, <3>4
  <2>. QED BY <2>1, <2>3, <2>4
<1>6. CASE DeleteBlock(t)
  <2>1. /\ refPc[t] = "deleteBlock" /\ block' = block + 1 /\ GoesTo(t, "idle")
        /\ refCount' = refCount /\ weakCount' = weakCount /\ object' = object /\ strong' = strong /\ weak' = weak
    BY <1>6 DEF DeleteBlock
  <2>2. /\ ~Deleting /\ ~Dropping /\ Freeing /\ strong = {} /\ weak = {} /\ block = 0 /\ object = 1
        /\ \A u \in Holders \ {t} : refPc[u] \notin Ending
    BY <2>1, OneEnds DEF Deletions, Ending
  <2>3. ~Deleting' /\ ~Dropping' /\ ~Freeing' /\ \A u \in Holders \ {t} : refPc'[u] \notin Ending
    BY <1>0, <2>1, <2>2, RefMoves DEF RefPlaces
  <2>4. \A u \in Holders : refPc'[u] = "lock" => u \in weak /\ u \notin strong
    BY <1>0, <2>1 DEF Deletions, GoesTo
  <2>5. RefCounts'
    BY <2>1, <2>2, <2>3 DEF RefCounts
  <2>. QED BY <2>1, <2>2, <2>3, <2>4, <2>5 DEF Deletions
<1>7. CASE LockLoad(t) \/ LockGivesUp(t)
  <2>1. /\ refCount' = refCount /\ weakCount' = weakCount /\ object' = object /\ block' = block
        /\ strong' = strong /\ weak' = weak
        /\ \E p \in {"idle", "lock"} : GoesTo(t, p) /\ (p = "lock" => t \in weak /\ t \notin strong)
        /\ refPc[t] \in {"idle", "lock"}
    BY <1>7 DEF LockLoad, LockGivesUp
  <2>2. PICK p \in {"idle", "lock"} : GoesTo(t, p) /\ (p = "lock" => t \in weak /\ t \notin strong)
    BY <2>1
  <2>3. /\ Deleting' <=> Deleting
        /\ Dropping' <=> Dropping
        /\ Freeing' <=> Freeing
        /\ \A u \in Holders : refPc'[u] \in Ending <=> refPc[u] \in Ending
        /\ \A u \in Holders \ {t} : refPc'[u] = refPc[u]
        /\ refPc'[t] = p
    BY ONLY <1>0, <2>1, <2>2, RefStays
  <2>4. RefCounts'
    BY <2>1, <2>3 DEF RefCounts
  <2>. QED BY <2>1, <2>2, <2>3, <2>4 DEF Deletions
<1>8. CASE LockExchange(t)
  <2>1. refPc[t] = "lock" /\ oldCount[t] # 0 /\ t \in weak /\ t \notin strong
    BY <1>8 DEF LockExchange, Deletions
  <2>2. CASE refCount = oldCount[t]
    <3>1. /\ refCount' = refCount + 1 /\ strong' = strong \union {t} /\ GoesTo(t, "idle")
          /\ weakCount' = weakCount /\ object' = object /\ block' = block /\ weak' = weak
      BY <1>8, <2>2 DEF LockExchange
    <3>2. strong # {}
      BY <1>0, <2>1, <2>2, CountsOfPointers DEF RefCounts
    <3>3. ~Deleting /\ ~Dropping /\ ~Freeing /\ object = 0 /\ block = 0
      BY <3>2 DEF Deletions
    <3>4. /\ Deleting' <=> Deleting
          /\ Dropping' <=> Dropping
          /\ Freeing' <=> Freeing
          /\ \A u \in Holders : refPc'[u] \in Ending <=> refPc[u] \in Ending
          /\ \A u \in Holders \ {t} : refPc'[u] = refPc[u]
          /\ refPc'[t] = "idle"
      BY <1>0, <2>1, <3>1, RefStays
    <3>5. refCount' = Cardinality(strong')
      BY <2>1, <3>1, CountsOfPointers DEF RefCounts
    <3>6. RefCounts'
      BY <3>1, <3>2, <3>3, <3>4, <3>5 DEF RefCounts
    <3>7. \A u \in Holders : refPc'[u] = "lock" => u \in weak' /\ u \notin strong'
      BY <3>1, <3>4 DEF Deletions
    <3>. QED BY <3>1, <3>2, <3>3, <3>4, <3>6, <3>7 DEF Deletions
  <2>3. CASE refCount # oldCount[t]
    <3>1. /\ refCount' = refCount /\ strong' = strong /\ refPc' = refPc
          /\ weakCount' = weakCount /\ object' = object /\ block' = block /\ weak' = weak
      BY <1>8, <2>3 DEF LockExchange
    <3>. QED BY <3>1 DEF RefCounts, Deletions, Deleting, Dropping, Freeing
  <2>. QED BY <2>2, <2>3
<1>. QED BY <1>1, <1>2, <1>3, <1>4, <1>5, <1>6, <1>7, <1>8

(* RefCountable: whatever copies, releases and promotions interleave, the    *)
(* object lives while a strong pointer holds it and its block while any      *)
(* pointer does, and each is deleted once.                                   *)
THEOREM LivesWhileHeldAlways == RefSpec => []LivesWhileHeld
<1>1. RefInit => RefInv
  <2>. SUFFICES ASSUME RefInit PROVE RefInv
    OBVIOUS
  <2>1. PICK t \in Holders : strong = {t} /\ weak = {}
    BY RefCountableConstants DEF RefInit
  <2>2. Cardinality(strong) = 1 /\ Cardinality(weak) = 0
    BY <2>1, FS_Singleton, FS_EmptySet
  <2>3. \A t1 \in Holders : refPc[t1] \notin Ending /\ refPc[t1] # "lock"
    BY DEF RefInit, Ending
  <2>4. ~Deleting /\ ~Dropping /\ ~Freeing
    BY <2>3 DEF Deleting, Dropping, Freeing, Ending
  <2>. QED BY <2>1, <2>2, <2>3, <2>4
           DEF RefInit, RefInv, RefTypeOK, RefPlaces, RefCounts, Deletions
<1>2. RefInv /\ [RefNext]_refVars => RefInv'
  <2>1. RefInv /\ UNCHANGED refVars => RefInv'
    BY DEF refVars, RefInv, RefTypeOK, RefCounts, Deletions, Deleting, Dropping, Freeing
  <2>. QED BY <2>1, RefStep, RefTypeStep DEF RefInv, RefNext
<1>3. RefInv => LivesWhileHeld
  BY DEF RefInv, RefTypeOK, RefPlaces, Deletions, Deleting, Dropping, Freeing, LivesWhileHeld
<1>. QED BY <1>1, <1>2, <1>3, PTL DEF RefSpec

-----------------------------------------------------------------------------
(* TaskQueue: who sleeps for a task or for room, and who is to wake them.    *)
TaskPlaces == {"idle", "push", "take", "asleep", "notifyOne", "notifyAll", "notifyRoom", "notifyEnd"}

TaskTypeOK ==
    /\ queueKind \in {"blocking", "chunked", "bounded"}
    /\ queueSize \in Nat
    /\ producerDone \in BOOLEAN /\ queueStopped \in BOOLEAN
    /\ emptySleepers \in SUBSET Takers /\ fullSleepers \in SUBSET Makers
    /\ taskPc \in [TaskThreads -> TaskPlaces]
    /\ amount \in [TaskThreads -> Nat]

OnlyMaker == CHOOSE m \in Makers : TRUE

SleepersOK ==
    /\ \A t \in emptySleepers \union fullSleepers : taskPc[t] = "asleep"
    /\ \A t \in Takers : taskPc[t] = "take" => amount[t] > 0
    /\ \A t \in emptySleepers : amount[t] > 0
    /\ fullSleepers # {} => queueKind = "bounded"
    /\ queueKind = "bounded" => \A p \in Makers : taskPc[p] \in {"push", "asleep"} => p = OnlyMaker

(* Who is on the way to the queue, or sends a sleeper there.                 *)
Coming == {t \in TaskThreads : taskPc[t] \in {"notifyOne", "take"}}
WakesAll == \E t \in TaskThreads : taskPc[t] \in {"notifyAll", "notifyEnd"}
WakesRoom == \E t \in TaskThreads : taskPc[t] \in {"notifyRoom", "notifyEnd"}

(* While consumers sleep, everybody is about to be woken or there is         *)
(* somebody for each item; a producer that could go on is about to be woken. *)
TakersOK ==
    emptySleepers # {} => \/ WakesAll
                          \/ ~queueStopped /\ ~producerDone /\ queueSize <= Cardinality(Coming)
MakersOK == \A p \in fullSleepers : Full(p) \/ WakesRoom

TaskInv == TaskTypeOK /\ SleepersOK /\ TakersOK /\ MakersOK

-----------------------------------------------------------------------------
(* What Min2 of two numbers is, whichever is smaller.                        *)
LEMMA MinFacts ==
  /\ \A n \in Nat : n > 0 => Min({1, n}) = 1
  /\ Min({1, 0}) = 0
  /\ \A a, b \in Nat : Min({a, b}) \in Nat /\ Min({a, b}) \in {a, b} /\ Min({a, b}) <= b
<1>1. ASSUME NEW a \in Nat, NEW b \in Nat
      PROVE  Min({a, b}) \in {a, b} /\ Min({a, b}) <= a /\ Min({a, b}) <= b
  <2>1. \E x \in {a, b} : \A y \in {a, b} : x <= y
    <3>1. CASE a <= b
      BY <3>1
    <3>2. CASE ~(a <= b)
      BY <3>2
    <3>. QED BY <3>1, <3>2
  <2>. QED BY <2>1 DEF Min
<1>2. ASSUME NEW n \in Nat, n > 0 PROVE Min({1, n}) = 1
  BY <1>1, <1>2
<1>3. Min({1, 0}) = 0
  BY <1>1
<1>. QED BY <1>1, <1>2, <1>3

(* The counts when one thread moves, or one more is woken.                   *)
LEMMA ComingMoves ==
  ASSUME TaskTypeOK, NEW t \in TaskThreads, NEW c, Wakes(t, c)
  PROVE  /\ IsFiniteSet(Coming) /\ Cardinality(Coming) \in Nat
         /\ (c \in {"notifyOne", "take"} <=> taskPc[t] \in {"notifyOne", "take"}) => Coming' = Coming
         /\ c \in {"notifyOne", "take"} /\ taskPc[t] \notin {"notifyOne", "take"} =>
              Cardinality(Coming') = Cardinality(Coming) + 1
         /\ c \notin {"notifyOne", "take"} /\ taskPc[t] \in {"notifyOne", "take"} =>
              Cardinality(Coming') = Cardinality(Coming) - 1
         /\ taskPc[t] \notin {"notifyAll", "notifyEnd"} /\ WakesAll => WakesAll'
         /\ taskPc[t] \notin {"notifyRoom", "notifyEnd"} /\ WakesRoom => WakesRoom'
         /\ c \in {"notifyAll", "notifyEnd"} => WakesAll'
         /\ c \in {"notifyRoom", "notifyEnd"} => WakesRoom'
<1>1. IsFiniteSet(TaskThreads)
  BY TaskQueueConstants, FS_Union DEF TaskThreads
<1>2. IsFiniteSet(Coming) /\ Cardinality(Coming) \in Nat
  BY <1>1, FS_Subset, FS_CardinalityType DEF Coming
<1>3. /\ taskPc \in [TaskThreads -> TaskPlaces] /\ taskPc' = [taskPc EXCEPT ![t] = c] /\ taskPc'[t] = c
      /\ \A u \in TaskThreads \ {t} : taskPc'[u] = taskPc[u]
  BY DEF TaskTypeOK, Wakes
<1>4. (c \in {"notifyOne", "take"} <=> taskPc[t] \in {"notifyOne", "take"}) => Coming' = Coming
  BY <1>3 DEF Coming
<1>5. ASSUME c \in {"notifyOne", "take"}, taskPc[t] \notin {"notifyOne", "take"}
      PROVE  Cardinality(Coming') = Cardinality(Coming) + 1
  <2>1. Coming' = Coming \union {t} /\ t \notin Coming
    BY <1>3, <1>5 DEF Coming
  <2>. QED BY <1>2, <2>1, FS_AddElement
<1>6. ASSUME c \notin {"notifyOne", "take"}, taskPc[t] \in {"notifyOne", "take"}
      PROVE  Cardinality(Coming') = Cardinality(Coming) - 1
  <2>1. Coming' = Coming \ {t} /\ t \in Coming
    BY <1>3, <1>6 DEF Coming
  <2>. QED BY <1>2, <2>1, FS_RemoveElement
<1>7. /\ taskPc[t] \notin {"notifyAll", "notifyEnd"} /\ WakesAll => WakesAll'
      /\ taskPc[t] \notin {"notifyRoom", "notifyEnd"} /\ WakesRoom => WakesRoom'
  BY <1>3 DEF WakesAll, WakesRoom
<1>8. /\ c \in {"notifyAll", "notifyEnd"} => WakesAll'
      /\ c \in {"notifyRoom", "notifyEnd"} => WakesRoom'
  BY <1>3 DEF WakesAll, WakesRoom
<1>. QED BY <1>2, <1>4, <1>5, <1>6, <1>7, <1>8

(* Every operation of the queue keeps the types.                             *)
LEMMA TaskTypeStep ==
  ASSUME TaskInv, TaskNext
  PROVE  TaskTypeOK'
<1>. USE TaskQueueConstants DEF TaskInv, TaskTypeOK, Wakes, TaskPlaces
<1>1. ASSUME NEW p \in Makers, EnterPush(p) \/ PushSleeps(p) \/ SetProducerDone(p) PROVE TaskTypeOK'
  <2>1. CASE EnterPush(p)
    BY <2>1 DEF EnterPush, Enter, TaskThreads
  <2>2. CASE PushSleeps(p)
    BY <2>2 DEF PushSleeps, TaskThreads
  <2>3. CASE SetProducerDone(p)
    BY <2>3 DEF SetProducerDone, TaskThreads
  <2>. QED BY <1>1, <2>1, <2>2, <2>3
<1>2. ASSUME NEW p \in Makers, PushItems(p) PROVE TaskTypeOK'
  BY <1>2 DEF PushItems, TaskThreads
<1>3. ASSUME NEW c \in Takers, EnterTake(c) \/ TakeSleeps(c) PROVE TaskTypeOK'
  BY <1>3 DEF EnterTake, Enter, TakeSleeps, TaskThreads
<1>4. ASSUME NEW c \in Takers, TakeItems(c) PROVE TaskTypeOK'
  <2>1. queueSize' \in Nat
    BY <1>4, MinFacts DEF TakeItems, TaskThreads
  <2>. QED BY <1>4, <2>1 DEF TakeItems, TaskThreads
<1>5. ASSUME NEW t \in TaskThreads,
             NotifyOneTaker(t) \/ NotifyTakers(t) \/ NotifyRoom(t) \/ NotifyEveryone(t) \/ StopQueue(t)
      PROVE  TaskTypeOK'
  <2>1. taskPc' \in [TaskThreads -> TaskPlaces]
    BY <1>5 DEF NotifyOneTaker, NotifyTakers, NotifyRoom, NotifyEveryone, StopQueue, Woken
  <2>. QED BY <1>5, <2>1 DEF NotifyOneTaker, NotifyTakers, NotifyRoom, NotifyEveryone, StopQueue
<1>. QED BY <1>1, <1>2, <1>3, <1>4, <1>5 DEF TaskNext

(* A step that moves one thread and leaves the sleepers and the amounts.     *)
LEMMA OneMoves ==
  ASSUME TaskInv, NEW t \in TaskThreads, NEW c \in TaskPlaces, Wakes(t, c), taskPc[t] # "asleep",
         c \notin {"push", "take", "asleep"},
         UNCHANGED <<queueKind, emptySleepers, fullSleepers, amount>>
  PROVE  SleepersOK'
  BY DEF TaskInv, TaskTypeOK, SleepersOK, Wakes, TaskThreads

(* A thread is among the sleepers exactly while it is asleep.                *)
LEMMA SleepersStep ==
  ASSUME TaskInv, TaskNext
  PROVE  SleepersOK'
<1>. USE DEF TaskInv
<1>0. /\ Makers \subseteq TaskThreads /\ Takers \subseteq TaskThreads /\ Makers \intersect Takers = {}
      /\ emptySleepers \subseteq Takers /\ fullSleepers \subseteq Makers
      /\ taskPc \in [TaskThreads -> TaskPlaces] /\ amount \in [TaskThreads -> Nat]
  BY TaskQueueConstants DEF TaskThreads, TaskTypeOK
<1>1. ASSUME NEW t \in TaskThreads, NEW c \in {"push", "take"}, Enter(t, c),
             c = "push" => t \in Makers /\ MayPush(t), c = "take" => t \in Takers
      PROVE  SleepersOK'
  BY <1>0, <1>1 DEF Enter, MayPush, Wakes, SleepersOK, OnlyMaker
<1>2. ASSUME NEW p \in Makers, PushItems(p) PROVE SleepersOK'
  <2>1. PICK c \in {"idle", "notifyOne", "notifyAll"} : Wakes(p, c)
    BY <1>2 DEF PushItems
  <2>. QED BY <1>0, <1>2, <2>1, OneMoves DEF PushItems, TaskPlaces
<1>3. ASSUME NEW p \in Makers, PushSleeps(p) PROVE SleepersOK'
  BY <1>0, <1>3 DEF PushSleeps, Full, Wakes, SleepersOK
<1>4. ASSUME NEW p \in TaskThreads, (p \in Makers /\ SetProducerDone(p)) \/ StopQueue(p) PROVE SleepersOK'
  BY <1>0, <1>4, OneMoves DEF SetProducerDone, StopQueue, TaskPlaces
<1>5. ASSUME NEW c \in Takers, TakeItems(c) PROVE SleepersOK'
  <2>1. PICK p \in {"idle", "notifyRoom"} : Wakes(c, p)
    BY <1>5 DEF TakeItems
  <2>. QED BY <1>0, <1>5, <2>1, OneMoves DEF TakeItems, TaskPlaces
<1>6. ASSUME NEW c \in Takers, TakeSleeps(c) PROVE SleepersOK'
  BY <1>0, <1>6 DEF TakeSleeps, Wakes, SleepersOK
<1>7. ASSUME NEW t \in TaskThreads, taskPc[t] # "asleep", NEW s \in SUBSET (emptySleepers \union fullSleepers),
             Woken(t, s), emptySleepers' = emptySleepers \ s, fullSleepers' = fullSleepers \ s,
             UNCHANGED <<queueKind, amount>>
      PROVE  SleepersOK'
  <2>1. \A u \in TaskThreads : taskPc'[u] = IF u = t THEN "idle"
                                     ELSE IF u \in s THEN IF u \in Makers THEN "push" ELSE "take"
                                     ELSE taskPc[u]
    BY <1>7 DEF Woken
  <2>2. \A u \in s : taskPc[u] = "asleep" /\ (u \in Makers => u \in fullSleepers) /\ (u \notin Makers => u \in emptySleepers)
    BY <1>0, <1>7 DEF SleepersOK
  <2>. QED BY <1>0, <1>7, <2>1, <2>2 DEF SleepersOK
<1>8. ASSUME NEW t \in TaskThreads, NotifyOneTaker(t) \/ NotifyTakers(t) \/ NotifyRoom(t) \/ NotifyEveryone(t)
      PROVE  SleepersOK'
  <2>1. CASE NotifyOneTaker(t)
    <3>1. PICK s \in SUBSET emptySleepers : emptySleepers' = emptySleepers \ s /\ Woken(t, s)
      BY <2>1 DEF NotifyOneTaker
    <3>2. fullSleepers' = fullSleepers \ s
      BY <1>0, <2>1 DEF NotifyOneTaker
    <3>. QED BY <1>7, <2>1, <3>1, <3>2 DEF NotifyOneTaker
  <2>2. CASE NotifyTakers(t)
    <3>1. fullSleepers' = fullSleepers \ emptySleepers /\ emptySleepers' = emptySleepers \ emptySleepers
      BY <1>0, <2>2 DEF NotifyTakers
    <3>. QED BY <1>7, <2>2, <3>1 DEF NotifyTakers
  <2>3. CASE NotifyRoom(t)
    <3>1. PICK s \in SUBSET fullSleepers : fullSleepers' = fullSleepers \ s /\ Woken(t, s)
      BY <2>3 DEF NotifyRoom
    <3>2. emptySleepers' = emptySleepers \ s
      BY <1>0, <2>3 DEF NotifyRoom
    <3>. QED BY <1>7, <2>3, <3>1, <3>2 DEF NotifyRoom
  <2>4. CASE NotifyEveryone(t)
    <3>. DEFINE s == emptySleepers \union fullSleepers
    <3>1. fullSleepers' = fullSleepers \ s /\ emptySleepers' = emptySleepers \ s /\ Woken(t, s)
      BY <2>4 DEF NotifyEveryone
    <3>. QED BY <1>7, <2>4, <3>1 DEF NotifyEveryone
  <2>. QED BY <1>8, <2>1, <2>2, <2>3, <2>4
<1>. QED BY <1>0, <1>1, <1>2, <1>3, <1>4, <1>5, <1>6, <1>8 DEF TaskNext, EnterPush, EnterTake

(* A task that is left for a sleeping taker has somebody on the way to it.   *)
LEMMA TakersStep ==
  ASSUME TaskInv, TaskNext
  PROVE  TakersOK'
<1>. USE DEF TaskInv
<1>0. /\ Makers \subseteq TaskThreads /\ Takers \subseteq TaskThreads /\ Makers \intersect Takers = {}
      /\ emptySleepers \subseteq Takers /\ queueSize \in Nat
      /\ taskPc \in [TaskThreads -> TaskPlaces]
  BY TaskQueueConstants DEF TaskThreads, TaskTypeOK
<1>1. ASSUME NEW t \in TaskThreads, NEW c \in {"push", "take"}, Enter(t, c) PROVE TakersOK'
  <2>1. taskPc[t] = "idle" /\ Wakes(t, c) /\ UNCHANGED <<queueSize, producerDone, queueStopped, emptySleepers>>
    BY <1>1 DEF Enter
  <2>2. WakesAll => WakesAll'
    BY <2>1, ComingMoves
  <2>3. Cardinality(Coming) \in Nat /\ Cardinality(Coming') \in Nat /\ Cardinality(Coming) <= Cardinality(Coming')
    BY <2>1, ComingMoves
  <2>. QED BY <1>0, <2>1, <2>2, <2>3 DEF TakersOK
<1>2. ASSUME NEW p \in Makers, PushItems(p) PROVE TakersOK'
  <2>1. /\ taskPc[p] = "push" /\ p \in TaskThreads
        /\ UNCHANGED <<producerDone, queueStopped, emptySleepers>>
    BY <1>0, <1>2 DEF PushItems
  <2>2. CASE Wakes(p, "idle") /\ UNCHANGED queueSize
    <3>1. Coming' = Coming /\ (WakesAll => WakesAll')
      BY <2>1, <2>2, ComingMoves
    <3>. QED BY <2>1, <2>2, <3>1 DEF TakersOK
  <2>3. CASE Wakes(p, "notifyOne") /\ queueSize' = queueSize + 1
    <3>1. Cardinality(Coming) \in Nat /\ Cardinality(Coming') = Cardinality(Coming) + 1 /\ (WakesAll => WakesAll')
      BY <2>1, <2>3, ComingMoves
    <3>. QED BY <1>0, <2>1, <2>3, <3>1 DEF TakersOK
  <2>4. CASE Wakes(p, "notifyAll")
    BY <2>1, <2>4, ComingMoves DEF TakersOK
  <2>. QED BY <1>2, <2>2, <2>3, <2>4 DEF PushItems
<1>3. ASSUME NEW p \in Makers, PushSleeps(p) PROVE TakersOK'
  <2>1. /\ taskPc[p] = "push" /\ p \in TaskThreads /\ Wakes(p, "asleep")
        /\ UNCHANGED <<queueSize, producerDone, queueStopped, emptySleepers>>
    BY <1>0, <1>3 DEF PushSleeps
  <2>2. Coming' = Coming /\ (WakesAll => WakesAll')
    BY <2>1, ComingMoves
  <2>. QED BY <2>1, <2>2 DEF TakersOK
<1>4. ASSUME NEW p \in TaskThreads, (p \in Makers /\ SetProducerDone(p)) \/ StopQueue(p) PROVE TakersOK'
  <2>1. Wakes(p, "notifyEnd")
    BY <1>4 DEF SetProducerDone, StopQueue
  <2>. QED BY <2>1, ComingMoves DEF TakersOK
<1>5. ASSUME NEW c \in Takers, TakeItems(c) PROVE TakersOK'
  <2>1. /\ taskPc[c] = "take" /\ c \in TaskThreads /\ amount[c] \in Nat /\ amount[c] > 0
        /\ UNCHANGED <<producerDone, queueStopped, emptySleepers>>
    BY <1>0, <1>5 DEF TakeItems, SleepersOK, TaskTypeOK
  <2>2. PICK p \in {"idle", "notifyRoom"} : Wakes(c, p)
    BY <1>5 DEF TakeItems
  <2>3. /\ WakesAll => WakesAll'
        /\ Cardinality(Coming) \in Nat /\ Cardinality(Coming') = Cardinality(Coming) - 1
    BY <2>1, <2>2, ComingMoves
  <2>4. CASE queueStopped \/ producerDone
    BY <2>1, <2>3, <2>4 DEF TakersOK
  <2>5. CASE ~queueStopped /\ ~producerDone
    <3>1. queueSize > 0
      BY <1>5, <2>5 DEF TakeItems, Ready
    <3>2. queueSize' = queueSize - (IF queueKind = "blocking" THEN 1 ELSE Min({amount[c], queueSize}))
      BY <1>0, <1>5, <2>5, <3>1 DEF TakeItems
    <3>3. queueSize' \in Nat /\ queueSize' <= queueSize - 1
      <4>1. /\ Min({amount[c], queueSize}) \in {amount[c], queueSize}
            /\ Min({amount[c], queueSize}) <= queueSize
        BY <1>0, <2>1, MinFacts
      <4>. QED BY <1>0, <2>1, <3>1, <3>2, <4>1
    <3>. QED BY <1>0, <2>1, <2>3, <3>3 DEF TakersOK
  <2>. QED BY <2>4, <2>5
<1>6. ASSUME NEW c \in Takers, TakeSleeps(c) PROVE TakersOK'
  <2>1. /\ taskPc[c] = "take" /\ c \in TaskThreads /\ Wakes(c, "asleep") /\ ~Ready
        /\ UNCHANGED <<queueSize, producerDone, queueStopped>>
    BY <1>0, <1>6 DEF TakeSleeps
  <2>2. Cardinality(Coming) \in Nat /\ Cardinality(Coming') = Cardinality(Coming) - 1 /\ Cardinality(Coming) # 0
    <3>1. c \in Coming /\ IsFiniteSet(Coming)
      BY <2>1, ComingMoves DEF Coming
    <3>2. Cardinality(Coming) # 0
      BY <3>1, FS_EmptySet
    <3>. QED BY <2>1, <3>2, ComingMoves
  <2>3. queueSize' = 0 /\ ~queueStopped' /\ ~producerDone'
    BY <1>0, <2>1 DEF Ready
  <2>. QED BY <2>2, <2>3 DEF TakersOK
<1>7. ASSUME NEW t \in TaskThreads, NotifyOneTaker(t) PROVE TakersOK'
  <2>1. /\ taskPc[t] = "notifyOne"
        /\ UNCHANGED <<queueSize, producerDone, queueStopped>>
    BY <1>7 DEF NotifyOneTaker
  <2>2. PICK s \in SUBSET emptySleepers :
          /\ Cardinality(s) = Min({1, Cardinality(emptySleepers)})
          /\ emptySleepers' = emptySleepers \ s
          /\ Woken(t, s)
    BY <1>7 DEF NotifyOneTaker
  <2>3. SUFFICES ASSUME emptySleepers' # {} PROVE TakersOK'
    BY DEF TakersOK
  <2>4. IsFiniteSet(emptySleepers) /\ IsFiniteSet(s) /\ Cardinality(emptySleepers) \in Nat
    BY <1>0, TaskQueueConstants, FS_Subset, FS_CardinalityType
  <2>5. Cardinality(s) = 1
    <3>1. emptySleepers # {}
      BY <2>2, <2>3
    <3>2. Cardinality(emptySleepers) > 0
      BY <2>4, <3>1, FS_EmptySet
    <3>. QED BY <2>2, <2>4, <3>2, MinFacts
  <2>6. PICK u : s = {u}
    BY <2>4, <2>5, FS_Singleton
  <2>7. u \in Takers /\ u \in TaskThreads /\ taskPc[u] = "asleep" /\ u # t /\ u \notin Makers
    BY <1>0, <2>1, <2>2, <2>6 DEF SleepersOK
  <2>8. \A v \in TaskThreads : taskPc'[v] = IF v = t THEN "idle" ELSE IF v = u THEN "take" ELSE taskPc[v]
    BY <2>2, <2>6, <2>7 DEF Woken
  <2>9. Coming' = (Coming \ {t}) \union {u} /\ t \in Coming /\ u \notin Coming
    BY <2>1, <2>7, <2>8 DEF Coming
  <2>10. IsFiniteSet(Coming) /\ Cardinality(Coming) \in Nat
    <3>1. IsFiniteSet(TaskThreads)
      BY TaskQueueConstants, FS_Union DEF TaskThreads
    <3>. QED BY <3>1, FS_Subset, FS_CardinalityType DEF Coming
  <2>11. Cardinality(Coming') = Cardinality(Coming)
    <3>1. IsFiniteSet(Coming \ {t}) /\ Cardinality(Coming \ {t}) = Cardinality(Coming) - 1
      BY <2>9, <2>10, FS_RemoveElement
    <3>2. u \notin Coming \ {t}
      BY <2>9
    <3>3. Cardinality((Coming \ {t}) \union {u}) = Cardinality(Coming \ {t}) + 1
      BY ONLY <3>1, <3>2, FS_AddElement
    <3>. QED BY <2>9, <2>10, <3>1, <3>3
  <2>12. WakesAll => WakesAll'
    BY <2>1, <2>7, <2>8 DEF WakesAll
  <2>. QED BY <2>1, <2>2, <2>11, <2>12 DEF TakersOK
<1>8. ASSUME NEW t \in TaskThreads, NotifyTakers(t) \/ NotifyEveryone(t) PROVE TakersOK'
  BY <1>8 DEF NotifyTakers, NotifyEveryone, TakersOK
<1>9. ASSUME NEW t \in TaskThreads, NotifyRoom(t) PROVE TakersOK'
  <2>1. taskPc[t] = "notifyRoom" /\ UNCHANGED <<queueSize, producerDone, queueStopped, emptySleepers>>
    BY <1>9 DEF NotifyRoom
  <2>2. PICK s \in SUBSET fullSleepers : Woken(t, s)
    BY <1>9 DEF NotifyRoom
  <2>3. \A u \in s : u \in Makers /\ taskPc[u] = "asleep"
    BY DEF SleepersOK, TaskTypeOK
  <2>4. \A v \in TaskThreads : taskPc'[v] = IF v = t THEN "idle" ELSE IF v \in s THEN "push" ELSE taskPc[v]
    BY <2>2, <2>3 DEF Woken
  <2>5. Coming' = Coming /\ (WakesAll => WakesAll')
    BY <2>1, <2>3, <2>4 DEF Coming, WakesAll
  <2>. QED BY <2>1, <2>5 DEF TakersOK
<1>. QED BY <1>0, <1>1, <1>2, <1>3, <1>4, <1>5, <1>6, <1>7, <1>8, <1>9 DEF TaskNext, EnterPush, EnterTake

(* A sleeping maker finds no room, or somebody is about to tell it of some.  *)
LEMMA MakersStep ==
  ASSUME TaskInv, TaskNext
  PROVE  MakersOK'
<1>. USE DEF TaskInv
<1>0. /\ Makers \subseteq TaskThreads /\ Takers \subseteq TaskThreads /\ Makers \intersect Takers = {}
      /\ fullSleepers \subseteq Makers /\ queueSize \in Nat /\ MaxQueueSize \in Nat
      /\ taskPc \in [TaskThreads -> TaskPlaces] /\ amount \in [TaskThreads -> Nat]
  BY TaskQueueConstants DEF TaskThreads, TaskTypeOK
<1>1. ASSUME NEW t \in TaskThreads, NEW c \in {"push", "take"}, Enter(t, c) PROVE MakersOK'
  <2>1. /\ taskPc[t] = "idle" /\ Wakes(t, c) /\ \A u \in TaskThreads \ {t} : amount'[u] = amount[u]
        /\ UNCHANGED <<queueKind, queueSize, producerDone, queueStopped, fullSleepers>>
    BY <1>0, <1>1 DEF Enter
  <2>2. WakesRoom => WakesRoom'
    BY <2>1, ComingMoves
  <2>3. t \notin fullSleepers
    BY <2>1 DEF SleepersOK
  <2>. QED BY <1>0, <2>1, <2>2, <2>3 DEF MakersOK, Full
<1>2. ASSUME NEW p \in Makers, PushItems(p) PROVE MakersOK'
  <2>1. /\ taskPc[p] = "push" /\ p \in TaskThreads
        /\ UNCHANGED <<queueKind, producerDone, queueStopped, fullSleepers, amount>>
    BY <1>0, <1>2 DEF PushItems
  <2>2. queueSize' \in Nat /\ queueSize' >= queueSize
    BY <1>0, <1>2 DEF PushItems
  <2>3. PICK c \in {"idle", "notifyOne", "notifyAll"} : Wakes(p, c)
    BY <1>2 DEF PushItems
  <2>4. WakesRoom => WakesRoom'
    BY <2>1, <2>3, ComingMoves
  <2>5. \A q \in fullSleepers : Full(q) => Full(q)'
    BY <1>0, <2>1, <2>2 DEF Full
  <2>. QED BY <2>1, <2>4, <2>5 DEF MakersOK
<1>3. ASSUME NEW p \in Makers, PushSleeps(p) PROVE MakersOK'
  <2>1. /\ taskPc[p] = "push" /\ p \in TaskThreads /\ Wakes(p, "asleep") /\ Full(p)
        /\ fullSleepers' = fullSleepers \union {p}
        /\ UNCHANGED <<queueKind, queueSize, producerDone, queueStopped, amount>>
    BY <1>0, <1>3 DEF PushSleeps
  <2>2. WakesRoom => WakesRoom'
    BY <2>1, ComingMoves
  <2>. QED BY <2>1, <2>2 DEF MakersOK, Full
<1>4. ASSUME NEW p \in TaskThreads, (p \in Makers /\ SetProducerDone(p)) \/ StopQueue(p) PROVE MakersOK'
  <2>1. Wakes(p, "notifyEnd")
    BY <1>4 DEF SetProducerDone, StopQueue
  <2>. QED BY <2>1, ComingMoves DEF MakersOK
<1>5. ASSUME NEW c \in Takers, TakeItems(c) PROVE MakersOK'
  <2>1. /\ taskPc[c] = "take" /\ c \in TaskThreads
        /\ UNCHANGED <<queueKind, producerDone, queueStopped, fullSleepers, amount>>
    BY <1>0, <1>5 DEF TakeItems
  <2>2. CASE Wakes(c, "idle") /\ UNCHANGED queueSize
    <3>1. WakesRoom => WakesRoom'
      BY <2>1, <2>2, ComingMoves
    <3>. QED BY <2>1, <2>2, <3>1 DEF MakersOK, Full
  <2>3. CASE Wakes(c, "notifyRoom")
    BY <2>1, <2>3, ComingMoves DEF MakersOK
  <2>4. CASE queueKind # "bounded"
    BY <2>1, <2>4 DEF SleepersOK, MakersOK
  <2>. QED BY <1>5, <2>2, <2>3, <2>4 DEF TakeItems
<1>6. ASSUME NEW c \in Takers, TakeSleeps(c) PROVE MakersOK'
  <2>1. /\ taskPc[c] = "take" /\ c \in TaskThreads /\ Wakes(c, "asleep")
        /\ UNCHANGED <<queueKind, queueSize, producerDone, queueStopped, fullSleepers, amount>>
    BY <1>0, <1>6 DEF TakeSleeps
  <2>2. WakesRoom => WakesRoom'
    BY <2>1, ComingMoves
  <2>. QED BY <2>1, <2>2 DEF MakersOK, Full
<1>7. ASSUME NEW t \in TaskThreads, NotifyOneTaker(t) \/ NotifyTakers(t) PROVE MakersOK'
  <2>1. PICK s \in SUBSET emptySleepers :
          /\ taskPc[t] \in {"notifyOne", "notifyAll"} /\ Woken(t, s)
          /\ UNCHANGED <<queueKind, queueSize, producerDone, queueStopped, fullSleepers, amount>>
    BY <1>7 DEF NotifyOneTaker, NotifyTakers
  <2>2. \A v \in TaskThreads : v # t /\ v \notin s => taskPc'[v] = taskPc[v]
    BY <2>1 DEF Woken
  <2>3. \A v \in s : taskPc[v] = "asleep"
    BY DEF SleepersOK
  <2>4. WakesRoom => WakesRoom'
    BY <2>1, <2>2, <2>3 DEF WakesRoom
  <2>. QED BY <2>1, <2>4 DEF MakersOK, Full
<1>8. ASSUME NEW t \in TaskThreads, NotifyRoom(t) PROVE MakersOK'
  <2>1. PICK s \in SUBSET fullSleepers :
          /\ Cardinality(s) = Min({1, Cardinality(fullSleepers)})
          /\ fullSleepers' = fullSleepers \ s
    BY <1>8 DEF NotifyRoom
  <2>2. fullSleepers \subseteq {OnlyMaker}
    BY <1>0 DEF SleepersOK
  <2>3. fullSleepers' = {}
    <3>1. CASE fullSleepers = {}
      BY <2>1, <3>1
    <3>2. CASE fullSleepers = {OnlyMaker}
      <4>1. Cardinality(fullSleepers) = 1
        BY <3>2, FS_Singleton
      <4>2. Cardinality(s) = 1
        BY <2>1, <4>1, MinFacts
      <4>3. s # {}
        BY <4>2, FS_EmptySet
      <4>. QED BY <2>1, <3>2, <4>3
    <3>. QED BY <2>2, <3>1, <3>2
  <2>. QED BY <2>3 DEF MakersOK
<1>9. ASSUME NEW t \in TaskThreads, NotifyEveryone(t) PROVE MakersOK'
  BY <1>9 DEF NotifyEveryone, MakersOK
<1>. QED BY <1>0, <1>1, <1>2, <1>3, <1>4, <1>5, <1>6, <1>7, <1>8, <1>9 DEF TaskNext, EnterPush, EnterTake

(* When every thread has come to rest, nobody sleeps who could go on.        *)
THEOREM NoTaskWaiterIsForgotten == TaskSpec => []NoTaskWaiterForgotten
<1>1. TaskInit => TaskInv
  <2>. SUFFICES ASSUME TaskInit PROVE TaskInv
    OBVIOUS
  <2>1. TaskTypeOK
    BY TaskQueueConstants DEF TaskInit, TaskTypeOK, TaskPlaces
  <2>2. SleepersOK
    BY DEF TaskInit, SleepersOK, TaskThreads
  <2>. QED BY <2>1, <2>2 DEF TaskInit, TaskInv, TakersOK, MakersOK
<1>2. TaskInv /\ [TaskNext]_queueVarsOfTask => TaskInv'
  <2>1. TaskInv /\ UNCHANGED queueVarsOfTask => TaskInv'
    BY DEF queueVarsOfTask, TaskInv, TaskTypeOK, SleepersOK, TakersOK, MakersOK, Coming, WakesAll, WakesRoom, Full
  <2>. QED BY <2>1, TaskTypeStep, SleepersStep, TakersStep, MakersStep DEF TaskInv
<1>3. TaskInv => NoTaskWaiterForgotten
  <2>. SUFFICES ASSUME TaskInv, \A t \in TaskThreads : taskPc[t] \in {"idle", "asleep"}
                PROVE  (emptySleepers # {} => ~Ready) /\ \A p \in fullSleepers : Full(p)
    BY DEF NoTaskWaiterForgotten
  <2>1. Coming = {} /\ ~WakesAll /\ ~WakesRoom
    BY DEF Coming, WakesAll, WakesRoom
  <2>2. Cardinality(Coming) = 0
    BY <2>1, FS_EmptySet
  <2>3. queueSize \in Nat
    BY DEF TaskInv, TaskTypeOK
  <2>. QED BY <2>1, <2>2, <2>3 DEF TaskInv, TakersOK, MakersOK, Ready
<1>. QED BY <1>1, <1>2, <1>3, PTL DEF TaskSpec

-----------------------------------------------------------------------------
(* DoubleBufferQueue: the buffers as runs of items, and who writes to which. *)
Items == Writers \X Nat
WriterPlaces == {"idle", "again", "enter", "test", "write", "leave", "done"}

BufferTypeOK ==
    /\ buffer \in [{0, 1} -> Seq(Items)] /\ swapped \in Seq(Items)
    /\ writeIdx \in {0, 1} /\ oldIdx \in {0, 1}
    /\ inFlight \in [{0, 1} -> Nat]
    /\ idx \in [Writers -> {0, 1}] /\ written \in [Writers -> Nat]
    /\ writerPc \in [Writers -> WriterPlaces]
    /\ swapPc \in {"idle", "wait", "swap"}

(* The writers that are counted in a buffer.                                 *)
InBuffer(b) == {p \in Writers : idx[p] = b /\ writerPc[p] \in {"test", "write", "leave", "done"}}

(* Items of one producer in the order it wrote them, in one sequence and     *)
(* from one to another.                                                      *)
Ordered(s)  == \A i, j \in DOMAIN s : i < j /\ s[i][1] = s[j][1] => s[i][2] < s[j][2]
Below(s, t) == \A i \in DOMAIN s, j \in DOMAIN t : s[i][1] = t[j][1] => s[i][2] < t[j][2]
Has(s, p, n) == \E i \in DOMAIN s : s[i] = <<p, n>>

OldBuffer == buffer[1 - writeIdx]
NewBuffer == buffer[writeIdx]

(* Who writes to the old buffer: only those the consumer waits for.          *)
WritersOK ==
    /\ \A b \in {0, 1} : inFlight[b] = Cardinality(InBuffer(b))
    /\ swapPc # "idle" => oldIdx = 1 - writeIdx
    /\ swapPc = "idle" => OldBuffer = <<>>
    /\ \A p \in Writers : writerPc[p] = "write" /\ idx[p] # writeIdx =>
         /\ swapPc = "wait"
         /\ \A n \in Nat : ~Has(NewBuffer, p, n)

(* What was written is in one place, and in order: what was taken, then the  *)
(* old buffer, then the new one.                                             *)
ItemsOK ==
    /\ Ordered(swapped) /\ Ordered(OldBuffer) /\ Ordered(NewBuffer)
    /\ Below(swapped, OldBuffer) /\ Below(swapped, NewBuffer) /\ Below(OldBuffer, NewBuffer)
    /\ \A p \in Writers, n \in Nat :
         n \in 1..written[p] <=> Has(swapped, p, n) \/ Has(OldBuffer, p, n) \/ Has(NewBuffer, p, n)

BufferInv == BufferTypeOK /\ WritersOK /\ ItemsOK

-----------------------------------------------------------------------------
(* Two runs of items, the second all later than the first, are one run.      *)
LEMMA JoinedItems ==
  ASSUME NEW a \in Seq(Items), NEW b \in Seq(Items), NEW c \in Seq(Items)
  PROVE  /\ Ordered(a) /\ Ordered(b) /\ Below(a, b) => Ordered(a \o b)
         /\ Below(a, c) /\ Below(b, c) => Below(a \o b, c)
         /\ \A p \in Writers, n \in Nat : Has(a \o b, p, n) <=> Has(a, p, n) \/ Has(b, p, n)
<1>1. /\ a \o b \in Seq(Items) /\ Len(a) \in Nat /\ Len(b) \in Nat
      /\ DOMAIN a = 1..Len(a) /\ DOMAIN b = 1..Len(b) /\ DOMAIN (a \o b) = 1..Len(a) + Len(b)
      /\ \A i \in DOMAIN (a \o b) : (a \o b)[i] = IF i <= Len(a) THEN a[i] ELSE b[i - Len(a)]
  OBVIOUS
<1>2. \A i \in DOMAIN (a \o b) : \/ i \in DOMAIN a /\ (a \o b)[i] = a[i]
                                 \/ i > Len(a) /\ i - Len(a) \in DOMAIN b /\ (a \o b)[i] = b[i - Len(a)]
  BY <1>1
<1>3. /\ \A i \in DOMAIN a : i \in DOMAIN (a \o b) /\ (a \o b)[i] = a[i]
      /\ \A i \in DOMAIN b : Len(a) + i \in DOMAIN (a \o b) /\ (a \o b)[Len(a) + i] = b[i]
  BY <1>1
<1>4. ASSUME Ordered(a), Ordered(b), Below(a, b) PROVE Ordered(a \o b)
  <2>. SUFFICES ASSUME NEW i \in DOMAIN (a \o b), NEW j \in DOMAIN (a \o b), i < j,
                       (a \o b)[i][1] = (a \o b)[j][1]
                PROVE  (a \o b)[i][2] < (a \o b)[j][2]
    BY DEF Ordered
  <2>0. i \in Int /\ j \in Int
    BY <1>1
  <2>1. CASE j \in DOMAIN a /\ (a \o b)[j] = a[j]
    <3>1. i \in DOMAIN a /\ (a \o b)[i] = a[i]
      BY <1>1, <2>1
    <3>. QED BY <1>4, <2>1, <3>1 DEF Ordered
  <2>2. CASE j > Len(a) /\ j - Len(a) \in DOMAIN b /\ (a \o b)[j] = b[j - Len(a)]
    <3>1. CASE i \in DOMAIN a /\ (a \o b)[i] = a[i]
      BY <1>4, <2>2, <3>1 DEF Below
    <3>2. CASE i > Len(a) /\ i - Len(a) \in DOMAIN b /\ (a \o b)[i] = b[i - Len(a)]
      <4>1. i - Len(a) < j - Len(a)
        BY <1>1, <2>0
      <4>. QED BY <1>4, <2>2, <3>2, <4>1 DEF Ordered
    <3>. QED BY <1>2, <3>1, <3>2
  <2>. QED BY <1>2, <2>1, <2>2
<1>5. ASSUME Below(a, c), Below(b, c) PROVE Below(a \o b, c)
  BY <1>2, <1>5 DEF Below
<1>6. \A p \in Writers, n \in Nat : Has(a \o b, p, n) <=> Has(a, p, n) \/ Has(b, p, n)
  BY <1>2, <1>3 DEF Has
<1>. QED BY <1>4, <1>5, <1>6

(* A run of items and one item more, a producer's next.                      *)
LEMMA AppendedItem ==
  ASSUME NEW a \in Seq(Items), NEW p \in Writers, NEW m \in Nat
  PROVE  /\ Append(a, <<p, m>>) \in Seq(Items)
         /\ Ordered(a) /\ (\A n \in Nat : Has(a, p, n) => n < m) => Ordered(Append(a, <<p, m>>))
         /\ \A c \in Seq(Items) : Below(c, a) /\ (\A n \in Nat : Has(c, p, n) => n < m)
                                    => Below(c, Append(a, <<p, m>>))
         /\ \A c \in Seq(Items) : Below(a, c) /\ (\A n \in Nat : ~Has(c, p, n)) => Below(Append(a, <<p, m>>), c)
         /\ \A q \in Writers, n \in Nat :
              Has(Append(a, <<p, m>>), q, n) <=> Has(a, q, n) \/ (q = p /\ n = m)
<1>. DEFINE s == Append(a, <<p, m>>)
<1>1. /\ s \in Seq(Items) /\ Len(a) \in Nat
      /\ DOMAIN a = 1..Len(a) /\ DOMAIN s = 1..Len(a) + 1
      /\ \A i \in DOMAIN a : s[i] = a[i] /\ i <= Len(a)
      /\ s[Len(a) + 1] = <<p, m>>
  BY DEF Items
<1>. HIDE DEF s
<1>2. \A i \in DOMAIN s : (i \in DOMAIN a /\ s[i] = a[i]) \/ (i = Len(a) + 1 /\ s[i] = <<p, m>>)
  <2>. SUFFICES ASSUME NEW i \in DOMAIN s
                PROVE  (i \in DOMAIN a /\ s[i] = a[i]) \/ (i = Len(a) + 1 /\ s[i] = <<p, m>>)
    OBVIOUS
  <2>1. CASE i = Len(a) + 1
    BY <1>1, <2>1
  <2>2. CASE i # Len(a) + 1
    <3>1. i \in DOMAIN a
      BY <1>1, <2>2
    <3>. QED BY <1>1, <3>1
  <2>. QED BY <2>1, <2>2
<1>3. DOMAIN a \subseteq DOMAIN s /\ Len(a) + 1 \in DOMAIN s
  BY <1>1
<1>4. \A c \in Seq(Items) : \A i \in DOMAIN c : c[i] = <<c[i][1], c[i][2]>> /\ c[i][1] \in Writers /\ c[i][2] \in Nat
  BY DEF Items
<1>5. ASSUME Ordered(a), \A n \in Nat : Has(a, p, n) => n < m PROVE Ordered(s)
  <2>. SUFFICES ASSUME NEW i \in DOMAIN s, NEW j \in DOMAIN s, i < j, s[i][1] = s[j][1]
                PROVE  s[i][2] < s[j][2]
    BY DEF Ordered
  <2>1. i \in DOMAIN a /\ s[i] = a[i]
    BY <1>1
  <2>2. CASE j \in DOMAIN a /\ s[j] = a[j]
    BY <1>5, <2>1, <2>2 DEF Ordered
  <2>3. CASE s[j] = <<p, m>>
    BY <1>4, <1>5, <2>1, <2>3 DEF Has
  <2>. QED BY <1>2, <2>2, <2>3
<1>6. ASSUME NEW c \in Seq(Items), Below(c, a), \A n \in Nat : Has(c, p, n) => n < m
      PROVE  Below(c, s)
  <2>. SUFFICES ASSUME NEW i \in DOMAIN c, NEW j \in DOMAIN s, c[i][1] = s[j][1]
                PROVE  c[i][2] < s[j][2]
    BY DEF Below
  <2>1. CASE j \in DOMAIN a /\ s[j] = a[j]
    BY <1>6, <2>1 DEF Below
  <2>2. CASE s[j] = <<p, m>>
    BY <1>4, <1>6, <2>2 DEF Has
  <2>. QED BY <1>2, <2>1, <2>2
<1>7. ASSUME NEW c \in Seq(Items), Below(a, c), \A n \in Nat : ~Has(c, p, n)
      PROVE  Below(s, c)
  <2>. SUFFICES ASSUME NEW i \in DOMAIN s, NEW j \in DOMAIN c, s[i][1] = c[j][1]
                PROVE  s[i][2] < c[j][2]
    BY DEF Below
  <2>1. CASE i \in DOMAIN a /\ s[i] = a[i]
    BY <1>7, <2>1 DEF Below
  <2>2. CASE s[i] = <<p, m>>
    BY <1>4, <1>7, <2>2 DEF Has
  <2>. QED BY <1>2, <2>1, <2>2
<1>8. \A q \in Writers, n \in Nat : Has(s, q, n) <=> Has(a, q, n) \/ (q = p /\ n = m)
  <2>. SUFFICES ASSUME NEW q \in Writers, NEW n \in Nat
                PROVE  Has(s, q, n) <=> Has(a, q, n) \/ (q = p /\ n = m)
    OBVIOUS
  <2>1. Has(s, q, n) => Has(a, q, n) \/ (q = p /\ n = m)
    BY <1>2 DEF Has
  <2>2. Has(a, q, n) => Has(s, q, n)
    BY <1>1, <1>3 DEF Has
  <2>3. q = p /\ n = m => Has(s, q, n)
    BY <1>1, <1>3 DEF Has
  <2>. QED BY <2>1, <2>2, <2>3
<1>. QED BY <1>1, <1>5, <1>6, <1>7, <1>8 DEF s

-----------------------------------------------------------------------------
(* Every step of writer and swapper keeps the types.                         *)
LEMMA BufferTypeStep ==
  ASSUME BufferInv, BufferNext
  PROVE  BufferTypeOK'
<1>. USE DEF BufferInv, BufferTypeOK, WriterTo, WriterPlaces
<1>1. ASSUME NEW p \in Writers, LoadIdx(p) \/ PushRefused(p) \/ EnterBuffer(p) \/ TestIdx(p) PROVE BufferTypeOK'
  <2>1. CASE LoadIdx(p)
    BY <2>1 DEF LoadIdx
  <2>2. CASE PushRefused(p)
    BY <2>2 DEF PushRefused
  <2>3. CASE EnterBuffer(p)
    BY <2>3 DEF EnterBuffer
  <2>4. CASE TestIdx(p)
    BY <2>4 DEF TestIdx
  <2>. QED BY <1>1, <2>1, <2>2, <2>3, <2>4
<1>2. ASSUME NEW p \in Writers, WriteItem(p) PROVE BufferTypeOK'
  <2>1. written'[p] \in Nat /\ written' \in [Writers -> Nat] /\ <<p, written'[p]>> \in Items
    BY <1>2 DEF WriteItem, Items
  <2>2. Append(buffer[idx[p]], <<p, written'[p]>>) \in Seq(Items)
    BY <2>1
  <2>. QED BY <1>2, <2>1, <2>2 DEF WriteItem
<1>3. ASSUME NEW p \in Writers, LeaveBuffer(p) PROVE BufferTypeOK'
  <2>1. p \in InBuffer(idx[p]) /\ idx[p] \in {0, 1}
    BY <1>3 DEF LeaveBuffer, InBuffer
  <2>2. IsFiniteSet(InBuffer(idx[p]))
    BY DoubleBufferConstants, FS_Subset DEF InBuffer
  <2>3. inFlight[idx[p]] = Cardinality(InBuffer(idx[p])) /\ inFlight[idx[p]] \in Nat
    BY <2>1 DEF WritersOK
  <2>4. inFlight[idx[p]] # 0
    BY <2>1, <2>2, <2>3, FS_EmptySet
  <2>. QED BY <1>3, <2>1, <2>3, <2>4 DEF LeaveBuffer
<1>4. CASE FlipIdx \/ AwaitWriters \/ StopBuffer
  BY <1>4 DEF FlipIdx, AwaitWriters, StopBuffer
<1>5. CASE TakeBuffer
  <2>1. swapped \o buffer[oldIdx] \in Seq(Items) /\ <<>> \in Seq(Items)
    OBVIOUS
  <2>. QED BY <1>5, <2>1 DEF TakeBuffer
<1>. QED BY <1>1, <1>2, <1>3, <1>4, <1>5 DEF BufferNext

(* inFlight counts who is in a buffer.                                       *)
LEMMA InBufferMoves ==
  ASSUME BufferInv, NEW p \in Writers, NEW c, WriterTo(p, c), idx' = idx
  PROVE  LET in == {"test", "write", "leave", "done"}
         IN  \A b \in {0, 1} :
               /\ (c \in in <=> writerPc[p] \in in) \/ idx[p] # b => InBuffer(b)' = InBuffer(b)
               /\ c \in in /\ writerPc[p] \notin in /\ idx[p] = b =>
                    Cardinality(InBuffer(b)') = Cardinality(InBuffer(b)) + 1
               /\ c \notin in /\ writerPc[p] \in in /\ idx[p] = b =>
                    Cardinality(InBuffer(b)') = Cardinality(InBuffer(b)) - 1
<1>. DEFINE in == {"test", "write", "leave", "done"}
<1>. SUFFICES ASSUME NEW b \in {0, 1}
              PROVE  /\ (c \in in <=> writerPc[p] \in in) \/ idx[p] # b => InBuffer(b)' = InBuffer(b)
                     /\ c \in in /\ writerPc[p] \notin in /\ idx[p] = b =>
                          Cardinality(InBuffer(b)') = Cardinality(InBuffer(b)) + 1
                     /\ c \notin in /\ writerPc[p] \in in /\ idx[p] = b =>
                          Cardinality(InBuffer(b)') = Cardinality(InBuffer(b)) - 1
  OBVIOUS
<1>1. IsFiniteSet(InBuffer(b)) /\ Cardinality(InBuffer(b)) \in Nat
  BY DoubleBufferConstants, FS_Subset, FS_CardinalityType DEF InBuffer
<1>2. /\ writerPc' \in [Writers -> {c} \union WriterPlaces] /\ writerPc'[p] = c
      /\ \A q \in Writers \ {p} : writerPc'[q] = writerPc[q]
  BY DEF WriterTo, BufferInv, BufferTypeOK
<1>3. (c \in in <=> writerPc[p] \in in) \/ idx[p] # b => InBuffer(b)' = InBuffer(b)
  BY <1>2 DEF InBuffer
<1>4. ASSUME c \in in, writerPc[p] \notin in, idx[p] = b
      PROVE  Cardinality(InBuffer(b)') = Cardinality(InBuffer(b)) + 1
  <2>1. InBuffer(b)' = InBuffer(b) \union {p} /\ p \notin InBuffer(b)
    BY <1>2, <1>4 DEF InBuffer
  <2>. QED BY <1>1, <2>1, FS_AddElement
<1>5. ASSUME c \notin in, writerPc[p] \in in, idx[p] = b
      PROVE  Cardinality(InBuffer(b)') = Cardinality(InBuffer(b)) - 1
  <2>1. InBuffer(b)' = InBuffer(b) \ {p} /\ p \in InBuffer(b)
    BY <1>2, <1>5 DEF InBuffer
  <2>. QED BY <1>1, <2>1, FS_RemoveElement
<1>. QED BY <1>3, <1>4, <1>5

(* Every step keeps the counts of the buffers, and the old buffer closed to  *)
(* who came to it too late.                                                  *)
LEMMA WritersStep ==
  ASSUME BufferInv, BufferNext
  PROVE  WritersOK'
<1>. USE DEF BufferInv
<1>0. /\ writeIdx \in {0, 1} /\ oldIdx \in {0, 1} /\ inFlight \in [{0, 1} -> Nat] /\ idx \in [Writers -> {0, 1}]
      /\ writerPc \in [Writers -> WriterPlaces] /\ swapPc \in {"idle", "wait", "swap"}
      /\ buffer \in [{0, 1} -> Seq(Items)] /\ 1 - writeIdx \in {0, 1}
  BY DEF BufferTypeOK
<1>1. ASSUME NEW p \in Writers, LoadIdx(p) PROVE WritersOK'
  <2>1. /\ writerPc[p] \in {"idle", "again"} /\ idx' = [idx EXCEPT ![p] = writeIdx] /\ WriterTo(p, "enter")
        /\ UNCHANGED <<buffer, writeIdx, inFlight, swapPc, oldIdx>>
    BY <1>1 DEF LoadIdx
  <2>2. \A b \in {0, 1} : InBuffer(b)' = InBuffer(b)
    BY <1>0, <2>1 DEF InBuffer, WriterTo
  <2>. QED BY <1>0, <2>1, <2>2 DEF WritersOK, WriterTo, OldBuffer, NewBuffer, Has
<1>2. ASSUME NEW p \in Writers, PushRefused(p) \/ TestIdx(p) PROVE WritersOK'
  <2>. PICK c \in {"idle", "write", "leave"} :
          /\ WriterTo(p, c) /\ (c = "idle" <=> writerPc[p] # "test") /\ (c = "write" => idx[p] = writeIdx)
          /\ writerPc[p] \in {"again", "test"}
          /\ UNCHANGED <<buffer, writeIdx, inFlight, swapPc, oldIdx, idx>>
    BY <1>2 DEF PushRefused, TestIdx
  <2>2. \A b \in {0, 1} : InBuffer(b)' = InBuffer(b)
    BY InBufferMoves
  <2>. QED BY <1>0, <2>2 DEF WritersOK, WriterTo, OldBuffer, NewBuffer, Has
<1>3. ASSUME NEW p \in Writers, EnterBuffer(p) PROVE WritersOK'
  <2>1. /\ writerPc[p] = "enter" /\ WriterTo(p, "test") /\ inFlight' = [inFlight EXCEPT ![idx[p]] = @ + 1]
        /\ UNCHANGED <<buffer, writeIdx, swapPc, oldIdx, idx>>
    BY <1>3 DEF EnterBuffer
  <2>2. \A b \in {0, 1} : inFlight'[b] = Cardinality(InBuffer(b)')
    BY <1>0, <2>1, InBufferMoves DEF WritersOK
  <2>. QED BY <1>0, <2>1, <2>2 DEF WritersOK, WriterTo, OldBuffer, NewBuffer, Has
<1>4. ASSUME NEW p \in Writers, WriteItem(p) PROVE WritersOK'
  <2>1. /\ writerPc[p] = "write" /\ WriterTo(p, "done") /\ UNCHANGED <<inFlight, writeIdx, swapPc, oldIdx, idx>>
        /\ buffer' = [buffer EXCEPT ![idx[p]] = Append(@, <<p, written'[p]>>)]
        /\ written' = [written EXCEPT ![p] = @ + 1]
    BY <1>4 DEF WriteItem
  <2>2. \A b \in {0, 1} : InBuffer(b)' = InBuffer(b)
    BY <2>1, InBufferMoves
  <2>3. swapPc = "idle" => OldBuffer' = <<>>
    <3>1. swapPc = "idle" => idx[p] # 1 - writeIdx
      BY <1>0, <2>1 DEF WritersOK
    <3>. QED BY <1>0, <2>1, <3>1 DEF WritersOK, OldBuffer
  <2>4. ASSUME NEW q \in Writers, writerPc'[q] = "write", idx'[q] # writeIdx', NEW n \in Nat
        PROVE  swapPc = "wait" /\ ~Has(NewBuffer, q, n)'
    <3>1. q # p /\ writerPc[q] = "write" /\ swapPc = "wait" /\ ~Has(NewBuffer, q, n)
      BY <1>0, <2>1, <2>4 DEF WritersOK, WriterTo
    <3>2. CASE idx[p] # writeIdx
      <4>1. NewBuffer' = NewBuffer
        BY <1>0, <2>1, <3>2 DEF NewBuffer
      <4>. QED BY <3>1, <4>1 DEF Has
    <3>3. CASE idx[p] = writeIdx
      <4>1. written'[p] \in Nat
        BY <2>1 DEF BufferTypeOK
      <4>2. NewBuffer' = Append(NewBuffer, <<p, written'[p]>>)
        BY <1>0, <2>1, <3>3 DEF NewBuffer
      <4>3. NewBuffer \in Seq(Items)
        BY <1>0 DEF NewBuffer
      <4>4. Has(NewBuffer', q, n) <=> Has(NewBuffer, q, n)
        BY <3>1, <4>1, <4>2, <4>3, AppendedItem
      <4>. QED BY <3>1, <4>4 DEF Has
    <3>. QED BY <3>2, <3>3
  <2>. QED BY <1>0, <2>1, <2>2, <2>3, <2>4 DEF WritersOK
<1>5. ASSUME NEW p \in Writers, LeaveBuffer(p) PROVE WritersOK'
  <2>. PICK c \in {"idle", "again"} :
          /\ writerPc[p] \in {"leave", "done"} /\ WriterTo(p, c) /\ inFlight' = [inFlight EXCEPT ![idx[p]] = @ - 1]
          /\ UNCHANGED <<buffer, writeIdx, swapPc, oldIdx, idx>>
    BY <1>5 DEF LeaveBuffer
  <2>2. \A b \in {0, 1} : inFlight'[b] = Cardinality(InBuffer(b)')
    BY <1>0, InBufferMoves DEF WritersOK
  <2>. QED BY <1>0, <2>2 DEF WritersOK, WriterTo, OldBuffer, NewBuffer, Has
<1>6. CASE FlipIdx
  <2>1. /\ swapPc = "idle" /\ oldIdx' = writeIdx /\ writeIdx' = 1 - writeIdx /\ swapPc' = "wait"
        /\ UNCHANGED <<buffer, inFlight, idx, writerPc>>
    BY <1>6 DEF FlipIdx
  <2>2. NewBuffer' = <<>>
    BY <2>1 DEF WritersOK, OldBuffer, NewBuffer
  <2>3. \A p \in Writers, n \in Nat : ~Has(NewBuffer, p, n)'
    BY <2>2 DEF Has
  <2>4. \A b \in {0, 1} : inFlight'[b] = Cardinality(InBuffer(b)')
    BY <2>1 DEF WritersOK, InBuffer
  <2>. QED BY <1>0, <2>1, <2>3, <2>4 DEF WritersOK
<1>7. CASE AwaitWriters
  <2>1. /\ swapPc = "wait" /\ inFlight[oldIdx] = 0 /\ swapPc' = "swap"
        /\ UNCHANGED <<buffer, writeIdx, inFlight, idx, writerPc, oldIdx>>
    BY <1>7 DEF AwaitWriters
  <2>2. InBuffer(oldIdx) = {}
    <3>1. IsFiniteSet(InBuffer(oldIdx))
      BY DoubleBufferConstants, FS_Subset DEF InBuffer
    <3>. QED BY <1>0, <2>1, <3>1, FS_EmptySet DEF WritersOK
  <2>3. \A p \in Writers : ~(writerPc[p] = "write" /\ idx[p] # writeIdx)
    <3>1. oldIdx = 1 - writeIdx
      BY <2>1 DEF WritersOK
    <3>. QED BY <1>0, <2>2, <3>1 DEF InBuffer
  <2>4. \A b \in {0, 1} : inFlight'[b] = Cardinality(InBuffer(b)')
    BY <2>1 DEF WritersOK, InBuffer
  <2>. QED BY <2>1, <2>3, <2>4 DEF WritersOK
<1>8. CASE TakeBuffer
  <2>1. /\ swapPc = "swap" /\ swapPc' = "idle" /\ buffer' = [buffer EXCEPT ![oldIdx] = <<>>]
        /\ UNCHANGED <<writeIdx, inFlight, idx, writerPc, oldIdx>>
    BY <1>8 DEF TakeBuffer
  <2>2. OldBuffer' = <<>> /\ \A p \in Writers : ~(writerPc[p] = "write" /\ idx[p] # writeIdx)
    BY <1>0, <2>1 DEF WritersOK, OldBuffer
  <2>3. \A b \in {0, 1} : inFlight'[b] = Cardinality(InBuffer(b)')
    BY <2>1 DEF WritersOK, InBuffer
  <2>. QED BY <2>1, <2>2, <2>3 DEF WritersOK
<1>9. CASE StopBuffer
  BY <1>9 DEF StopBuffer, WritersOK, InBuffer, OldBuffer, NewBuffer, Has
<1>. QED BY <1>1, <1>2, <1>3, <1>4, <1>5, <1>6, <1>7, <1>8, <1>9 DEF BufferNext

(* Every step keeps the items in order across what was taken and the two     *)
(* buffers.                                                                  *)
LEMMA ItemsStep ==
  ASSUME BufferInv, BufferNext
  PROVE  ItemsOK'
<1>. USE DEF BufferInv
<1>0. /\ writeIdx \in {0, 1} /\ oldIdx \in {0, 1} /\ 1 - writeIdx \in {0, 1} /\ 1 - writeIdx # writeIdx
      /\ buffer \in [{0, 1} -> Seq(Items)] /\ swapped \in Seq(Items) /\ idx \in [Writers -> {0, 1}]
      /\ OldBuffer \in Seq(Items) /\ NewBuffer \in Seq(Items) /\ written \in [Writers -> Nat]
  BY DEF BufferTypeOK, OldBuffer, NewBuffer
<1>1. CASE UNCHANGED <<buffer, swapped, writeIdx, written>>
  <2>1. OldBuffer' = OldBuffer /\ NewBuffer' = NewBuffer
    BY <1>1 DEF OldBuffer, NewBuffer
  <2>. QED BY <1>1, <2>1 DEF ItemsOK, Ordered, Below, Has
<1>2. ASSUME NEW p \in Writers, WriteItem(p) PROVE ItemsOK'
  <2>. DEFINE m == written[p] + 1
  <2>1. /\ written' = [written EXCEPT ![p] = m] /\ m \in Nat /\ swapped' = swapped /\ writeIdx' = writeIdx
        /\ writerPc[p] = "write"
        /\ buffer' = [buffer EXCEPT ![idx[p]] = Append(@, <<p, m>>)]
    BY <1>0, <1>2 DEF WriteItem
  <2>2. /\ \A n \in Nat : Has(swapped, p, n) => n < m
        /\ \A n \in Nat : Has(OldBuffer, p, n) => n < m
        /\ \A n \in Nat : Has(NewBuffer, p, n) => n < m
    BY <1>0 DEF ItemsOK
  <2>3. \A q \in Writers, n \in Nat : n \in 1..written'[q] <=> n \in 1..written[q] \/ (q = p /\ n = m)
    BY <1>0, <2>1
  <2>. HIDE DEF m
  <2>4. CASE idx[p] = writeIdx
    <3>1. OldBuffer' = OldBuffer /\ NewBuffer' = Append(NewBuffer, <<p, m>>)
      BY <1>0, <2>1, <2>4 DEF OldBuffer, NewBuffer
    <3>2. Ordered(NewBuffer') /\ Below(swapped, NewBuffer') /\ Below(OldBuffer, NewBuffer')
      BY <1>0, <2>1, <2>2, <3>1, AppendedItem DEF ItemsOK
    <3>3. \A q \in Writers, n \in Nat : Has(NewBuffer', q, n) <=> Has(NewBuffer, q, n) \/ (q = p /\ n = m)
      BY <1>0, <2>1, <3>1, AppendedItem
    <3>4. \A q \in Writers, n \in Nat :
            n \in 1..written'[q] <=> Has(swapped, q, n) \/ Has(OldBuffer, q, n) \/ Has(NewBuffer', q, n)
      BY <2>3, <3>3 DEF ItemsOK
    <3>. QED BY <2>1, <3>1, <3>2, <3>4 DEF ItemsOK, Ordered, Below, Has
  <2>5. CASE idx[p] # writeIdx
    <3>0. idx[p] = 1 - writeIdx /\ \A n \in Nat : ~Has(NewBuffer, p, n)
      BY <1>0, <2>1, <2>5 DEF WritersOK
    <3>1. NewBuffer' = NewBuffer /\ OldBuffer' = Append(OldBuffer, <<p, m>>)
      BY <1>0, <2>1, <3>0 DEF OldBuffer, NewBuffer
    <3>2. Ordered(OldBuffer') /\ Below(swapped, OldBuffer') /\ Below(OldBuffer', NewBuffer)
      <4>1. Ordered(OldBuffer') /\ Below(swapped, OldBuffer')
        BY <1>0, <2>1, <2>2, <3>1, AppendedItem DEF ItemsOK
      <4>2. Below(OldBuffer', NewBuffer)
        <5>1. Below(OldBuffer, NewBuffer)
          BY DEF ItemsOK
        <5>2. \A c \in Seq(Items) : Below(OldBuffer, c) /\ (\A n \in Nat : ~Has(c, p, n))
                => Below(Append(OldBuffer, <<p, m>>), c)
          <6>1. m \in Nat /\ OldBuffer \in Seq(Items)
            BY <1>0, <2>1
          <6>. QED BY ONLY <6>1, p \in Writers, AppendedItem
        <5>. QED BY ONLY <1>0, <3>0, <3>1, <5>1, <5>2
      <4>. QED BY <4>1, <4>2
    <3>3. \A q \in Writers, n \in Nat : Has(OldBuffer', q, n) <=> Has(OldBuffer, q, n) \/ (q = p /\ n = m)
      BY <1>0, <2>1, <3>1, AppendedItem
    <3>4. \A q \in Writers, n \in Nat :
            n \in 1..written'[q] <=> Has(swapped, q, n) \/ Has(OldBuffer', q, n) \/ Has(NewBuffer, q, n)
      BY <2>3, <3>3 DEF ItemsOK
    <3>. QED BY <2>1, <3>1, <3>2, <3>4 DEF ItemsOK, Ordered, Below, Has
  <2>. QED BY <2>4, <2>5
<1>3. CASE FlipIdx
  <2>1. /\ OldBuffer = <<>> /\ OldBuffer' = NewBuffer /\ NewBuffer' = <<>> /\ UNCHANGED <<swapped, written>>
    BY <1>0, <1>3 DEF FlipIdx, WritersOK, OldBuffer, NewBuffer
  <2>2. /\ Ordered(<<>>) /\ \A s \in Seq(Items) : Below(s, <<>>)
        /\ \A p \in Writers, n \in Nat : ~Has(<<>>, p, n)
    BY DEF Ordered, Below, Has
  <2>. QED BY <1>0, <2>1, <2>2 DEF ItemsOK, Ordered, Below, Has
<1>4. CASE TakeBuffer
  <2>1. oldIdx = 1 - writeIdx
    BY <1>4 DEF TakeBuffer, WritersOK
  <2>2. /\ swapped' = swapped \o OldBuffer /\ OldBuffer' = <<>> /\ NewBuffer' = NewBuffer /\ written' = written
    BY <1>0, <1>4, <2>1 DEF TakeBuffer, OldBuffer, NewBuffer
  <2>3. Ordered(swapped') /\ Below(swapped', NewBuffer)
    BY <1>0, <2>2, JoinedItems DEF ItemsOK
  <2>4. \A p \in Writers, n \in Nat : Has(swapped', p, n) <=> Has(swapped, p, n) \/ Has(OldBuffer, p, n)
    BY <1>0, <2>2, JoinedItems
  <2>5. /\ Ordered(<<>>) /\ \A s : Below(s, <<>>) /\ Below(<<>>, s)
        /\ \A p \in Writers, n \in Nat : ~Has(<<>>, p, n)
    BY DEF Ordered, Below, Has
  <2>6. \A p \in Writers, n \in Nat :
          n \in 1..written[p] <=> Has(swapped', p, n) \/ Has(<<>>, p, n) \/ Has(NewBuffer, p, n)
    BY <2>4, <2>5 DEF ItemsOK
  <2>. QED BY <2>2, <2>3, <2>5, <2>6 DEF ItemsOK, Ordered, Below, Has
<1>. QED BY <1>1, <1>2, <1>3, <1>4
     DEF BufferNext, LoadIdx, PushRefused, EnterBuffer, TestIdx, LeaveBuffer, AwaitWriters, StopBuffer

(* The consumer takes a buffer nobody appends to, and what each producer     *)
(* wrote comes out once, in its order, with nothing skipped.                 *)
THEOREM BufferAlwaysTakenWhole == BufferSpec => []BufferTakenWhole
<1>1. BufferInit => BufferInv
  <2>. SUFFICES ASSUME BufferInit PROVE BufferInv
    OBVIOUS
  <2>1. BufferTypeOK
    BY DEF BufferInit, BufferTypeOK, WriterPlaces
  <2>2. InBuffer(0) = {} /\ InBuffer(1) = {}
    BY DEF BufferInit, InBuffer
  <2>3. OldBuffer = <<>> /\ NewBuffer = <<>>
    BY DEF BufferInit, OldBuffer, NewBuffer
  <2>4. WritersOK
    BY <2>2, <2>3, FS_EmptySet DEF BufferInit, WritersOK
  <2>5. ItemsOK
    BY <2>3 DEF BufferInit, ItemsOK, Ordered, Below, Has
  <2>. QED BY <2>1, <2>4, <2>5 DEF BufferInv
<1>2. BufferInv /\ [BufferNext]_bufferVars => BufferInv'
  <2>1. BufferInv /\ UNCHANGED bufferVars => BufferInv'
    <3>. SUFFICES ASSUME BufferInv, UNCHANGED bufferVars PROVE BufferInv'
      OBVIOUS
    <3>1. BufferTypeOK'
      BY DEF bufferVars, BufferInv, BufferTypeOK
    <3>2. WritersOK'
      BY DEF bufferVars, BufferInv, WritersOK, InBuffer, OldBuffer, NewBuffer, Has
    <3>3. ItemsOK'
      BY DEF bufferVars, BufferInv, ItemsOK, OldBuffer, NewBuffer, Ordered, Below, Has
    <3>. QED BY <3>1, <3>2, <3>3 DEF BufferInv
  <2>. QED BY <2>1, BufferTypeStep, WritersStep, ItemsStep DEF BufferInv
<1>3. BufferInv => BufferTakenWhole
  <2>. SUFFICES ASSUME BufferInv PROVE BufferTakenWhole
    OBVIOUS
  <2>. USE DEF BufferInv
  <2>0. /\ swapped \in Seq(Items) /\ Len(swapped) \in Nat /\ DOMAIN swapped = 1..Len(swapped)
        /\ \A i \in DOMAIN swapped : /\ swapped[i] = <<swapped[i][1], swapped[i][2]>>
                                     /\ swapped[i][1] \in Writers /\ swapped[i][2] \in Nat
    BY DEF BufferTypeOK, Items
  <2>1. swapPc = "swap" => ~ \E p \in Writers : writerPc[p] = "write" /\ idx[p] = oldIdx
    BY DEF BufferTypeOK, WritersOK
  <2>2. ASSUME NEW i \in DOMAIN swapped, NEW j \in DOMAIN swapped, swapped[i] = swapped[j]
        PROVE  i = j
    BY <2>0, <2>2 DEF ItemsOK, Ordered
  <2>3. ASSUME NEW i \in DOMAIN swapped, NEW n \in 1..swapped[i][2] - 1
        PROVE  \E j \in 1..i - 1 : swapped[j] = <<swapped[i][1], n>>
    <3>. DEFINE p == swapped[i][1]
                m == swapped[i][2]
    <3>1. p \in Writers /\ m \in Nat /\ n \in Nat /\ n < m /\ n >= 1 /\ Has(swapped, p, m)
      BY <2>0 DEF Has
    <3>2. m \in 1..written[p] /\ written[p] \in Nat
      BY <3>1 DEF ItemsOK, BufferTypeOK
    <3>3. n \in 1..written[p]
      BY <3>1, <3>2
    <3>4. Has(swapped, p, n) \/ Has(OldBuffer, p, n) \/ Has(NewBuffer, p, n)
      BY <3>1, <3>3 DEF ItemsOK
    <3>5. ~Has(OldBuffer, p, n) /\ ~Has(NewBuffer, p, n)
      <4>1. ASSUME NEW s, Below(swapped, s), NEW k \in DOMAIN s, s[k] = <<p, n>> PROVE FALSE
        <5>1. s[k][1] = p /\ s[k][2] = n
          BY <4>1
        <5>. QED BY <3>1, <4>1, <5>1 DEF Below
      <4>. QED BY <4>1 DEF Has, ItemsOK
    <3>6. PICK j \in DOMAIN swapped : swapped[j] = <<p, n>>
      BY <3>4, <3>5 DEF Has
    <3>7. ~(i < j) /\ i # j
      BY <2>0, <3>1, <3>6 DEF ItemsOK, Ordered
    <3>8. j \in 1..i - 1
      BY <2>0, <3>7
    <3>. QED BY <3>6, <3>8
  <2>. QED BY <2>1, <2>2, <2>3 DEF BufferTakenWhole
<1>. QED BY <1>1, <1>2, <1>3, PTL DEF BufferSpec

-----------------------------------------------------------------------------
(* DelayedTaskQueue: the timer's sleep and who may cut it short.             *)
DelayPlaces == {"idle", "push", "notify", "loop", "asleep", "task", "taskDone", "gone"}

(* A timer asleep that has a reason to go on is about to be notified.        *)
DelayInv ==
    /\ delayPc \in [DelayThreads -> DelayPlaces]
    /\ delayPc[Timer] = "asleep" /\ TimerMayGo => \E r \in Reservers : delayPc[r] = "notify"

(* Only a reserver can have made the timer's sleep too long, and it tells.   *)
LEMMA DelayStep ==
  ASSUME DelayInv, DelayNext
  PROVE  DelayInv'
<1>. USE DEF DelayInv, DelayTo
<1>0. Timer \in DelayThreads /\ Timer \notin Reservers /\ Reservers \subseteq DelayThreads
  BY DelayedConstants DEF Timer, DelayThreads
<1>t. \A t \in DelayThreads : t = Timer \/ t \in Reservers
  BY DEF DelayThreads
<1>1. ASSUME heap' = heap PROVE Top' = Top
  BY <1>1 DEF Top
<1>2. delayPc' \in [DelayThreads -> DelayPlaces]
  BY <1>0 DEF DelayNext, DelayPlaces, ReadClock, PushDelayed, NotifyTimer, StopTimer, TimerSleeps, TimerWakes,
              TimerRunsTask, TaskReturns, TimerEnds, Tick, DelayThreads
<1>3. SUFFICES ASSUME delayPc'[Timer] = "asleep" /\ TimerMayGo'
               PROVE  \E r \in Reservers : delayPc'[r] = "notify"
  BY <1>2
<1>4. ASSUME NEW t \in DelayThreads, ReadClock(t)
      PROVE  \E r \in Reservers : delayPc'[r] = "notify"
  <2>1. t # Timer /\ delayPc[t] = "idle" /\ delayPc'[Timer] = delayPc[Timer] /\ TimerMayGo
    BY <1>0, <1>1, <1>3, <1>4 DEF ReadClock, TimerMayGo
  <2>. QED BY <1>0, <1>3, <1>4, <2>1 DEF ReadClock
<1>5. ASSUME NEW t \in DelayThreads, PushDelayed(t)
      PROVE  \E r \in Reservers : delayPc'[r] = "notify"
  <2>1. t \in Reservers /\ delayPc[t] = "push" /\ delayPc[Timer] = "asleep"
    BY <1>0, <1>t, <1>3, <1>5 DEF PushDelayed
  <2>2. CASE delayedStop
    <3>1. TimerMayGo
      BY <2>2 DEF TimerMayGo
    <3>. QED BY <1>0, <2>1, <2>2, <3>1, <1>5 DEF PushDelayed
  <2>3. CASE ~delayedStop
    BY <1>0, <2>1, <2>3, <1>5 DEF PushDelayed
  <2>. QED BY <2>2, <2>3
<1>6. ASSUME NEW t \in DelayThreads, NotifyTimer(t)
      PROVE  \E r \in Reservers : delayPc'[r] = "notify"
  <2>1. TimerMayGo' <=> TimerMayGo
    BY <1>1, <1>6 DEF NotifyTimer, TimerMayGo
  <2>2. delayPc'[Timer] # "asleep"
    BY <1>0, <1>t, <1>3, <1>6, <2>1 DEF NotifyTimer
  <2>. QED BY <1>3, <2>2
<1>7. ASSUME NEW r \in Reservers, StopTimer(r)
      PROVE  \E u \in Reservers : delayPc'[u] = "notify"
  BY <1>0, <1>7 DEF StopTimer
<1>8. CASE TimerSleeps
  <2>1. ~TimerMayGo'
    BY <1>1, <1>8 DEF TimerSleeps, TimerMayGo
  <2>. QED BY <1>3, <2>1
<1>9. CASE TimerWakes \/ TimerRunsTask \/ TaskReturns \/ TimerEnds
  BY <1>0, <1>3, <1>9 DEF TimerWakes, TimerRunsTask, TaskReturns, TimerEnds
<1>10. CASE Tick
  BY <1>1, <1>3, <1>10 DEF Tick, TimerMayGo
<1>. QED BY <1>4, <1>5, <1>6, <1>7, <1>8, <1>9, <1>10 DEF DelayNext

(* The timer does not sleep past a task, whatever is reserved meanwhile.     *)
THEOREM TimerNeverOversleeps == DelaySpec => []TimerDoesNotOversleep
<1>1. DelayInit => DelayInv
  BY DelayedConstants DEF DelayInit, DelayInv, DelayPlaces, DelayThreads, Timer
<1>2. DelayInv /\ [DelayNext]_delayVars => DelayInv'
  <2>1. DelayInv /\ UNCHANGED delayVars => DelayInv'
    BY DEF delayVars, DelayInv, TimerMayGo, Top
  <2>. QED BY <2>1, DelayStep
<1>3. DelayInv => TimerDoesNotOversleep
  BY DEF DelayInv, TimerMayGo, TimerDoesNotOversleep
<1>. QED BY <1>1, <1>2, <1>3, PTL DEF DelaySpec

-----------------------------------------------------------------------------
(* SlotStack: what a thread read of the head and of its next link.           *)
Heads == [version : Nat, index : SlotIds \union {NullIndex}]
StackPlaces == {"idle", "popRead", "popSwap", "pushLink", "pushSwap"}

SlotTypeOK ==
    /\ head \in Heads /\ oldHead \in [SlotUsers -> Heads]
    /\ nextFree \in [SlotIds -> SlotIds \union {NullIndex}]
    /\ taken \in [SlotUsers -> SUBSET SlotIds]
    /\ link \in [SlotUsers -> SlotIds \union {NullIndex}]
    /\ stackPc \in [SlotUsers -> StackPlaces]
    /\ freeSlots \in Seq(SlotIds)

(* A copy of the head is of an earlier version, or is the head; then what    *)
(* was read through it still holds.                                          *)
CopiesOK ==
    \A t \in SlotUsers :
      /\ oldHead[t].version <= head.version
      /\ oldHead[t].version = head.version /\ stackPc[t] # "idle" => oldHead[t] = head
      /\ stackPc[t] = "popSwap" =>
           /\ oldHead[t].index # NullIndex
           /\ oldHead[t] = head => link[t] = nextFree[head.index]
      /\ stackPc[t] \in {"pushLink", "pushSwap"} => link[t] \in taken[t]
      /\ stackPc[t] = "pushSwap" => nextFree[link[t]] = oldHead[t].index

SlotInv == SlotTypeOK /\ CopiesOK /\ EverySlotOnce

-----------------------------------------------------------------------------
(* The end of the list is no slot.                                           *)
LEMMA SlotsAndNull == NullIndex \notin SlotIds
  BY SlotStackConstants DEF SlotIds, NullIndex

(* Every step of Pop() and Push() keeps the invariant: an exchange that      *)
(* succeeds finds the version it read, so the link it read is the link.      *)
LEMMA SlotStep ==
  ASSUME SlotInv, NEW t \in SlotUsers,
         \/ PopBegin(t) \/ PopEmpty(t) \/ PopReadNext(t) \/ PopExchange(t)
         \/ (\E s \in SlotIds : PushBegin(t, s)) \/ PushLink(t) \/ PushExchange(t)
  PROVE  SlotInv'
<1>. USE DEF SlotInv
<1>0. /\ head \in Heads /\ oldHead \in [SlotUsers -> Heads] /\ stackPc \in [SlotUsers -> StackPlaces]
      /\ nextFree \in [SlotIds -> SlotIds \union {NullIndex}] /\ taken \in [SlotUsers -> SUBSET SlotIds]
      /\ link \in [SlotUsers -> SlotIds \union {NullIndex}] /\ freeSlots \in Seq(SlotIds)
      /\ head.version \in Nat /\ head.index \in SlotIds \union {NullIndex}
      /\ Len(freeSlots) \in Nat /\ DOMAIN freeSlots = 1..Len(freeSlots)
      /\ \A i \in DOMAIN freeSlots : freeSlots[i] \in SlotIds
      /\ NullIndex \notin SlotIds
  BY SlotsAndNull DEF SlotTypeOK, Heads
<1>1. CASE PopBegin(t) \/ PopEmpty(t) \/ PopReadNext(t) \/ \E s \in SlotIds : PushBegin(t, s)
  <2>1. UNCHANGED <<head, nextFree, taken, freeSlots>>
    BY <1>1 DEF PopBegin, PopEmpty, PopReadNext, PushBegin
  <2>2. EverySlotOnce'
    BY <2>1 DEF EverySlotOnce
  <2>3. SlotTypeOK'
    <3>. USE <1>0, <2>1 DEF SlotTypeOK, LoadHead, StepTo, StackPlaces
    <3>1. CASE PopBegin(t)
      BY <3>1 DEF PopBegin
    <3>2. CASE PopEmpty(t)
      BY <3>2 DEF PopEmpty
    <3>3. CASE PopReadNext(t)
      <4>1. oldHead[t].index \in SlotIds
        BY <3>3 DEF PopReadNext, Heads
      <4>. QED BY <3>3, <4>1 DEF PopReadNext
    <3>4. ASSUME NEW s \in SlotIds, PushBegin(t, s) PROVE SlotTypeOK'
      BY <3>4 DEF PushBegin
    <3>. QED BY <1>1, <3>1, <3>2, <3>3, <3>4
  <2>4. CopiesOK'
    <3>1. CASE PopBegin(t)
      BY <1>0, <3>1 DEF PopBegin, CopiesOK, LoadHead, StepTo
    <3>2. CASE PopEmpty(t)
      BY <1>0, <3>2 DEF PopEmpty, CopiesOK, StepTo
    <3>3. CASE PopReadNext(t)
      BY <1>0, <3>3 DEF PopReadNext, CopiesOK, StepTo
    <3>4. ASSUME NEW s \in SlotIds, PushBegin(t, s) PROVE CopiesOK'
      BY <1>0, <3>4 DEF PushBegin, CopiesOK, LoadHead, StepTo
    <3>. QED BY <1>1, <3>1, <3>2, <3>3, <3>4
  <2>. QED BY <2>2, <2>3, <2>4
<1>2. ASSUME NEW retry \in {"popRead", "pushLink"}, LoadHead(t), StepTo(t, retry),
             retry = "pushLink" => stackPc[t] = "pushSwap",
             UNCHANGED <<head, nextFree, taken, link, freeSlots>>
      PROVE  SlotInv'
  <2>1. SlotTypeOK'
    BY <1>0, <1>2 DEF SlotTypeOK, LoadHead, StepTo, StackPlaces
  <2>2. EverySlotOnce'
    BY <1>2 DEF EverySlotOnce
  <2>3. CopiesOK'
    BY <1>0, <1>2 DEF CopiesOK, LoadHead, StepTo
  <2>. QED BY <2>1, <2>2, <2>3
<1>3. ASSUME NEW i \in SlotIds \union {NullIndex}, head = oldHead[t],
             head' = [version |-> head.version + 1, index |-> i],
             StepTo(t, "idle"), NEW S \in SUBSET SlotIds,
             taken' = [taken EXCEPT ![t] = S],
             UNCHANGED <<nextFree, link, oldHead>>
      PROVE  CopiesOK' /\ head' \in Heads /\ taken' \in [SlotUsers -> SUBSET SlotIds]
             /\ stackPc' \in [SlotUsers -> StackPlaces]
  <2>1. head' \in Heads /\ head'.version = head.version + 1 /\ head'.index = i
    BY <1>0, <1>3 DEF Heads
  <2>2. stackPc' \in [SlotUsers -> StackPlaces]
    BY <1>0, <1>3 DEF StepTo, StackPlaces
  <2>3. \A u \in SlotUsers : oldHead[u].version \in Nat
    BY <1>0 DEF Heads
  <2>4. CopiesOK'
    <3>. SUFFICES ASSUME NEW u \in SlotUsers
                  PROVE  /\ oldHead[u].version <= head'.version
                         /\ oldHead[u].version = head'.version /\ stackPc'[u] # "idle" => oldHead[u] = head'
                         /\ stackPc'[u] = "popSwap" =>
                              /\ oldHead[u].index # NullIndex
                              /\ oldHead[u] = head' => link[u] = nextFree[head'.index]
                         /\ stackPc'[u] \in {"pushLink", "pushSwap"} => link[u] \in taken'[u]
                         /\ stackPc'[u] = "pushSwap" => nextFree[link[u]] = oldHead[u].index
      BY <1>3 DEF CopiesOK
    <3>1. oldHead[u].version <= head.version
      BY DEF CopiesOK
    <3>2. oldHead[u].version < head'.version /\ oldHead[u] # head'
      BY <1>0, <2>1, <2>3, <3>1
    <3>3. CASE u = t
      BY <1>0, <1>3, <2>1, <2>3, <3>2, <3>3 DEF StepTo
    <3>4. CASE u # t
      <4>1. stackPc'[u] = stackPc[u] /\ taken'[u] = taken[u]
        BY <1>0, <1>3, <3>4 DEF StepTo
      <4>. QED BY <1>0, <2>1, <2>3, <3>2, <4>1 DEF CopiesOK
    <3>. QED BY <3>3, <3>4
  <2>. QED BY <1>0, <1>3, <2>1, <2>2, <2>4
<1>4. CASE PopExchange(t)
  <2>1. CASE head # oldHead[t]
    BY <1>0, <1>2, <1>4, <2>1 DEF PopExchange, Exchange, StepTo
  <2>2. CASE head = oldHead[t]
    <3>1. /\ stackPc[t] = "popSwap" /\ head' = [version |-> head.version + 1, index |-> link[t]]
          /\ StepTo(t, "idle") /\ taken' = [taken EXCEPT ![t] = @ \union {head.index}]
          /\ freeSlots' = Tail(freeSlots) /\ UNCHANGED <<nextFree, link, oldHead>>
      BY <1>0, <1>4, <2>2 DEF PopExchange, Exchange, StepTo
    <3>2. head.index \in SlotIds /\ freeSlots # <<>> /\ head.index = freeSlots[1] /\ link[t] = nextFree[head.index]
      BY <1>0, <2>2, <3>1 DEF CopiesOK, EverySlotOnce
    <3>3. CopiesOK' /\ head' \in Heads /\ taken' \in [SlotUsers -> SUBSET SlotIds]
          /\ stackPc' \in [SlotUsers -> StackPlaces]
      <4>1. taken[t] \union {head.index} \in SUBSET SlotIds /\ link[t] \in SlotIds \union {NullIndex}
        BY <1>0, <3>2
      <4>. QED BY <1>3, <2>2, <3>1, <4>1
    <3>4. /\ freeSlots' \in Seq(SlotIds) /\ Len(freeSlots') = Len(freeSlots) - 1 /\ Len(freeSlots) >= 1
          /\ DOMAIN freeSlots' = 1..Len(freeSlots) - 1
          /\ \A i \in 1..Len(freeSlots) - 1 : freeSlots'[i] = freeSlots[i + 1]
      BY <1>0, <3>1, <3>2
    <3>5. SlotTypeOK'
      BY <1>0, <3>1, <3>3, <3>4 DEF SlotTypeOK
    <3>6. EverySlotOnce'
      <4>1. head'.index = IF freeSlots' = <<>> THEN NullIndex ELSE freeSlots'[1]
        <5>1. head'.index = IF 1 < Len(freeSlots) THEN freeSlots[2] ELSE NullIndex
          <6>1. 1 \in DOMAIN freeSlots
            BY <1>0, <3>4
          <6>2. nextFree[freeSlots[1]] = IF 1 < Len(freeSlots) THEN freeSlots[1 + 1] ELSE NullIndex
            BY <6>1 DEF EverySlotOnce
          <6>. QED BY <3>1, <3>2, <6>2
        <5>2. freeSlots' = <<>> <=> Len(freeSlots) = 1
          BY <1>0, <3>4
        <5>. QED BY <1>0, <3>4, <5>1, <5>2
      <4>2. \A i \in DOMAIN freeSlots' :
              nextFree'[freeSlots'[i]] = IF i < Len(freeSlots') THEN freeSlots'[i + 1] ELSE NullIndex
        <5>. SUFFICES ASSUME NEW i \in 1..Len(freeSlots) - 1
                      PROVE  nextFree[freeSlots[i + 1]]
                               = IF i < Len(freeSlots) - 1 THEN freeSlots'[i + 1] ELSE NullIndex
          BY <3>1, <3>4
        <5>1. i + 1 \in DOMAIN freeSlots /\ (i < Len(freeSlots) - 1 <=> i + 1 < Len(freeSlots))
          BY <1>0
        <5>2. nextFree[freeSlots[i + 1]] = IF i + 1 < Len(freeSlots) THEN freeSlots[(i + 1) + 1] ELSE NullIndex
          BY <5>1 DEF EverySlotOnce
        <5>. QED BY <1>0, <3>4, <5>1, <5>2
      <4>3. \A i, j \in DOMAIN freeSlots' : freeSlots'[i] = freeSlots'[j] => i = j
        BY SMTT(20), <1>0, <3>4 DEF EverySlotOnce
      <4>4. ASSUME NEW s \in SlotIds
            PROVE  (\E i \in DOMAIN freeSlots' : freeSlots'[i] = s) <=> s # head.index /\ \E i \in DOMAIN freeSlots : freeSlots[i] = s
        <5>1. ASSUME NEW i \in DOMAIN freeSlots', freeSlots'[i] = s
              PROVE  s # head.index /\ \E j \in DOMAIN freeSlots : freeSlots[j] = s
          <6>1. i + 1 \in DOMAIN freeSlots /\ 1 \in DOMAIN freeSlots /\ i + 1 # 1 /\ freeSlots[i + 1] = s
            BY <1>0, <3>4, <5>1
          <6>. QED BY <3>2, <6>1 DEF EverySlotOnce
        <5>2. ASSUME NEW j \in DOMAIN freeSlots, freeSlots[j] = s, s # head.index
              PROVE  \E i \in DOMAIN freeSlots' : freeSlots'[i] = s
          <6>1. j # 1 /\ j - 1 \in DOMAIN freeSlots' /\ freeSlots'[j - 1] = freeSlots[j]
            BY <1>0, <3>2, <3>4, <5>2
          <6>. QED BY <5>2, <6>1
        <5>. QED BY <5>1, <5>2
      <4>5. ASSUME NEW s \in SlotIds
            PROVE  (\E u \in SlotUsers : s \in taken'[u]) <=> s = head.index \/ \E u \in SlotUsers : s \in taken[u]
        BY <1>0, <3>1
      <4>6. \A u \in SlotUsers : head.index \notin taken[u]
        <5>1. 1 \in DOMAIN freeSlots
          BY <1>0, <3>4
        <5>. QED BY <3>2, <5>1 DEF EverySlotOnce
      <4>7. \A u, v \in SlotUsers : taken'[u] \intersect taken'[v] # {} => u = v
        BY <1>0, <3>1, <4>6 DEF EverySlotOnce
      <4>8. \A s \in SlotIds : (\E i \in DOMAIN freeSlots' : freeSlots'[i] = s) <=> ~ \E u \in SlotUsers : s \in taken'[u]
        BY <4>4, <4>5, <4>6 DEF EverySlotOnce
      <4>. QED BY <4>1, <4>2, <4>3, <4>7, <4>8 DEF EverySlotOnce
    <3>. QED BY <3>3, <3>5, <3>6
  <2>. QED BY <2>1, <2>2
<1>5. CASE PushLink(t)
  <2>1. /\ stackPc[t] = "pushLink" /\ nextFree' = [nextFree EXCEPT ![link[t]] = oldHead[t].index]
        /\ StepTo(t, "pushSwap") /\ UNCHANGED <<head, taken, oldHead, link, freeSlots>>
    BY <1>5 DEF PushLink
  <2>2. link[t] \in taken[t] /\ link[t] \in SlotIds /\ oldHead[t].index \in SlotIds \union {NullIndex}
    BY <1>0, <2>1 DEF CopiesOK, Heads
  <2>3. \A i \in DOMAIN freeSlots : freeSlots[i] # link[t]
    BY <2>2 DEF EverySlotOnce
  <2>4. SlotTypeOK'
    BY <1>0, <2>1, <2>2 DEF SlotTypeOK, StepTo, StackPlaces
  <2>5. EverySlotOnce'
    <3>1. \A i \in DOMAIN freeSlots : nextFree'[freeSlots[i]] = nextFree[freeSlots[i]]
      BY <1>0, <2>1, <2>2, <2>3
    <3>. QED BY <2>1, <3>1 DEF EverySlotOnce
  <2>6. head.index # NullIndex => nextFree'[head.index] = nextFree[head.index]
    <3>1. head.index # NullIndex => 1 \in DOMAIN freeSlots /\ head.index = freeSlots[1]
      BY <1>0 DEF EverySlotOnce
    <3>. QED BY <1>0, <2>1, <2>2, <2>3, <3>1
  <2>7. \A u \in SlotUsers \ {t} : stackPc[u] \in {"pushLink", "pushSwap"} =>
           link[u] \in SlotIds /\ nextFree'[link[u]] = nextFree[link[u]]
    <3>1. \A u \in SlotUsers \ {t} : stackPc[u] \in {"pushLink", "pushSwap"} => link[u] \in taken[u] /\ link[u] # link[t]
      BY <2>2 DEF CopiesOK, EverySlotOnce
    <3>. QED BY <1>0, <2>1, <2>2, <3>1
  <2>8. CopiesOK'
    <3>. SUFFICES ASSUME NEW u \in SlotUsers
                  PROVE  /\ oldHead[u].version <= head.version
                         /\ oldHead[u].version = head.version /\ stackPc'[u] # "idle" => oldHead[u] = head
                         /\ stackPc'[u] = "popSwap" =>
                              /\ oldHead[u].index # NullIndex
                              /\ oldHead[u] = head => link[u] = nextFree'[head.index]
                         /\ stackPc'[u] \in {"pushLink", "pushSwap"} => link[u] \in taken[u]
                         /\ stackPc'[u] = "pushSwap" => nextFree'[link[u]] = oldHead[u].index
      BY <2>1 DEF CopiesOK
    <3>1. CASE u = t
      BY <1>0, <2>1, <2>2, <3>1 DEF CopiesOK, StepTo
    <3>2. CASE u # t
      <4>1. stackPc'[u] = stackPc[u]
        BY <1>0, <2>1, <3>2 DEF StepTo
      <4>. QED BY <2>6, <2>7, <3>2, <4>1 DEF CopiesOK
    <3>. QED BY <3>1, <3>2
  <2>. QED BY <2>4, <2>5, <2>8
<1>6. CASE PushExchange(t)
  <2>1. CASE head # oldHead[t]
    BY <1>0, <1>2, <1>6, <2>1 DEF PushExchange, Exchange, StepTo
  <2>2. CASE head = oldHead[t]
    <3>1. /\ stackPc[t] = "pushSwap" /\ head' = [version |-> head.version + 1, index |-> link[t]]
          /\ StepTo(t, "idle") /\ taken' = [taken EXCEPT ![t] = @ \ {link[t]}]
          /\ freeSlots' = <<link[t]>> \o freeSlots /\ UNCHANGED <<nextFree, link, oldHead>>
      BY <1>0, <1>6, <2>2 DEF PushExchange, Exchange, StepTo
    <3>2. link[t] \in taken[t] /\ link[t] \in SlotIds /\ nextFree[link[t]] = head.index
      BY <1>0, <2>2, <3>1 DEF CopiesOK
    <3>3. CopiesOK' /\ head' \in Heads /\ taken' \in [SlotUsers -> SUBSET SlotIds]
          /\ stackPc' \in [SlotUsers -> StackPlaces]
      <4>1. taken[t] \ {link[t]} \in SUBSET SlotIds /\ link[t] \in SlotIds \union {NullIndex}
        BY <1>0, <3>2
      <4>. QED BY <1>3, <2>2, <3>1, <4>1
    <3>4. /\ freeSlots' \in Seq(SlotIds) /\ Len(freeSlots') = Len(freeSlots) + 1 /\ freeSlots' # <<>>
          /\ DOMAIN freeSlots' = 1..Len(freeSlots) + 1
          /\ freeSlots'[1] = link[t]
          /\ \A i \in 1..Len(freeSlots) : freeSlots'[i + 1] = freeSlots[i]
          /\ \A i \in 2..Len(freeSlots) + 1 : freeSlots'[i] = freeSlots[i - 1] /\ i - 1 \in DOMAIN freeSlots
      BY <1>0, <3>1, <3>2
    <3>5. SlotTypeOK'
      BY <1>0, <3>1, <3>3, <3>4 DEF SlotTypeOK
    <3>6. EverySlotOnce'
      <4>1. head'.index = IF freeSlots' = <<>> THEN NullIndex ELSE freeSlots'[1]
        BY <3>1, <3>4
      <4>2. \A i \in DOMAIN freeSlots' :
              nextFree'[freeSlots'[i]] = IF i < Len(freeSlots') THEN freeSlots'[i + 1] ELSE NullIndex
        <5>. SUFFICES ASSUME NEW i \in 1..Len(freeSlots) + 1
                      PROVE  nextFree[freeSlots'[i]] = IF i < Len(freeSlots) + 1 THEN freeSlots'[i + 1] ELSE NullIndex
          BY <3>1, <3>4
        <5>1. CASE i = 1
          <6>1. nextFree[freeSlots'[i]] = IF freeSlots = <<>> THEN NullIndex ELSE freeSlots[1]
            BY <3>2, <3>4, <5>1 DEF EverySlotOnce
          <6>2. freeSlots = <<>> <=> ~(1 < Len(freeSlots) + 1)
            BY <1>0
          <6>. QED BY <1>0, <3>4, <5>1, <6>1, <6>2
        <5>2. CASE i # 1
          <6>1. i - 1 \in DOMAIN freeSlots /\ freeSlots'[i] = freeSlots[i - 1]
            BY <1>0, <3>4, <5>2
          <6>2. nextFree[freeSlots[i - 1]] = IF i - 1 < Len(freeSlots) THEN freeSlots[(i - 1) + 1] ELSE NullIndex
            BY <6>1 DEF EverySlotOnce
          <6>. QED BY SMTT(20), <1>0, <3>4, <5>2, <6>1, <6>2
        <5>. QED BY <5>1, <5>2
      <4>3. \A i \in DOMAIN freeSlots : freeSlots[i] # link[t]
        BY <3>2 DEF EverySlotOnce
      <4>4. ASSUME NEW i \in DOMAIN freeSlots', NEW j \in DOMAIN freeSlots', freeSlots'[i] = freeSlots'[j]
            PROVE  i = j
        <5>0. \A k \in DOMAIN freeSlots' :
                k = 1 \/ (k \in Int /\ k - 1 \in DOMAIN freeSlots /\ freeSlots'[k] = freeSlots[k - 1])
          BY <1>0, <3>4
        <5>1. CASE i = 1 \/ j = 1
          BY <3>4, <4>3, <4>4, <5>0, <5>1
        <5>2. CASE i # 1 /\ j # 1
          <6>1. i - 1 = j - 1
            BY <4>4, <5>0, <5>2 DEF EverySlotOnce
          <6>. QED BY <5>0, <5>2, <6>1
        <5>. QED BY <5>1, <5>2
      <4>5. ASSUME NEW s \in SlotIds
            PROVE  (\E i \in DOMAIN freeSlots' : freeSlots'[i] = s) <=> s = link[t] \/ \E i \in DOMAIN freeSlots : freeSlots[i] = s
        <5>1. ASSUME NEW i \in DOMAIN freeSlots', freeSlots'[i] = s
              PROVE  s = link[t] \/ \E j \in DOMAIN freeSlots : freeSlots[j] = s
          <6>1. i = 1 \/ (i - 1 \in DOMAIN freeSlots /\ freeSlots'[i] = freeSlots[i - 1])
            BY <1>0, <3>4
          <6>. QED BY <3>4, <5>1, <6>1
        <5>2. s = link[t] => \E i \in DOMAIN freeSlots' : freeSlots'[i] = s
          BY <1>0, <3>4
        <5>3. ASSUME NEW j \in DOMAIN freeSlots, freeSlots[j] = s
              PROVE  \E i \in DOMAIN freeSlots' : freeSlots'[i] = s
          <6>1. j + 1 \in DOMAIN freeSlots' /\ freeSlots'[j + 1] = freeSlots[j]
            BY <1>0, <3>4
          <6>. QED BY <5>3, <6>1
        <5>. QED BY <5>1, <5>2, <5>3
      <4>6. ASSUME NEW s \in SlotIds
            PROVE  (\E u \in SlotUsers : s \in taken'[u]) <=> s # link[t] /\ \E u \in SlotUsers : s \in taken[u]
        BY <1>0, <3>1, <3>2 DEF EverySlotOnce
      <4>7. \A u, v \in SlotUsers : taken'[u] \intersect taken'[v] # {} => u = v
        BY <1>0, <3>1 DEF EverySlotOnce
      <4>8. \A s \in SlotIds : (\E i \in DOMAIN freeSlots' : freeSlots'[i] = s) <=> ~ \E u \in SlotUsers : s \in taken'[u]
        BY <4>5, <4>6 DEF EverySlotOnce
      <4>. QED BY <4>1, <4>2, <4>4, <4>7, <4>8 DEF EverySlotOnce
    <3>. QED BY <3>3, <3>5, <3>6
  <2>. QED BY <2>1, <2>2
<1>. QED BY <1>1, <1>4, <1>5, <1>6

(* Every slot is on the free list once, or with one thread; and the links    *)
(* one follows from the head are the free list.                              *)
THEOREM EverySlotIsOnce == SlotSpec => []EverySlotOnce
<1>1. SlotInit => SlotInv
  <2>. SUFFICES ASSUME SlotInit PROVE SlotInv
    OBVIOUS
  <2>0. SlotCount \in Nat /\ SlotCount > 0
    BY SlotStackConstants
  <2>1. /\ freeSlots \in Seq(SlotIds) /\ Len(freeSlots) = SlotCount /\ DOMAIN freeSlots = 1..SlotCount
        /\ \A i \in 1..SlotCount : freeSlots[i] = i - 1 /\ freeSlots[i] \in SlotIds
    BY <2>0 DEF SlotInit, SlotIds
  <2>2. SlotTypeOK
    BY <2>0, <2>1 DEF SlotInit, SlotTypeOK, Heads, StackPlaces, SlotIds, NullIndex
  <2>3. CopiesOK
    <3>1. \A t \in SlotUsers : stackPc[t] = "idle" /\ oldHead[t].version = 0 /\ head.version = 0
      BY DEF SlotInit
    <3>2. \A t \in SlotUsers : oldHead[t].version <= head.version
      <4>1. ASSUME NEW t \in SlotUsers, NEW a, NEW b, a = 0, b = 0 PROVE a <= b
        BY <4>1
      <4>. QED BY <3>1, <4>1
    <3>3. \A t \in SlotUsers : stackPc[t] = "idle" /\ "idle" \notin {"popSwap", "pushLink", "pushSwap"}
      BY <3>1
    <3>. QED BY ONLY <3>2, <3>3 DEF CopiesOK
  <2>4. EverySlotOnce
    <3>1. head.index = IF freeSlots = <<>> THEN NullIndex ELSE freeSlots[1]
      <4>1. freeSlots # <<>> /\ freeSlots[1] = 0
        BY <2>0, <2>1
      <4>. QED BY <4>1 DEF SlotInit
    <3>2. \A i \in 1..SlotCount : nextFree[freeSlots[i]] = IF i < SlotCount THEN freeSlots[i + 1] ELSE NullIndex
      BY <2>0, <2>1 DEF SlotInit, SlotIds, NullIndex
    <3>3. \A s \in SlotIds : s + 1 \in 1..SlotCount /\ freeSlots[s + 1] = s
      BY <2>0, <2>1 DEF SlotIds
    <3>4. \A t \in SlotUsers : taken[t] = {}
      BY DEF SlotInit
    <3>. QED BY <2>0, <2>1, <3>1, <3>2, <3>3, <3>4 DEF EverySlotOnce
  <2>. QED BY <2>2, <2>3, <2>4 DEF SlotInv
<1>2. SlotInv /\ [SlotNext]_slotVars => SlotInv'
  <2>1. SlotInv /\ UNCHANGED slotVars => SlotInv'
    BY DEF slotVars, SlotInv, SlotTypeOK, CopiesOK, EverySlotOnce
  <2>. QED BY <2>1, SlotStep DEF SlotNext
<1>3. SlotInv => EverySlotOnce
  BY DEF SlotInv
<1>. QED BY <1>1, <1>2, <1>3, PTL DEF SlotSpec

-----------------------------------------------------------------------------
(* LockFreeQueue: the cells.  A thread owns a position from the moment it    *)
(* claims it until the store that hands it over is in memory, which may be   *)
(* long after the thread has gone on.  What the cells have to do with is     *)
(* kept in one record, so that a store can be looked at as two moves: into   *)
(* the buffer, and from there to memory.                                     *)
QueueView == [kind |-> class[1], team |-> team, mem |-> memory, buf |-> storeBuffer, at |-> place, pos |-> position]

QueuePlaces == {"idle", "enter", "load", "reload", "again", "slot", "claim", "construct", "take", "raise", "publish",
                "notify", "wake", "failed", "closed", "closedSize", "lock", "locked", "lockedSize", "count",
                "predicate", "predicateSize", "asleep", "woken", "uncount", "ended"}
QueueKind == {"MPMC", "MPSC", "SPMC", "SPSC"}

SameSide(t, u) == t \in Producers <=> u \in Producers
Alone(s, t) == s.kind = "SPSC" \/ s.kind = IF t \in Producers THEN "SPMC" ELSE "MPSC"
Edge(t) == IF t \in Producers THEN Enqueue ELSE Dequeue

ViewTypes(s) ==
    /\ s.kind \in QueueKind
    /\ s.mem \in [Locations -> Int]
    /\ s.buf \in [QueueThreads -> Seq(Locations \X Int)]
    /\ s.at \in [QueueThreads -> QueuePlaces]
    /\ s.pos \in [QueueThreads -> Int]
    /\ \A t, u \in s.team : SameSide(t, u) /\ Alone(s, t) => t = u
    /\ \A t \in QueueThreads \ s.team : s.at[t] = "idle" /\ s.buf[t] = <<>>

(* What a thread reads at a location.                                        *)
Waits(s, t, l) == {i \in DOMAIN s.buf[t] : s.buf[t][i][1] = l}
Seen(s, t, l) == IF Waits(s, t, l) = {} THEN s.mem[l] ELSE s.buf[t][Max(Waits(s, t, l))][2]

(* The sequence number that lets a side take a position and the one it puts  *)
(* there, the item it finds and the one it leaves, and its three stores.     *)
Expected(t, q) == IF t \in Producers THEN q ELSE q + 1
Following(t, q) == IF t \in Producers THEN q + 1 ELSE q + Capacity
Before(t, q) == IF t \in Producers THEN NoItem ELSE q
After(t, q) == IF t \in Producers THEN q ELSE NoItem

DataStore(t, q) == <<Data(q), After(t, q)>>
FrontStore(t, q) == <<Edge(t), q + 1>>
Hand(s, t, q) == IF s.kind = "SPSC" THEN FrontStore(t, q) ELSE <<Sequence(q), Following(t, q)>>

(* The position is for t's side to take.                                     *)
Avail(s, t, q) ==
    IF s.kind = "SPSC"
    THEN IF t \in Producers THEN s.mem[Enqueue] <= q /\ q < s.mem[Dequeue] + Capacity
                            ELSE s.mem[Dequeue] <= q /\ q < s.mem[Enqueue]
    ELSE s.mem[Sequence(q)] = Expected(t, q)

CellPlaces == {"construct", "take", "raise", "publish"}
OwnsNow(s, t, q) == s.at[t] \in CellPlaces /\ s.pos[t] = q
OwnsStill(s, t, q) == \E i \in DOMAIN s.buf[t] : s.buf[t][i] = Hand(s, t, q)
Owns(s, t, q) == OwnsNow(s, t, q) \/ OwnsStill(s, t, q)

(* The item has been written, or taken away.                                 *)
Done(s, t) == s.at[t] = "publish" \/ (s.at[t] = "raise" /\ (s.kind = "MPSC" => t \in Producers))
Touched(s, t, q) == OwnsStill(s, t, q) \/ (OwnsNow(s, t, q) /\ Done(s, t))

OwnedOnce(s) ==
    \A t \in QueueThreads, q \in Int : Owns(s, t, q) =>
        /\ Avail(s, t, q)
        /\ \A u \in QueueThreads : SameSide(t, u) /\ Owns(s, u, q) => t = u
        /\ OwnsNow(s, t, q) => ~OwnsStill(s, t, q)
        /\ \A i, j \in DOMAIN s.buf[t] : s.buf[t][i] = Hand(s, t, q) /\ s.buf[t][j] = Hand(s, t, q) => i = j

(* Only these stores wait, an item before the store that hands it over.      *)
BuffersOK(s) ==
    \A t \in QueueThreads : \A i \in DOMAIN s.buf[t] : \E q \in Int :
        \/ s.buf[t][i] = Hand(s, t, q)
        \/ Alone(s, t) /\ s.buf[t][i] = FrontStore(t, q)
        \/ /\ s.buf[t][i] = DataStore(t, q)
           /\ \/ OwnsNow(s, t, q) /\ Done(s, t)
              \/ \E j \in DOMAIN s.buf[t] : i < j /\ s.buf[t][j] = Hand(s, t, q)

(* Where several threads take positions, by compare and swap.                *)
ClaimsOK(s) ==
    \A t \in QueueThreads : ~Alone(s, t) =>
        /\ 0 <= s.mem[Edge(t)] /\ s.pos[t] <= s.mem[Edge(t)]
        /\ \A q \in Int : Owns(s, t, q) => q < s.mem[Edge(t)]
        /\ s.at[t] = "claim" /\ s.pos[t] = s.mem[Edge(t)] =>
             s.mem[Sequence(s.pos[t])] = Expected(t, s.pos[t])

(* Where one thread does, by a store.                                        *)
Choosing(s, t) == s.at[t] \in {"slot", "construct", "raise"} \/ (s.at[t] = "take" /\ s.kind = "SPSC")

FrontsOK(s) ==
    /\ \A t \in QueueThreads : Alone(s, t) =>
         /\ Choosing(s, t) => s.pos[t] = Seen(s, t, Edge(t))
         /\ \A i \in Waits(s, t, Edge(t)) :
              /\ s.mem[Edge(t)] < s.buf[t][i][2]
              /\ \A j \in Waits(s, t, Edge(t)) : i < j => s.buf[t][i][2] < s.buf[t][j][2]
         /\ s.kind = "SPSC" =>
              \A q \in Int : s.mem[Edge(t)] <= q /\ q < Seen(s, t, Edge(t)) => OwnsStill(s, t, q)
    /\ s.kind = "SPSC" => s.mem[Dequeue] <= s.mem[Enqueue] /\ s.mem[Enqueue] <= s.mem[Dequeue] + Capacity

(* A position that a side may take has what the side expects, until one of   *)
(* its threads has changed that.                                             *)
ItemsWhole(s) ==
    \A t \in QueueThreads, q \in Int :
        /\ Avail(s, t, q) => \/ s.mem[Data(q)] = Before(t, q)
                             \/ \E u \in QueueThreads : SameSide(t, u) /\ Touched(s, u, q)
        /\ Touched(s, t, q) => Seen(s, t, Data(q)) = After(t, q)

CellsOK(s) == ViewTypes(s) /\ OwnedOnce(s) /\ BuffersOK(s) /\ ClaimsOK(s) /\ FrontsOK(s) /\ ItemsWhole(s)

(* A Pop() that returns false because the queue is closed.                   *)
EndPlaces == {"closed", "closedSize", "lockedSize", "ended"}

EndsAt(c) ==
    /\ place[c] \in EndPlaces => closed
    /\ place[c] \in {"closedSize", "lockedSize"} => seenEnqueue[c] >= enqueuedAtClose
    /\ place[c] = "ended" => Load(c, Dequeue) >= enqueuedAtClose

EndsOK ==
    /\ closed => enqueuedAtClose <= memory[Enqueue]
    /\ \A c \in Consumers : EndsAt(c)

RestOK ==
    /\ class \in QueueKind \X {"plain", "buffered"}
    /\ closed \in BOOLEAN /\ enqueuedAtClose \in Int
    /\ closing \in Seq({"notEmpty", "notFull"})
    /\ waiting \in [{"notEmpty", "notFull"} -> Int]
    /\ mutex \in [{"notEmpty", "notFull"} -> QueueThreads \union {Nobody}]
    /\ seenEnqueue \in [QueueThreads -> Int]
    /\ patient \subseteq QueueThreads
    /\ pushes \in Int

QueueTypeOK ==
    /\ RestOK
    /\ ViewTypes(QueueView)
    /\ class[2] = "plain" => \A t \in QueueThreads : storeBuffer[t] = <<>>

QueueInv == QueueTypeOK /\ CellsOK(QueueView) /\ EndsOK
LEMMA Ranks ==
  ASSUME NEW K, IsFiniteSet(K), K \subseteq Nat,
         NEW f, f = [i \in K |-> Cardinality({j \in K : j <= i})]
  PROVE  f \in Bijection(K, 1..Cardinality(K)) /\ Cardinality(K) \in Nat
<1>1. Cardinality(K) \in Nat
  BY FS_CardinalityType
<1>2. ASSUME NEW i \in K
      PROVE  /\ IsFiniteSet({j \in K : j <= i}) /\ f[i] \in 1..Cardinality(K)
  <2> DEFINE B == {j \in K : j <= i}
  <2>1. B \subseteq K /\ i \in B
    OBVIOUS
  <2>2. IsFiniteSet(B) /\ Cardinality(B) <= Cardinality(K)
    BY ONLY <2>1, IsFiniteSet(K), FS_Subset
  <2>3. Cardinality(B) \in Nat /\ Cardinality(B) # 0
    BY ONLY <2>1, <2>2, FS_CardinalityType, FS_EmptySet
  <2>4. f[i] = Cardinality(B)
    OBVIOUS
  <2>5. IsFiniteSet({j \in K : j <= i})
    BY <2>2
  <2>. HIDE DEF B
  <2>. QED BY <1>1, <2>2, <2>3, <2>4, <2>5
<1>3. ASSUME NEW i \in K, NEW k \in K, i < k PROVE f[i] < f[k]
  <2> DEFINE B == {j \in K : j <= i}
             C == {j \in K : j <= k}
  <2>0. i \in Nat /\ k \in Nat /\ \A j \in K : j \in Nat
    OBVIOUS
  <2>1. B \subseteq C /\ k \in C /\ k \notin B
    <3>1. k <= k /\ ~(k <= i) /\ \A j \in K : j <= i => j <= k
      BY <1>3, <2>0
    <3>. QED BY <3>1
  <2>2. IsFiniteSet(B) /\ IsFiniteSet(C)
    BY <1>2
  <2>3. f[i] = Cardinality(B) /\ f[k] = Cardinality(C)
    OBVIOUS
  <2>. HIDE DEF B, C
  <2>4. Cardinality(B) <= Cardinality(C) /\ (Cardinality(B) = Cardinality(C) => B = C)
    BY ONLY <2>1, <2>2, FS_Subset
  <2>5. Cardinality(B) \in Nat /\ Cardinality(C) \in Nat
    BY ONLY <2>2, FS_CardinalityType
  <2>. QED BY <2>1, <2>3, <2>4, <2>5
<1>4. f \in Injection(K, 1..Cardinality(K))
  <2>1. f \in [K -> 1..Cardinality(K)]
    BY <1>2
  <2>2. ASSUME NEW i \in K, NEW k \in K, f[i] = f[k] PROVE i = k
    <3>1. i \in Nat /\ k \in Nat /\ f[i] \in Nat /\ f[k] \in Nat
      BY <1>1, <1>2
    <3>2. ~(i < k) /\ ~(k < i)
      BY <1>3, <2>2, <3>1
    <3>. QED BY <3>1, <3>2
  <2>. QED BY <2>1, <2>2 DEF Injection, IsInjective
<1>5. IsFiniteSet(1..Cardinality(K)) /\ Cardinality(1..Cardinality(K)) = Cardinality(K)
  BY <1>1, FS_Interval
<1>6. f \in Surjection(K, 1..Cardinality(K))
  BY ONLY <1>4, <1>5, FS_Injection
<1>. QED BY <1>1, <1>4, <1>6 DEF Bijection

LEMMA LastOf ==
  ASSUME NEW K, IsFiniteSet(K), K \subseteq Nat, K # {}
  PROVE  \E k \in K : \A j \in K : j <= k
<1> DEFINE f == [i \in K |-> Cardinality({j \in K : j <= i})]
<1>1. f \in Bijection(K, 1..Cardinality(K)) /\ Cardinality(K) \in Nat
  BY Ranks
<1>2. Cardinality(K) \in 1..Cardinality(K)
  BY <1>1, FS_EmptySet
<1>3. PICK k \in K : f[k] = Cardinality(K)
  <2>. HIDE DEF f
  <2>. QED BY <1>1, <1>2 DEF Bijection, Surjection
<1> DEFINE B == {j \in K : j <= k}
<1>4. B \subseteq K /\ Cardinality(B) = Cardinality(K)
  BY <1>3
<1>5. B = K
  <2>. HIDE DEF B
  <2>. QED BY <1>4, FS_Subset
<1>. QED BY <1>5

-----------------------------------------------------------------------------
(* Numbers that fall on the same cell are a whole turn of the ring apart.    *)
LEMMA SameCell ==
  ASSUME NEW q \in Int, NEW k \in Int, q % Capacity = k % Capacity
  PROVE  /\ q <= k => q = k \/ q + Capacity <= k
         /\ (q + Capacity) % Capacity = q % Capacity
         /\ q % Capacity \in Cells
<1>1. Capacity \in Nat /\ Capacity >= 2
  BY QueueConstants
<1> DEFINE a == q \div Capacity
           b == k \div Capacity
<1>2. /\ a \in Int /\ b \in Int /\ q = Capacity * a + (q % Capacity) /\ k = Capacity * b + (k % Capacity)
      /\ q % Capacity \in 0 .. Capacity - 1
  BY <1>1
<1>3. (q + Capacity) % Capacity = q % Capacity
  <2> DEFINE r == q % Capacity
             c == (q + Capacity) \div Capacity
             m == (q + Capacity) % Capacity
  <2>1. c \in Int /\ m \in 0 .. Capacity - 1 /\ q + Capacity = Capacity * c + m
    <3>1. q + Capacity \in Int
      BY <1>1
    <3>. QED BY <1>1, <3>1
  <2>2. r \in 0 .. Capacity - 1 /\ q = Capacity * a + r /\ a \in Int
    BY <1>2
  <2>. HIDE DEF r, c, m, a
  <2>3. Capacity * (c - a - 1) = r - m
    BY <1>1, <2>1, <2>2
  <2>4. ~(c - a - 1 >= 1)
    <3>1. c - a - 1 >= 1 => Capacity * (c - a - 1) >= Capacity
      BY <1>1, <2>1, <2>2
    <3>. QED BY <1>1, <2>1, <2>2, <2>3, <3>1
  <2>5. ~(c - a - 1 <= -1)
    <3>1. c - a - 1 <= -1 => Capacity * (c - a - 1) <= -Capacity
      BY <1>1, <2>1, <2>2
    <3>. QED BY <1>1, <2>1, <2>2, <2>3, <3>1
  <2>6. c - a - 1 = 0
    BY <2>1, <2>2, <2>4, <2>5
  <2>7. r = m
    BY <1>1, <2>1, <2>2, <2>3, <2>6
  <2>. QED BY <2>7 DEF r, m
<1>4. k - q = Capacity * (b - a)
  BY <1>1, <1>2
<1>5. CASE b - a >= 1
  <2>1. Capacity * (b - a) >= Capacity
    BY <1>1, <1>2, <1>5
  <2>. QED BY <1>1, <1>2, <1>3, <1>4, <2>1 DEF Cells
<1>6. CASE b - a = 0
  BY <1>1, <1>2, <1>3, <1>4, <1>6 DEF Cells
<1>7. CASE b - a <= -1
  <2>1. Capacity * (b - a) <= -Capacity
    BY <1>1, <1>2, <1>7
  <2>2. q > k
    BY <1>1, <1>4, <2>1
  <2>. QED BY <1>1, <1>2, <1>3, <2>2 DEF Cells
<1>. QED BY <1>2, <1>5, <1>6, <1>7

(* The locations of memory, apart from each other.                           *)
LEMMA LocationsApart ==
  /\ Enqueue \in Locations /\ Dequeue \in Locations /\ Enqueue # Dequeue
  /\ \A q \in Int : /\ Sequence(q) \in Locations /\ Data(q) \in Locations
                    /\ Sequence(q) \notin {Enqueue, Dequeue} /\ Data(q) \notin {Enqueue, Dequeue}
  /\ \A q, k \in Int : /\ Sequence(q) # Data(k)
                       /\ Sequence(q) = Sequence(k) <=> q % Capacity = k % Capacity
                       /\ Data(q) = Data(k) <=> q % Capacity = k % Capacity
<1>1. ASSUME NEW q \in Int
      PROVE  /\ Sequence(q) \in Locations /\ Data(q) \in Locations
             /\ Sequence(q) \notin {Enqueue, Dequeue} /\ Data(q) \notin {Enqueue, Dequeue}
  <2>1. q % Capacity \in Cells
    BY SameCell
  <2>. QED BY <2>1 DEF Sequence, Data, Enqueue, Dequeue, Locations
<1>2. ASSUME NEW q \in Int, NEW k \in Int
      PROVE  /\ Sequence(q) # Data(k)
             /\ Sequence(q) = Sequence(k) <=> q % Capacity = k % Capacity
             /\ Data(q) = Data(k) <=> q % Capacity = k % Capacity
  BY DEF Sequence, Data
<1>. QED BY <1>1, <1>2 DEF Enqueue, Dequeue, Locations

(* The last of the stores that wait.                                         *)
LEMMA LastWaits ==
  ASSUME NEW n \in Nat, NEW S, S \subseteq 1 .. n, S # {}
  PROVE  Max(S) \in S /\ \A j \in S : j <= Max(S)
<1>1. IsFiniteSet(S) /\ S \subseteq Nat
  <2>1. IsFiniteSet(1 .. n)
    BY FS_Interval
  <2>2. S \subseteq Nat
    OBVIOUS
  <2>. QED BY <2>1, <2>2, FS_Subset
<1>2. \E k \in S : \A j \in S : j <= k
  BY <1>1, LastOf
<1>3. \E k \in S : \A j \in S : k >= j
  BY <1>1, <1>2
<1>4. Max(S) \in S /\ \A j \in S : Max(S) >= j
  BY <1>3 DEF Max
<1>. QED BY <1>1, <1>4

LEMMA LastIs ==
  ASSUME NEW S, S \subseteq Nat, NEW m \in S, \A j \in S : j <= m
  PROVE  Max(S) = m
<1>1. \A j \in S : m >= j
  OBVIOUS
<1>2. Max(S) \in S /\ \A y \in S : Max(S) >= y
  BY <1>1 DEF Max
<1>3. Max(S) >= m /\ m >= Max(S) /\ Max(S) \in Nat /\ m \in Nat
  BY <1>1, <1>2
<1>. QED BY <1>3

(* What is seen of a location.                                               *)
LEMMA SeenIs ==
  ASSUME NEW s, ViewTypes(s), NEW t \in QueueThreads, NEW l
  PROVE  /\ Waits(s, t, l) \subseteq 1 .. Len(s.buf[t]) /\ Len(s.buf[t]) \in Nat
         /\ DOMAIN s.buf[t] = 1 .. Len(s.buf[t])
         /\ Waits(s, t, l) = {} => Seen(s, t, l) = s.mem[l]
         /\ Waits(s, t, l) # {} =>
              \E m \in Waits(s, t, l) : (\A j \in Waits(s, t, l) : j <= m) /\ Seen(s, t, l) = s.buf[t][m][2]
         /\ \A m \in Waits(s, t, l) : (\A j \in Waits(s, t, l) : j <= m) => Seen(s, t, l) = s.buf[t][m][2]
         /\ l \in Locations => Seen(s, t, l) \in Int
<1>1. s.buf[t] \in Seq(Locations \X Int) /\ Len(s.buf[t]) \in Nat /\ DOMAIN s.buf[t] = 1 .. Len(s.buf[t])
  BY DEF ViewTypes
<1>2. Waits(s, t, l) \subseteq 1 .. Len(s.buf[t])
  BY <1>1 DEF Waits
<1>3. Waits(s, t, l) # {} => /\ Max(Waits(s, t, l)) \in Waits(s, t, l)
                             /\ \A j \in Waits(s, t, l) : j <= Max(Waits(s, t, l))
  BY <1>1, <1>2, LastWaits
<1>4. ASSUME NEW m \in Waits(s, t, l), \A j \in Waits(s, t, l) : j <= m
      PROVE  Seen(s, t, l) = s.buf[t][m][2]
  <2>1. Waits(s, t, l) \subseteq Nat
    BY <1>2
  <2>2. Max(Waits(s, t, l)) = m
    BY <1>4, <2>1, LastIs
  <2>. QED BY <2>2 DEF Seen
<1>5. ASSUME NEW i \in Waits(s, t, l) PROVE s.buf[t][i][2] \in Int
  <2>1. s.buf[t][i] \in Locations \X Int
    BY <1>1, <1>2
  <2>. QED BY <2>1
<1>6. l \in Locations => s.mem[l] \in Int
  BY DEF ViewTypes
<1>7. Waits(s, t, l) = {} => Seen(s, t, l) = s.mem[l]
  BY DEF Seen
<1>8. Waits(s, t, l) # {} => Seen(s, t, l) = s.buf[t][Max(Waits(s, t, l))][2]
  BY DEF Seen
<1>. QED BY <1>1, <1>2, <1>3, <1>4, <1>5, <1>6, <1>7, <1>8

(* A store that goes into the buffer.                                        *)
Appended(s, r, t, e) ==
    /\ r.mem = s.mem
    /\ r.buf = [s.buf EXCEPT ![t] = Append(@, e)]

LEMMA AppendSeen ==
  ASSUME NEW s, NEW r, ViewTypes(s), ViewTypes(r), NEW t \in QueueThreads, NEW l \in Locations, NEW v \in Int,
         Appended(s, r, t, <<l, v>>)
  PROVE  /\ Len(r.buf[t]) = Len(s.buf[t]) + 1 /\ r.buf[t][Len(s.buf[t]) + 1] = <<l, v>>
         /\ \A i \in DOMAIN s.buf[t] : i \in DOMAIN r.buf[t] /\ r.buf[t][i] = s.buf[t][i]
         /\ \A u \in QueueThreads \ {t} : r.buf[u] = s.buf[u]
         /\ Seen(r, t, l) = v
         /\ \A k : k # l => Seen(r, t, k) = Seen(s, t, k) /\ Waits(r, t, k) = Waits(s, t, k)
         /\ Waits(r, t, l) = Waits(s, t, l) \union {Len(s.buf[t]) + 1}
         /\ \A u \in QueueThreads \ {t} : \A k : Seen(r, u, k) = Seen(s, u, k) /\ Waits(r, u, k) = Waits(s, u, k)
<1> DEFINE n == Len(s.buf[t])
<1>1. /\ s.buf \in [QueueThreads -> Seq(Locations \X Int)] /\ s.buf[t] \in Seq(Locations \X Int)
      /\ n \in Nat /\ DOMAIN s.buf[t] = 1 .. n
  BY DEF ViewTypes
<1>2. r.buf[t] = Append(s.buf[t], <<l, v>>) /\ \A u \in QueueThreads \ {t} : r.buf[u] = s.buf[u]
  BY <1>1 DEF Appended
<1>3. /\ Len(r.buf[t]) = n + 1 /\ r.buf[t][n + 1] = <<l, v>> /\ DOMAIN r.buf[t] = 1 .. n + 1
      /\ \A i \in 1 .. n : r.buf[t][i] = s.buf[t][i]
  BY <1>1, <1>2
<1>. HIDE DEF n
<1>4. ASSUME NEW k PROVE Waits(r, t, k) = Waits(s, t, k) \union (IF k = l THEN {n + 1} ELSE {})
  <2>1. \A i \in 1 .. n + 1 : i \in 1 .. n \/ i = n + 1
    BY <1>1
  <2>2. 1 .. n \subseteq 1 .. n + 1 /\ n + 1 \in 1 .. n + 1
    BY <1>1
  <2>3. <<l, v>>[1] = l
    OBVIOUS
  <2>. QED BY <1>1, <1>3, <2>1, <2>2, <2>3 DEF Waits
<1>5. ASSUME NEW k, k # l PROVE Seen(r, t, k) = Seen(s, t, k) /\ Waits(r, t, k) = Waits(s, t, k)
  <2>1. Waits(r, t, k) = Waits(s, t, k)
    BY <1>4, <1>5
  <2>2. CASE Waits(s, t, k) = {}
    BY <2>1, <2>2 DEF Seen, Appended
  <2>3. CASE Waits(s, t, k) # {}
    <3>1. PICK m \in Waits(s, t, k) : (\A j \in Waits(s, t, k) : j <= m) /\ Seen(s, t, k) = s.buf[t][m][2]
      BY <2>3, SeenIs
    <3>2. Seen(r, t, k) = r.buf[t][m][2]
      BY <2>1, <3>1, SeenIs
    <3>3. m \in 1 .. n
      BY <1>1, SeenIs DEF n
    <3>. QED BY <1>3, <2>1, <3>1, <3>2, <3>3
  <2>. QED BY <2>1, <2>2, <2>3
<1>6. Seen(r, t, l) = v
  <2>1. n + 1 \in Waits(r, t, l)
    BY <1>4
  <2>2. \A j \in Waits(r, t, l) : j <= n + 1
    <3>1. Waits(r, t, l) \subseteq 1 .. Len(r.buf[t])
      BY SeenIs
    <3>. QED BY <1>1, <1>3, <3>1
  <2>3. Seen(r, t, l) = r.buf[t][n + 1][2]
    BY <2>1, <2>2, SeenIs
  <2>. QED BY <1>3, <2>3
<1>7. ASSUME NEW u \in QueueThreads \ {t}, NEW k PROVE Seen(r, u, k) = Seen(s, u, k) /\ Waits(r, u, k) = Waits(s, u, k)
  BY <1>2 DEF Seen, Waits, Appended
<1>8. \A i \in 1 .. n : i \in DOMAIN r.buf[t]
  BY <1>1, <1>3
<1>9. Waits(r, t, l) = Waits(s, t, l) \union {n + 1}
  BY <1>4
<1>. QED BY <1>1, <1>2, <1>3, <1>5, <1>6, <1>7, <1>8, <1>9 DEF n

(* The oldest store that waits comes to memory.                              *)
Flushed(s, r, t) ==
    /\ s.buf[t] # <<>>
    /\ r.mem = [s.mem EXCEPT ![Head(s.buf[t])[1]] = Head(s.buf[t])[2]]
    /\ r.buf = [s.buf EXCEPT ![t] = Tail(@)]

LEMMA FlushSeen ==
  ASSUME NEW s, NEW r, ViewTypes(s), ViewTypes(r), NEW t \in QueueThreads, Flushed(s, r, t)
  PROVE  /\ Len(s.buf[t]) >= 1 /\ Len(r.buf[t]) = Len(s.buf[t]) - 1
         /\ \A i \in DOMAIN r.buf[t] : i + 1 \in DOMAIN s.buf[t] /\ r.buf[t][i] = s.buf[t][i + 1]
         /\ \A u \in QueueThreads \ {t} : r.buf[u] = s.buf[u]
         /\ s.buf[t][1][1] \in Locations /\ s.buf[t][1][2] \in Int
         /\ r.mem[s.buf[t][1][1]] = s.buf[t][1][2]
         /\ \A k \in Locations : k # s.buf[t][1][1] => r.mem[k] = s.mem[k]
         /\ \A k \in Locations : Seen(r, t, k) = Seen(s, t, k)
         /\ \A k, i : i \in Waits(r, t, k) <=> i \in 1 .. Len(s.buf[t]) - 1 /\ i + 1 \in Waits(s, t, k)
         /\ \A u \in QueueThreads \ {t} : \A k : Waits(r, u, k) = Waits(s, u, k)
         /\ \A u \in QueueThreads \ {t}, k \in Locations : k # s.buf[t][1][1] => Seen(r, u, k) = Seen(s, u, k)
<1> DEFINE n == Len(s.buf[t])
           h == s.buf[t][1]
<1>1. /\ s.buf \in [QueueThreads -> Seq(Locations \X Int)] /\ s.buf[t] \in Seq(Locations \X Int)
      /\ n \in Nat /\ DOMAIN s.buf[t] = 1 .. n /\ s.mem \in [Locations -> Int]
  BY DEF ViewTypes
<1>2. n >= 1 /\ h = Head(s.buf[t]) /\ h[1] \in Locations /\ h[2] \in Int
  BY <1>1 DEF Flushed
<1>3. r.buf[t] = Tail(s.buf[t]) /\ \A u \in QueueThreads \ {t} : r.buf[u] = s.buf[u]
  BY <1>1 DEF Flushed
<1>4. /\ Len(r.buf[t]) = n - 1 /\ DOMAIN r.buf[t] = 1 .. n - 1
      /\ \A i \in 1 .. n - 1 : r.buf[t][i] = s.buf[t][i + 1]
  <2>1. s.buf[t] # <<>>
    BY DEF Flushed
  <2>. QED BY <1>1, <1>2, <1>3, <2>1
<1>5. r.mem[h[1]] = h[2] /\ \A k \in Locations : k # h[1] => r.mem[k] = s.mem[k]
  BY <1>1, <1>2 DEF Flushed
<1>. HIDE DEF n, h
<1>6. ASSUME NEW k, NEW i PROVE i \in Waits(r, t, k) <=> i \in 1 .. n - 1 /\ i + 1 \in Waits(s, t, k)
  <2>1. i \in 1 .. n - 1 => i + 1 \in 1 .. n
    BY <1>1
  <2>. QED BY <1>1, <1>4, <2>1 DEF Waits
<1>7. ASSUME NEW k \in Locations PROVE Seen(r, t, k) = Seen(s, t, k)
  <2>0. Waits(s, t, k) \subseteq 1 .. n
    BY SeenIs DEF n
  <2>1. CASE Waits(r, t, k) # {}
    <3>1. PICK m \in Waits(r, t, k) : (\A j \in Waits(r, t, k) : j <= m) /\ Seen(r, t, k) = r.buf[t][m][2]
      BY <2>1, SeenIs
    <3>2. m \in 1 .. n - 1 /\ m + 1 \in Waits(s, t, k)
      BY <1>6
    <3>3. ASSUME NEW j \in Waits(s, t, k) PROVE j <= m + 1
      <4>1. CASE j = 1
        BY <1>1, <3>2, <4>1
      <4>2. CASE j # 1
        <5>1. j - 1 \in 1 .. n - 1 /\ (j - 1) + 1 = j
          BY <1>1, <2>0, <4>2
        <5>2. j - 1 \in Waits(r, t, k)
          BY <1>6, <5>1
        <5>. QED BY <1>1, <3>1, <3>2, <5>1, <5>2
      <4>. QED BY <4>1, <4>2
    <3>4. Seen(s, t, k) = s.buf[t][m + 1][2]
      BY <3>2, <3>3, SeenIs
    <3>. QED BY <1>4, <3>1, <3>2, <3>4
  <2>2. CASE Waits(r, t, k) = {} /\ Waits(s, t, k) = {}
    <3>1. k # h[1]
      <4>1. 1 \in DOMAIN s.buf[t]
        BY <1>1, <1>2
      <4>. QED BY <2>2, <4>1 DEF Waits, h
    <3>. QED BY <1>5, <2>2, <3>1, SeenIs
  <2>3. CASE Waits(r, t, k) = {} /\ Waits(s, t, k) # {}
    <3>1. ASSUME NEW j \in Waits(s, t, k) PROVE j = 1
      <4>1. j # 1 => j - 1 \in 1 .. n - 1 /\ (j - 1) + 1 = j
        BY <1>1, <2>0
      <4>. QED BY <1>6, <2>3, <4>1
    <3>2. 1 \in Waits(s, t, k)
      BY <2>3, <3>1
    <3>3. Seen(s, t, k) = s.buf[t][1][2]
      <4>1. \A j \in Waits(s, t, k) : j <= 1
        BY <3>1
      <4>. QED BY <3>2, <4>1, SeenIs
    <3>4. h[1] = k
      BY <3>2 DEF Waits, h
    <3>. QED BY <1>5, <2>3, <3>3, <3>4, SeenIs DEF h
  <2>. QED BY <2>1, <2>2, <2>3
<1>8. ASSUME NEW u \in QueueThreads \ {t}, NEW k PROVE Waits(r, u, k) = Waits(s, u, k)
  BY <1>3 DEF Waits
<1>9. ASSUME NEW u \in QueueThreads \ {t}, NEW k \in Locations, k # h[1] PROVE Seen(r, u, k) = Seen(s, u, k)
  BY <1>3, <1>5, <1>8, <1>9 DEF Seen
<1>10. \A i \in 1 .. n - 1 : i + 1 \in 1 .. n
  BY <1>1
<1>. QED BY <1>1, <1>2, <1>3, <1>4, <1>5, <1>6, <1>7, <1>8, <1>9, <1>10 DEF n, h

(* Two sides cannot take positions of one cell, nor one side two.            *)
LEMMA AvailApart ==
  ASSUME NEW s, ViewTypes(s), FrontsOK(s), NEW t \in QueueThreads, NEW u \in QueueThreads,
         NEW q \in Int, NEW k \in Int, Avail(s, t, q), Avail(s, u, k), q % Capacity = k % Capacity
  PROVE  SameSide(t, u) /\ q = k
<1>1. Capacity \in Nat /\ Capacity >= 2
  BY QueueConstants
<1>2. (q <= k => q = k \/ q + Capacity <= k) /\ (k <= q => k = q \/ k + Capacity <= q)
  BY SameCell
<1>3. CASE s.kind = "SPSC"
  <2>1. s.mem[Dequeue] \in Int /\ s.mem[Enqueue] \in Int
    BY LocationsApart DEF ViewTypes
  <2>2. s.mem[Dequeue] <= s.mem[Enqueue] /\ s.mem[Enqueue] <= s.mem[Dequeue] + Capacity
    BY <1>3 DEF FrontsOK
  <2>3. CASE t \in Producers /\ u \in Producers
    BY <1>1, <1>2, <1>3, <2>1, <2>2, <2>3 DEF Avail, SameSide
  <2>4. CASE t \notin Producers /\ u \notin Producers
    BY <1>1, <1>2, <1>3, <2>1, <2>2, <2>4 DEF Avail, SameSide
  <2>5. CASE t \in Producers /\ u \notin Producers
    BY <1>1, <1>2, <1>3, <2>1, <2>2, <2>5 DEF Avail, SameSide
  <2>6. CASE t \notin Producers /\ u \in Producers
    BY <1>1, <1>2, <1>3, <2>1, <2>2, <2>6 DEF Avail, SameSide
  <2>. QED BY <2>3, <2>4, <2>5, <2>6
<1>4. CASE s.kind # "SPSC"
  <2>1. Sequence(q) = Sequence(k)
    BY LocationsApart
  <2>2. Expected(t, q) = Expected(u, k)
    BY <1>4, <2>1 DEF Avail
  <2>. QED BY <1>1, <1>2, <2>2 DEF Expected, SameSide
<1>. QED BY <1>3, <1>4

LEMMA OwnedApart ==
  ASSUME NEW s, CellsOK(s), NEW t \in QueueThreads, NEW u \in QueueThreads, NEW q \in Int, NEW k \in Int,
         q % Capacity = k % Capacity, Owns(s, u, k)
  PROVE  /\ Avail(s, t, q) => SameSide(t, u) /\ q = k
         /\ Owns(s, t, q) => t = u /\ q = k
<1>1. Avail(s, u, k)
  BY DEF CellsOK, OwnedOnce
<1>2. Avail(s, t, q) => SameSide(t, u) /\ q = k
  BY <1>1, AvailApart DEF CellsOK
<1>3. ASSUME Owns(s, t, q) PROVE t = u /\ q = k
  <2>1. Avail(s, t, q)
    BY <1>3 DEF CellsOK, OwnedOnce
  <2>2. SameSide(t, u) /\ q = k
    BY <1>2, <2>1
  <2>. QED BY <1>3, <2>2 DEF CellsOK, OwnedOnce
<1>. QED BY <1>2, <1>3

LEMMA HandIs ==
  ASSUME NEW s, NEW t \in QueueThreads, NEW q \in Int
  PROVE  /\ Hand(s, t, q)[1] = IF s.kind = "SPSC" THEN Edge(t) ELSE Sequence(q)
         /\ Hand(s, t, q)[2] = IF s.kind = "SPSC" THEN q + 1 ELSE Following(t, q)
         /\ Hand(s, t, q) \in Locations \X Int
         /\ DataStore(t, q)[1] = Data(q) /\ DataStore(t, q)[2] = After(t, q) /\ DataStore(t, q) \in Locations \X Int
         /\ FrontStore(t, q)[1] = Edge(t) /\ FrontStore(t, q)[2] = q + 1 /\ FrontStore(t, q) \in Locations \X Int
         /\ s.kind = "SPSC" => Hand(s, t, q) = FrontStore(t, q) /\ Alone(s, t)
         /\ \A k \in Int : Hand(s, t, k) = Hand(s, t, q) => k = q
         /\ \A k \in Int : DataStore(t, k) = DataStore(t, q) => k % Capacity = q % Capacity
<1>1. Capacity \in Int
  BY QueueConstants
<1>2. /\ Following(t, q) \in Int /\ After(t, q) \in Int /\ q + 1 \in Int
      /\ Edge(t) \in Locations /\ Sequence(q) \in Locations /\ Data(q) \in Locations
  BY <1>1, LocationsApart DEF Following, After, Edge, NoItem
<1>3. ASSUME NEW k \in Int, Hand(s, t, k) = Hand(s, t, q) PROVE k = q
  <2>1. Following(t, k) = Following(t, q) => k = q
    BY <1>1 DEF Following
  <2>. QED BY <1>3, <2>1 DEF Hand, FrontStore
<1>4. ASSUME NEW k \in Int, DataStore(t, k) = DataStore(t, q) PROVE k % Capacity = q % Capacity
  BY <1>4, LocationsApart DEF DataStore
<1>. QED BY <1>2, <1>3, <1>4 DEF Hand, DataStore, FrontStore, Alone

(* What can wait at which location.                                          *)
LEMMA WaitsKinds ==
  ASSUME NEW s, CellsOK(s), NEW t \in QueueThreads, NEW i \in DOMAIN s.buf[t]
  PROVE  /\ \A u \in QueueThreads : i \in Waits(s, t, Edge(u)) =>
              /\ SameSide(t, u) /\ Alone(s, t)
              /\ \E q \in Int : s.buf[t][i] = FrontStore(t, q) /\ (s.kind = "SPSC" => s.buf[t][i] = Hand(s, t, q))
         /\ \A k \in Int : i \in Waits(s, t, Sequence(k)) =>
              \E q \in Int : s.kind # "SPSC" /\ q % Capacity = k % Capacity /\ s.buf[t][i] = Hand(s, t, q)
         /\ \A k \in Int : i \in Waits(s, t, Data(k)) =>
              \E q \in Int : /\ q % Capacity = k % Capacity /\ s.buf[t][i] = DataStore(t, q) /\ Touched(s, t, q)
                             /\ \/ OwnsNow(s, t, q) /\ Done(s, t)
                                \/ \E j \in DOMAIN s.buf[t] : i < j /\ s.buf[t][j] = Hand(s, t, q)
<1>1. PICK q \in Int :
        \/ s.buf[t][i] = Hand(s, t, q)
        \/ Alone(s, t) /\ s.buf[t][i] = FrontStore(t, q)
        \/ /\ s.buf[t][i] = DataStore(t, q)
           /\ \/ OwnsNow(s, t, q) /\ Done(s, t)
              \/ \E j \in DOMAIN s.buf[t] : i < j /\ s.buf[t][j] = Hand(s, t, q)
  BY DEF CellsOK, BuffersOK
<1>0. /\ s.kind = "SPSC" => Hand(s, t, q)[1] = Edge(t) /\ Hand(s, t, q) = FrontStore(t, q) /\ Alone(s, t)
      /\ s.kind # "SPSC" => Hand(s, t, q)[1] = Sequence(q)
      /\ DataStore(t, q)[1] = Data(q) /\ FrontStore(t, q)[1] = Edge(t)
  BY HandIs
<1>2. /\ Sequence(q) \notin {Enqueue, Dequeue} /\ Data(q) \notin {Enqueue, Dequeue} /\ Enqueue # Dequeue
      /\ \A u : Edge(u) \in {Enqueue, Dequeue}
  BY LocationsApart DEF Edge
<1>3. ASSUME NEW u \in QueueThreads, i \in Waits(s, t, Edge(u))
      PROVE  /\ SameSide(t, u) /\ Alone(s, t)
             /\ s.buf[t][i] = FrontStore(t, q) /\ (s.kind = "SPSC" => s.buf[t][i] = Hand(s, t, q))
  <2>1. s.buf[t][i][1] \in {Enqueue, Dequeue} /\ s.buf[t][i][1] = Edge(u)
    BY <1>2, <1>3 DEF Waits
  <2>2. s.buf[t][i][1] = Edge(t) /\ Alone(s, t) /\ s.buf[t][i] = FrontStore(t, q)
    BY <1>0, <1>1, <1>2, <2>1
  <2>3. SameSide(t, u)
    BY <1>2, <2>1, <2>2 DEF Edge, SameSide
  <2>. QED BY <2>2, <2>3, HandIs
<1>4. ASSUME NEW k \in Int, i \in Waits(s, t, Sequence(k))
      PROVE  s.kind # "SPSC" /\ q % Capacity = k % Capacity /\ s.buf[t][i] = Hand(s, t, q)
  <2>1. s.buf[t][i][1] = Sequence(k) /\ Sequence(k) \notin {Enqueue, Dequeue} /\ Sequence(k) # Data(q)
    BY <1>4, LocationsApart DEF Waits
  <2>2. s.kind # "SPSC" /\ s.buf[t][i] = Hand(s, t, q) /\ Sequence(q) = Sequence(k)
    BY <1>0, <1>1, <1>2, <2>1
  <2>. QED BY <2>2, LocationsApart
<1>5. ASSUME NEW k \in Int, i \in Waits(s, t, Data(k))
      PROVE  /\ q % Capacity = k % Capacity /\ s.buf[t][i] = DataStore(t, q) /\ Touched(s, t, q)
             /\ \/ OwnsNow(s, t, q) /\ Done(s, t)
                \/ \E j \in DOMAIN s.buf[t] : i < j /\ s.buf[t][j] = Hand(s, t, q)
  <2>1. s.buf[t][i][1] = Data(k) /\ Data(k) \notin {Enqueue, Dequeue} /\ Sequence(q) # Data(k)
    BY <1>5, LocationsApart DEF Waits
  <2>2. /\ s.buf[t][i] = DataStore(t, q) /\ Data(q) = Data(k)
        /\ \/ OwnsNow(s, t, q) /\ Done(s, t)
           \/ \E j \in DOMAIN s.buf[t] : i < j /\ s.buf[t][j] = Hand(s, t, q)
    BY <1>0, <1>1, <1>2, <2>1
  <2>3. Touched(s, t, q)
    BY <2>2 DEF Touched, OwnsStill
  <2>. QED BY <2>2, <2>3, LocationsApart
<1>. QED BY <1>3, <1>4, <1>5

(* An owner that has not changed its item yet has none of it waiting.        *)
LEMMA UntouchedData ==
  ASSUME NEW s, CellsOK(s), NEW t \in QueueThreads, NEW q \in Int, OwnsNow(s, t, q), ~Done(s, t)
  PROVE  Waits(s, t, Data(q)) = {} /\ ~Touched(s, t, q) /\ s.mem[Data(q)] = Before(t, q)
<1>1. Owns(s, t, q) /\ ~OwnsStill(s, t, q) /\ Avail(s, t, q)
  BY DEF Owns, CellsOK, OwnedOnce
<1>2. ~Touched(s, t, q)
  BY <1>1 DEF Touched
<1>3. ASSUME NEW i \in Waits(s, t, Data(q)) PROVE FALSE
  <2>1. i \in DOMAIN s.buf[t]
    BY DEF Waits
  <2>2. PICK k \in Int : k % Capacity = q % Capacity /\ Touched(s, t, k)
    BY <2>1, WaitsKinds
  <2>3. Owns(s, t, k)
    BY <2>2 DEF Touched, Owns
  <2>4. k = q
    BY <1>1, <2>2, <2>3, OwnedApart
  <2>. QED BY <1>2, <2>2, <2>4
<1>4. s.mem[Data(q)] = Before(t, q)
  <2>1. ASSUME NEW u \in QueueThreads, SameSide(t, u), Touched(s, u, q) PROVE FALSE
    <3>1. Owns(s, u, q)
      BY <2>1 DEF Touched, Owns
    <3>2. t = u
      BY <1>1, <3>1, OwnedApart
    <3>. QED BY <1>2, <2>1, <3>2
  <2>. QED BY <1>1, <2>1 DEF CellsOK, ItemsWhole
<1>. QED BY <1>2, <1>3, <1>4

(* A thread sees its own side's position no earlier than memory has it.      *)
LEMMA FrontSeen ==
  ASSUME NEW s, CellsOK(s), NEW t \in QueueThreads
  PROVE  /\ s.mem[Edge(t)] \in Int /\ Seen(s, t, Edge(t)) \in Int
         /\ s.mem[Edge(t)] <= Seen(s, t, Edge(t))
         /\ \A i \in Waits(s, t, Edge(t)) : s.buf[t][i][2] \in Int /\ s.buf[t][i][2] <= Seen(s, t, Edge(t))
         /\ ~Alone(s, t) => Waits(s, t, Edge(t)) = {} /\ Seen(s, t, Edge(t)) = s.mem[Edge(t)]
         /\ \A u \in QueueThreads : ~SameSide(t, u) =>
              Waits(s, t, Edge(u)) = {} /\ Seen(s, t, Edge(u)) = s.mem[Edge(u)]
<1> DEFINE W == Waits(s, t, Edge(t))
<1>1. ViewTypes(s) /\ Edge(t) \in Locations /\ s.mem[Edge(t)] \in Int /\ Seen(s, t, Edge(t)) \in Int
  BY SeenIs, LocationsApart DEF CellsOK, ViewTypes, Edge
<1>2. ASSUME NEW u \in QueueThreads, ~SameSide(t, u)
      PROVE  Waits(s, t, Edge(u)) = {} /\ Seen(s, t, Edge(u)) = s.mem[Edge(u)]
  <2>1. Waits(s, t, Edge(u)) = {}
    BY <1>2, WaitsKinds DEF Waits
  <2>. QED BY <1>1, <2>1, SeenIs
<1>3. ~Alone(s, t) => W = {}
  BY WaitsKinds DEF Waits, SameSide
<1>4. W = {} => Seen(s, t, Edge(t)) = s.mem[Edge(t)]
  BY <1>1, SeenIs
<1>5. ASSUME W # {}
      PROVE  /\ s.mem[Edge(t)] <= Seen(s, t, Edge(t))
             /\ \A i \in W : s.buf[t][i][2] \in Int /\ s.buf[t][i][2] <= Seen(s, t, Edge(t))
  <2>1. PICK m \in W : (\A j \in W : j <= m) /\ Seen(s, t, Edge(t)) = s.buf[t][m][2]
    BY <1>1, <1>5, SeenIs
  <2>2. Alone(s, t)
    BY <1>3, <1>5
  <2>3. \A i \in W : /\ s.mem[Edge(t)] < s.buf[t][i][2]
                     /\ i < m => s.buf[t][i][2] < s.buf[t][m][2]
    BY <2>1, <2>2 DEF CellsOK, FrontsOK
  <2>4. W \subseteq Nat
    <3>1. W \subseteq 1 .. Len(s.buf[t]) /\ Len(s.buf[t]) \in Nat
      BY <1>1, SeenIs
    <3>. QED BY <3>1
  <2>5. ASSUME NEW i \in W PROVE s.buf[t][i][2] \in Int
    <3>1. i \in DOMAIN s.buf[t] /\ s.buf[t] \in Seq(Locations \X Int)
      BY <1>1 DEF Waits, ViewTypes
    <3>2. s.buf[t][i] \in Locations \X Int
      BY <3>1
    <3>. QED BY <3>2
  <2>6. ASSUME NEW i \in W PROVE s.buf[t][i][2] <= s.buf[t][m][2]
    BY <2>1, <2>3, <2>4, <2>5
  <2>7. s.mem[Edge(t)] <= s.buf[t][m][2]
    BY <1>1, <2>3, <2>5
  <2>. QED BY <2>1, <2>5, <2>6, <2>7
<1>6. s.mem[Edge(t)] <= s.mem[Edge(t)]
  BY <1>1
<1>. HIDE DEF W
<1>7. CASE W = {}
  BY <1>1, <1>2, <1>3, <1>4, <1>6, <1>7 DEF W
<1>8. CASE W # {}
  BY <1>1, <1>2, <1>3, <1>5, <1>8 DEF W
<1>. QED BY <1>7, <1>8

-----------------------------------------------------------------------------
(* The steps.  First those away from the cells: a thread that owns nothing   *)
(* but what waits in its buffer moves on.                                    *)
SameQueue(s, r) == r.kind = s.kind /\ r.team = s.team

Aloof(s, r, t) ==
    /\ s.at[t] \notin CellPlaces /\ r.at[t] \notin CellPlaces
    /\ ~Alone(s, t) =>
         /\ r.pos[t] <= s.mem[Edge(t)]
         /\ r.at[t] = "claim" /\ r.pos[t] = s.mem[Edge(t)] => s.mem[Sequence(r.pos[t])] = Expected(t, r.pos[t])
    /\ Alone(s, t) /\ r.at[t] = "slot" => r.pos[t] = Seen(s, t, Edge(t))

LEMMA AloofKeeps ==
  ASSUME NEW s, NEW r, CellsOK(s), ViewTypes(r), SameQueue(s, r), r.mem = s.mem, r.buf = s.buf,
         \A t \in QueueThreads : (r.at[t] = s.at[t] /\ r.pos[t] = s.pos[t]) \/ Aloof(s, r, t)
  PROVE  CellsOK(r)
<1>1. /\ \A t, l : Waits(r, t, l) = Waits(s, t, l) /\ Seen(r, t, l) = Seen(s, t, l)
      /\ \A t, q : Hand(r, t, q) = Hand(s, t, q)
      /\ \A t, q : OwnsStill(r, t, q) <=> OwnsStill(s, t, q)
      /\ \A t, q : Avail(r, t, q) <=> Avail(s, t, q)
      /\ \A t : Alone(r, t) <=> Alone(s, t)
  BY DEF Waits, Seen, Hand, OwnsStill, Avail, Alone, SameQueue
<1>2. ASSUME NEW t \in QueueThreads, NEW q
      PROVE  /\ OwnsNow(r, t, q) <=> OwnsNow(s, t, q)
             /\ OwnsNow(r, t, q) => (Done(r, t) <=> Done(s, t))
  BY DEF OwnsNow, Done, Aloof, SameQueue
<1>3. ASSUME NEW t \in QueueThreads, NEW q
      PROVE  (Owns(r, t, q) <=> Owns(s, t, q)) /\ (Touched(r, t, q) <=> Touched(s, t, q))
  BY <1>1, <1>2 DEF Owns, Touched
<1>4. OwnedOnce(r)
  BY <1>1, <1>2, <1>3 DEF CellsOK, OwnedOnce
<1>5. BuffersOK(r)
  <2>. SUFFICES ASSUME NEW t \in QueueThreads, NEW i \in DOMAIN r.buf[t]
                PROVE  \E q \in Int :
                         \/ r.buf[t][i] = Hand(r, t, q)
                         \/ Alone(r, t) /\ r.buf[t][i] = FrontStore(t, q)
                         \/ /\ r.buf[t][i] = DataStore(t, q)
                            /\ \/ OwnsNow(r, t, q) /\ Done(r, t)
                               \/ \E j \in DOMAIN r.buf[t] : i < j /\ r.buf[t][j] = Hand(r, t, q)
    BY DEF BuffersOK
  <2>1. PICK q \in Int :
          \/ s.buf[t][i] = Hand(s, t, q)
          \/ Alone(s, t) /\ s.buf[t][i] = FrontStore(t, q)
          \/ /\ s.buf[t][i] = DataStore(t, q)
             /\ \/ OwnsNow(s, t, q) /\ Done(s, t)
                \/ \E j \in DOMAIN s.buf[t] : i < j /\ s.buf[t][j] = Hand(s, t, q)
    BY DEF CellsOK, BuffersOK
  <2>. QED BY <1>1, <1>2, <2>1
<1>6. ClaimsOK(r)
  <2>. SUFFICES ASSUME NEW t \in QueueThreads, ~Alone(s, t)
                PROVE  /\ 0 <= s.mem[Edge(t)] /\ r.pos[t] <= s.mem[Edge(t)]
                       /\ \A q \in Int : Owns(s, t, q) => q < s.mem[Edge(t)]
                       /\ r.at[t] = "claim" /\ r.pos[t] = s.mem[Edge(t)] =>
                            s.mem[Sequence(r.pos[t])] = Expected(t, r.pos[t])
    BY <1>1, <1>3 DEF ClaimsOK
  <2>1. /\ 0 <= s.mem[Edge(t)] /\ s.pos[t] <= s.mem[Edge(t)]
        /\ \A q \in Int : Owns(s, t, q) => q < s.mem[Edge(t)]
        /\ s.at[t] = "claim" /\ s.pos[t] = s.mem[Edge(t)] =>
             s.mem[Sequence(s.pos[t])] = Expected(t, s.pos[t])
    BY DEF CellsOK, ClaimsOK
  <2>. QED BY <2>1 DEF Aloof
<1>7. FrontsOK(r)
  <2>1. ASSUME NEW t \in QueueThreads, Alone(r, t), Choosing(r, t) PROVE r.pos[t] = Seen(r, t, Edge(t))
    <3>1. CASE r.at[t] = s.at[t] /\ r.pos[t] = s.pos[t]
      <4>1. Choosing(s, t)
        BY <2>1, <3>1 DEF Choosing, SameQueue
      <4>. QED BY <1>1, <2>1, <3>1, <4>1 DEF CellsOK, FrontsOK
    <3>2. CASE Aloof(s, r, t)
      BY <1>1, <2>1, <3>2 DEF Choosing, Aloof, CellPlaces
    <3>. QED BY <3>1, <3>2
  <2>2. /\ \A t \in QueueThreads : Alone(s, t) =>
             /\ \A i \in Waits(s, t, Edge(t)) :
                  /\ s.mem[Edge(t)] < s.buf[t][i][2]
                  /\ \A j \in Waits(s, t, Edge(t)) : i < j => s.buf[t][i][2] < s.buf[t][j][2]
             /\ s.kind = "SPSC" =>
                  \A q \in Int : s.mem[Edge(t)] <= q /\ q < Seen(s, t, Edge(t)) => OwnsStill(s, t, q)
        /\ s.kind = "SPSC" => s.mem[Dequeue] <= s.mem[Enqueue] /\ s.mem[Enqueue] <= s.mem[Dequeue] + Capacity
    BY DEF CellsOK, FrontsOK
  <2>. QED BY <1>1, <2>1, <2>2 DEF FrontsOK, SameQueue
<1>8. ItemsWhole(r)
  BY <1>1, <1>3 DEF CellsOK, ItemsWhole
<1>. QED BY <1>4, <1>5, <1>6, <1>7, <1>8 DEF CellsOK

(* A position is claimed: with a compare and swap, or by going on from the   *)
(* test alone.                                                               *)
LEMMA ClaimKeeps ==
  ASSUME NEW s, NEW r, CellsOK(s), ViewTypes(r), SameQueue(s, r), r.buf = s.buf, r.pos = s.pos,
         NEW t \in QueueThreads, NEW q \in Int, s.pos[t] = q, s.at[t] \notin CellPlaces, r.at[t] \in CellPlaces, ~Done(r, t),
         \A u \in QueueThreads \ {t} : r.at[u] = s.at[u],
         Avail(s, t, q), \A u \in QueueThreads : SameSide(t, u) => ~Owns(s, u, q),
         IF Alone(s, t) THEN r.mem = s.mem /\ s.at[t] = "slot"
                        ELSE r.mem = [s.mem EXCEPT ![Edge(t)] = @ + 1] /\ q = s.mem[Edge(t)]
  PROVE  CellsOK(r)
<1>0. /\ \A u : Alone(r, u) <=> Alone(s, u)
      /\ \A u, k : Hand(r, u, k) = Hand(s, u, k)
      /\ \A u, l : Waits(r, u, l) = Waits(s, u, l)
      /\ \A u, k : OwnsStill(r, u, k) <=> OwnsStill(s, u, k)
  BY DEF Alone, Hand, Waits, OwnsStill, SameQueue
<1>1. /\ Edge(t) \in {Enqueue, Dequeue} /\ s.mem \in [Locations -> Int] /\ ViewTypes(s)
      /\ \A u : Edge(u) \in Locations
  BY LocationsApart DEF Edge, CellsOK, ViewTypes
<1>2. /\ \A l \in Locations : l # Edge(t) => r.mem[l] = s.mem[l]
      /\ r.mem[Edge(t)] = IF Alone(s, t) THEN s.mem[Edge(t)] ELSE s.mem[Edge(t)] + 1
      /\ \A k \in Int : r.mem[Sequence(k)] = s.mem[Sequence(k)] /\ r.mem[Data(k)] = s.mem[Data(k)]
  <2>1. /\ \A l \in Locations : l # Edge(t) => r.mem[l] = s.mem[l]
        /\ r.mem[Edge(t)] = IF Alone(s, t) THEN s.mem[Edge(t)] ELSE s.mem[Edge(t)] + 1
    BY <1>1
  <2>2. ASSUME NEW k \in Int PROVE r.mem[Sequence(k)] = s.mem[Sequence(k)] /\ r.mem[Data(k)] = s.mem[Data(k)]
    BY <1>1, <2>1, LocationsApart
  <2>. QED BY <2>1, <2>2
<1>3. s.kind = "SPSC" => r.mem = s.mem
  BY DEF Alone
<1>4. \A u, k : k \in Int => (Avail(r, u, k) <=> Avail(s, u, k))
  BY <1>2, <1>3 DEF Avail, SameQueue
<1>5. /\ OwnsNow(r, t, q) /\ \A k \in Int : OwnsNow(r, t, k) => k = q
      /\ \A k : ~OwnsNow(s, t, k)
      /\ \A u \in QueueThreads \ {t} : \A k : (OwnsNow(r, u, k) <=> OwnsNow(s, u, k)) /\ (Done(r, u) <=> Done(s, u))
  BY DEF OwnsNow, Done, SameQueue
<1>6. /\ \A u \in QueueThreads, k \in Int : Owns(r, u, k) <=> Owns(s, u, k) \/ (u = t /\ k = q)
      /\ \A u \in QueueThreads, k \in Int : Touched(r, u, k) <=> Touched(s, u, k)
  BY <1>0, <1>5 DEF Owns, Touched
<1>7. OwnedOnce(r)
  <2>. SUFFICES ASSUME NEW u \in QueueThreads, NEW k \in Int, Owns(r, u, k)
                PROVE  /\ Avail(r, u, k)
                       /\ \A v \in QueueThreads : SameSide(u, v) /\ Owns(r, v, k) => u = v
                       /\ OwnsNow(r, u, k) => ~OwnsStill(r, u, k)
                       /\ \A i, j \in DOMAIN r.buf[u] : r.buf[u][i] = Hand(r, u, k) /\ r.buf[u][j] = Hand(r, u, k) => i = j
    BY DEF OwnedOnce
  <2>1. CASE u = t /\ k = q
    <3>1. ~OwnsStill(s, t, q)
      BY DEF Owns, SameSide
    <3>2. \A v \in QueueThreads : SameSide(t, v) /\ Owns(r, v, q) => v = t
      BY <1>6
    <3>3. \A i \in DOMAIN r.buf[t] : r.buf[t][i] # Hand(r, t, q)
      BY <1>0, <3>1 DEF OwnsStill
    <3>. QED BY <1>0, <1>4, <2>1, <3>1, <3>2, <3>3
  <2>2. CASE ~(u = t /\ k = q)
    <3>1. Owns(s, u, k)
      BY <1>6, <2>2
    <3>2. /\ Avail(s, u, k)
          /\ \A v \in QueueThreads : SameSide(u, v) /\ Owns(s, v, k) => u = v
          /\ OwnsNow(s, u, k) => ~OwnsStill(s, u, k)
          /\ \A i, j \in DOMAIN s.buf[u] : s.buf[u][i] = Hand(s, u, k) /\ s.buf[u][j] = Hand(s, u, k) => i = j
      BY <3>1 DEF CellsOK, OwnedOnce
    <3>3. ~(SameSide(u, t) /\ k = q)
      BY <3>1 DEF SameSide
    <3>4. OwnsNow(r, u, k) => OwnsNow(s, u, k)
      BY <1>5, <2>2
    <3>. QED BY <1>0, <1>4, <1>6, <3>2, <3>3, <3>4
  <2>. QED BY <2>1, <2>2
<1>8. BuffersOK(r)
  <2>. SUFFICES ASSUME NEW u \in QueueThreads, NEW i \in DOMAIN r.buf[u]
                PROVE  \E k \in Int :
                         \/ r.buf[u][i] = Hand(r, u, k)
                         \/ Alone(r, u) /\ r.buf[u][i] = FrontStore(u, k)
                         \/ /\ r.buf[u][i] = DataStore(u, k)
                            /\ \/ OwnsNow(r, u, k) /\ Done(r, u)
                               \/ \E j \in DOMAIN r.buf[u] : i < j /\ r.buf[u][j] = Hand(r, u, k)
    BY DEF BuffersOK
  <2>1. PICK k \in Int :
          \/ s.buf[u][i] = Hand(s, u, k)
          \/ Alone(s, u) /\ s.buf[u][i] = FrontStore(u, k)
          \/ /\ s.buf[u][i] = DataStore(u, k)
             /\ \/ OwnsNow(s, u, k) /\ Done(s, u)
                \/ \E j \in DOMAIN s.buf[u] : i < j /\ s.buf[u][j] = Hand(s, u, k)
    BY DEF CellsOK, BuffersOK
  <2>2. OwnsNow(s, u, k) => u # t
    BY <1>5
  <2>. QED BY <1>0, <1>5, <2>1, <2>2
<1>9. ClaimsOK(r)
  <2>. SUFFICES ASSUME NEW u \in QueueThreads, ~Alone(s, u)
                PROVE  /\ 0 <= r.mem[Edge(u)] /\ r.pos[u] <= r.mem[Edge(u)]
                       /\ \A k \in Int : Owns(r, u, k) => k < r.mem[Edge(u)]
                       /\ r.at[u] = "claim" /\ r.pos[u] = r.mem[Edge(u)] =>
                            r.mem[Sequence(r.pos[u])] = Expected(u, r.pos[u])
    BY <1>0 DEF ClaimsOK
  <2>1. /\ 0 <= s.mem[Edge(u)] /\ s.pos[u] <= s.mem[Edge(u)]
        /\ \A k \in Int : Owns(s, u, k) => k < s.mem[Edge(u)]
        /\ s.at[u] = "claim" /\ s.pos[u] = s.mem[Edge(u)] =>
             s.mem[Sequence(s.pos[u])] = Expected(u, s.pos[u])
    BY DEF CellsOK, ClaimsOK
  <2>2. s.pos[u] \in Int /\ s.mem[Edge(u)] \in Int
    BY <1>1 DEF ViewTypes
  <2>3. CASE Edge(u) = Edge(t)
    <3>1. ~Alone(s, t)
      <4>1. SameSide(u, t)
        BY <2>3, LocationsApart DEF Edge, SameSide
      <4>. QED BY <4>1 DEF Alone, SameSide
    <3>2. r.mem[Edge(u)] = s.mem[Edge(u)] + 1 /\ q = s.mem[Edge(u)]
      BY <1>2, <2>3, <3>1
    <3>3. \A k \in Int : Owns(r, u, k) => k < r.mem[Edge(u)]
      BY <1>6, <2>1, <2>2, <3>2
    <3>. QED BY <2>1, <2>2, <3>2, <3>3
  <2>4. CASE Edge(u) # Edge(t)
    <3>1. u # t /\ r.mem[Edge(u)] = s.mem[Edge(u)]
      BY <1>1, <1>2, <2>4
    <3>. QED BY <1>2, <1>6, <2>1, <2>2, <3>1
  <2>. QED BY <2>3, <2>4
<1>10. FrontsOK(r)
  <2>1. ASSUME NEW u \in QueueThreads, Alone(s, u)
        PROVE  r.mem[Edge(u)] = s.mem[Edge(u)] /\ Seen(r, u, Edge(u)) = Seen(s, u, Edge(u))
    <3>1. r.mem[Edge(u)] = s.mem[Edge(u)]
      <4>1. CASE Alone(s, t)
        BY <4>1
      <4>2. CASE ~Alone(s, t)
        <5>1. Edge(u) # Edge(t)
          BY <2>1, <4>2, LocationsApart DEF Edge, Alone
        <5>. QED BY <1>1, <1>2, <5>1
      <4>. QED BY <4>1, <4>2
    <3>. QED BY <1>0, <3>1 DEF Seen
  <2>2. ASSUME NEW u \in QueueThreads, Alone(s, u), Choosing(r, u) PROVE r.pos[u] = Seen(r, u, Edge(u))
    <3>1. Choosing(s, u)
      BY <2>2 DEF Choosing, SameQueue
    <3>. QED BY <2>1, <2>2, <3>1 DEF CellsOK, FrontsOK
  <2>3. /\ \A u \in QueueThreads : Alone(s, u) =>
             /\ \A i \in Waits(s, u, Edge(u)) :
                  /\ s.mem[Edge(u)] < s.buf[u][i][2]
                  /\ \A j \in Waits(s, u, Edge(u)) : i < j => s.buf[u][i][2] < s.buf[u][j][2]
             /\ s.kind = "SPSC" =>
                  \A k \in Int : s.mem[Edge(u)] <= k /\ k < Seen(s, u, Edge(u)) => OwnsStill(s, u, k)
        /\ s.kind = "SPSC" => s.mem[Dequeue] <= s.mem[Enqueue] /\ s.mem[Enqueue] <= s.mem[Dequeue] + Capacity
    BY DEF CellsOK, FrontsOK
  <2>. QED BY <1>0, <1>3, <2>1, <2>2, <2>3 DEF FrontsOK, SameQueue
<1>11. ItemsWhole(r)
  <2>1. ASSUME NEW u \in QueueThreads, NEW k \in Int PROVE Seen(r, u, Data(k)) = Seen(s, u, Data(k))
    BY <1>0, <1>2 DEF Seen
  <2>. QED BY <1>2, <1>4, <1>6, <2>1 DEF CellsOK, ItemsWhole
<1>. QED BY <1>7, <1>8, <1>9, <1>10, <1>11 DEF CellsOK

(* The owner of a position writes its item, or takes it away.                *)
LEMMA ItemKeeps ==
  ASSUME NEW s, NEW r, CellsOK(s), ViewTypes(r), SameQueue(s, r), r.pos = s.pos,
         NEW t \in QueueThreads, NEW q \in Int, OwnsNow(s, t, q), ~Done(s, t), r.at[t] \in CellPlaces, Done(r, t),
         Choosing(r, t) => Choosing(s, t),
         \A u \in QueueThreads \ {t} : r.at[u] = s.at[u],
         Appended(s, r, t, DataStore(t, q))
  PROVE  CellsOK(r)
<1> DEFINE n == Len(s.buf[t]) + 1
<1>1. /\ ViewTypes(s) /\ DataStore(t, q) = <<Data(q), After(t, q)>> /\ Data(q) \in Locations /\ After(t, q) \in Int
      /\ s.mem \in [Locations -> Int]
  <2>1. Data(q) \in Locations /\ After(t, q) \in Int
    BY LocationsApart DEF After, NoItem
  <2>2. ViewTypes(s) /\ s.mem \in [Locations -> Int]
    BY DEF CellsOK, ViewTypes
  <2>. QED BY <2>1, <2>2 DEF DataStore
<1>2. /\ Len(r.buf[t]) = n /\ r.buf[t][n] = DataStore(t, q)
      /\ \A i \in DOMAIN s.buf[t] : i \in DOMAIN r.buf[t] /\ r.buf[t][i] = s.buf[t][i]
      /\ \A u \in QueueThreads \ {t} : r.buf[u] = s.buf[u]
      /\ Seen(r, t, Data(q)) = After(t, q)
      /\ \A k : k # Data(q) => Seen(r, t, k) = Seen(s, t, k) /\ Waits(r, t, k) = Waits(s, t, k)
      /\ \A u \in QueueThreads \ {t} : \A k : Seen(r, u, k) = Seen(s, u, k) /\ Waits(r, u, k) = Waits(s, u, k)
  BY <1>1, AppendSeen
<1>3. /\ Len(s.buf[t]) \in Nat /\ DOMAIN s.buf[t] = 1 .. n - 1 /\ DOMAIN r.buf[t] = 1 .. n
      /\ \A i \in 1 .. n : i \in 1 .. n - 1 \/ i = n
  <2>1. /\ Len(s.buf[t]) \in Nat /\ DOMAIN s.buf[t] = 1 .. Len(s.buf[t])
        /\ DOMAIN r.buf[t] = 1 .. Len(r.buf[t])
    BY <1>1, SeenIs
  <2>. QED BY <1>2, <2>1
<1>. HIDE DEF n
<1>4. /\ \A u : Alone(r, u) <=> Alone(s, u)
      /\ \A u, k : Hand(r, u, k) = Hand(s, u, k)
      /\ \A u, k : Avail(r, u, k) <=> Avail(s, u, k)
  BY DEF Alone, Hand, SameQueue, Avail, Appended
<1>5. \A k \in Int : DataStore(t, q) # Hand(s, t, k)
  <2>. SUFFICES ASSUME NEW k \in Int PROVE DataStore(t, q) # Hand(s, t, k)
    OBVIOUS
  <2>1. Data(q) # Sequence(k) /\ Data(q) # Edge(t)
    BY LocationsApart DEF Edge
  <2>2. Hand(s, t, k)[1] = Edge(t) \/ Hand(s, t, k)[1] = Sequence(k)
    BY DEF Hand, FrontStore
  <2>3. DataStore(t, q)[1] = Data(q)
    BY HandIs
  <2>. QED BY <2>1, <2>2, <2>3
<1>6. \A u \in QueueThreads, k \in Int : OwnsStill(r, u, k) <=> OwnsStill(s, u, k)
  <2>1. ASSUME NEW k \in Int PROVE OwnsStill(r, t, k) <=> OwnsStill(s, t, k)
    BY <1>2, <1>3, <1>4, <1>5 DEF OwnsStill
  <2>2. ASSUME NEW k \in Int, NEW u \in QueueThreads \ {t} PROVE OwnsStill(r, u, k) <=> OwnsStill(s, u, k)
    BY <1>2, <1>4 DEF OwnsStill
  <2>. QED BY <2>1, <2>2
<1>7. /\ \A u \in QueueThreads, k \in Int : OwnsNow(r, u, k) <=> OwnsNow(s, u, k)
      /\ \A u \in QueueThreads \ {t} : Done(r, u) <=> Done(s, u)
      /\ \A k \in Int : OwnsNow(s, t, k) <=> k = q
  BY DEF OwnsNow, Done, SameQueue
<1>8. /\ \A u \in QueueThreads, k \in Int : Owns(r, u, k) <=> Owns(s, u, k)
      /\ \A u \in QueueThreads, k \in Int : Touched(r, u, k) <=> Touched(s, u, k) \/ (u = t /\ k = q)
  BY <1>6, <1>7 DEF Owns, Touched
<1>9. OwnedOnce(r)
  <2>. SUFFICES ASSUME NEW u \in QueueThreads, NEW k \in Int, Owns(r, u, k)
                PROVE  \A i, j \in DOMAIN r.buf[u] : r.buf[u][i] = Hand(r, u, k) /\ r.buf[u][j] = Hand(r, u, k) => i = j
    BY <1>4, <1>6, <1>7, <1>8 DEF OwnedOnce, CellsOK
  <2>1. \A i, j \in DOMAIN s.buf[u] : s.buf[u][i] = Hand(s, u, k) /\ s.buf[u][j] = Hand(s, u, k) => i = j
    BY <1>8 DEF OwnedOnce, CellsOK
  <2>2. CASE u = t
    <3>1. r.buf[t][n] # Hand(s, t, k)
      BY <1>2, <1>5
    <3>2. \A i \in DOMAIN r.buf[t] : r.buf[t][i] = Hand(s, t, k) => i \in DOMAIN s.buf[t] /\ s.buf[t][i] = Hand(s, t, k)
      BY <1>2, <1>3, <3>1
    <3>. QED BY <1>4, <2>1, <2>2, <3>2
  <2>. QED BY <1>2, <1>4, <2>1, <2>2
<1>10. BuffersOK(r)
  <2>. SUFFICES ASSUME NEW u \in QueueThreads, NEW i \in DOMAIN r.buf[u]
                PROVE  \E k \in Int :
                         \/ r.buf[u][i] = Hand(r, u, k)
                         \/ Alone(r, u) /\ r.buf[u][i] = FrontStore(u, k)
                         \/ /\ r.buf[u][i] = DataStore(u, k)
                            /\ \/ OwnsNow(r, u, k) /\ Done(r, u)
                               \/ \E j \in DOMAIN r.buf[u] : i < j /\ r.buf[u][j] = Hand(r, u, k)
    BY DEF BuffersOK
  <2>1. ASSUME i \in DOMAIN s.buf[u]
        PROVE  \E k \in Int :
          \/ s.buf[u][i] = Hand(s, u, k)
          \/ Alone(s, u) /\ s.buf[u][i] = FrontStore(u, k)
          \/ /\ s.buf[u][i] = DataStore(u, k)
             /\ \/ OwnsNow(s, u, k) /\ Done(s, u)
                \/ \E j \in DOMAIN s.buf[u] : i < j /\ s.buf[u][j] = Hand(s, u, k)
    BY <2>1 DEF CellsOK, BuffersOK
  <2>2. CASE u # t
    BY <1>2, <1>4, <1>7, <2>1, <2>2
  <2>3. CASE u = t /\ i = n
    BY <1>2, <1>7, <2>3
  <2>4. CASE u = t /\ i # n
    <3>1. i \in DOMAIN s.buf[u]
      BY <1>3, <2>4
    <3>2. PICK k \in Int :
          \/ s.buf[u][i] = Hand(s, u, k)
          \/ Alone(s, u) /\ s.buf[u][i] = FrontStore(u, k)
          \/ /\ s.buf[u][i] = DataStore(u, k)
             /\ \/ OwnsNow(s, u, k) /\ Done(s, u)
                \/ \E j \in DOMAIN s.buf[u] : i < j /\ s.buf[u][j] = Hand(s, u, k)
      BY <2>1, <3>1
    <3>3. r.buf[u][i] = s.buf[u][i] /\ \A j \in DOMAIN s.buf[u] : j \in DOMAIN r.buf[u] /\ r.buf[u][j] = s.buf[u][j]
      BY <1>2, <2>4, <3>1
    <3>. QED BY <1>4, <1>7, <2>4, <3>2, <3>3
  <2>. QED BY <2>2, <2>3, <2>4
<1>11. ClaimsOK(r)
  <2>1. \A u \in QueueThreads : r.at[u] = "claim" => s.at[u] = "claim"
    BY DEF CellPlaces
  <2>. QED BY <1>4, <1>8, <2>1 DEF CellsOK, ClaimsOK, Appended
<1>12. FrontsOK(r)
  <2>1. /\ \A u \in QueueThreads : Waits(r, u, Edge(u)) = Waits(s, u, Edge(u)) /\ Seen(r, u, Edge(u)) = Seen(s, u, Edge(u))
        /\ \A u \in QueueThreads : \A i \in Waits(s, u, Edge(u)) : r.buf[u][i] = s.buf[u][i]
    <3>1. \A u : Edge(u) # Data(q)
      BY LocationsApart DEF Edge
    <3>. QED BY <1>2, <3>1 DEF Waits
  <2>2. \A u \in QueueThreads : Choosing(r, u) => Choosing(s, u)
    BY DEF Choosing, SameQueue
  <2>3. \A u \in QueueThreads : Alone(s, u) =>
         /\ Choosing(s, u) => s.pos[u] = Seen(s, u, Edge(u))
         /\ \A i \in Waits(s, u, Edge(u)) :
              /\ s.mem[Edge(u)] < s.buf[u][i][2]
              /\ \A j \in Waits(s, u, Edge(u)) : i < j => s.buf[u][i][2] < s.buf[u][j][2]
         /\ s.kind = "SPSC" =>
              \A k \in Int : s.mem[Edge(u)] <= k /\ k < Seen(s, u, Edge(u)) => OwnsStill(s, u, k)
    BY DEF CellsOK, FrontsOK
  <2>4. s.kind = "SPSC" => s.mem[Dequeue] <= s.mem[Enqueue] /\ s.mem[Enqueue] <= s.mem[Dequeue] + Capacity
    BY DEF CellsOK, FrontsOK
  <2>5. r.mem = s.mem /\ r.kind = s.kind
    BY DEF Appended, SameQueue
  <2>6. ASSUME NEW u \in QueueThreads, Alone(r, u)
        PROVE  /\ Choosing(r, u) => r.pos[u] = Seen(r, u, Edge(u))
               /\ \A i \in Waits(r, u, Edge(u)) :
                    /\ r.mem[Edge(u)] < r.buf[u][i][2]
                    /\ \A j \in Waits(r, u, Edge(u)) : i < j => r.buf[u][i][2] < r.buf[u][j][2]
               /\ r.kind = "SPSC" =>
                    \A k \in Int : r.mem[Edge(u)] <= k /\ k < Seen(r, u, Edge(u)) => OwnsStill(r, u, k)
    <3>1. Alone(s, u)
      BY <1>4, <2>6
    <3>. QED BY <1>6, <2>1, <2>2, <2>3, <2>5, <3>1
  <2>. QED BY <2>4, <2>5, <2>6 DEF FrontsOK
<1>13. ItemsWhole(r)
  <2>. SUFFICES ASSUME NEW u \in QueueThreads, NEW k \in Int
                PROVE  /\ Avail(r, u, k) => \/ r.mem[Data(k)] = Before(u, k)
                                            \/ \E v \in QueueThreads : SameSide(u, v) /\ Touched(r, v, k)
                       /\ Touched(r, u, k) => Seen(r, u, Data(k)) = After(u, k)
    BY DEF ItemsWhole
  <2>1. /\ Avail(s, u, k) => \/ s.mem[Data(k)] = Before(u, k)
                             \/ \E v \in QueueThreads : SameSide(u, v) /\ Touched(s, v, k)
        /\ Touched(s, u, k) => Seen(s, u, Data(k)) = After(u, k)
    BY DEF CellsOK, ItemsWhole
  <2>2. Avail(r, u, k) => \/ r.mem[Data(k)] = Before(u, k)
                          \/ \E v \in QueueThreads : SameSide(u, v) /\ Touched(r, v, k)
    BY <1>4, <1>8, <2>1 DEF Appended
  <2>3. ASSUME Touched(r, u, k) PROVE Seen(r, u, Data(k)) = After(u, k)
    <3>1. CASE u # t
      BY <1>2, <1>8, <2>1, <2>3, <3>1
    <3>2. CASE u = t /\ k = q
      BY <1>2, <3>2
    <3>3. CASE u = t /\ k # q
      <4>1. Touched(s, t, k)
        BY <1>8, <2>3, <3>3
      <4>2. Owns(s, t, k) /\ Owns(s, t, q)
        BY <4>1 DEF Touched, Owns
      <4>3. k % Capacity # q % Capacity
        BY <3>3, <4>2, OwnedApart
      <4>4. Data(k) # Data(q)
        BY <4>3, LocationsApart
      <4>. QED BY <1>2, <2>1, <3>3, <4>1, <4>4
    <3>. QED BY <3>1, <3>2, <3>3
  <2>. QED BY <2>2, <2>3
<1>. QED BY <1>9, <1>10, <1>11, <1>12, <1>13 DEF CellsOK

(* A lone owner moves its side's position on, before it hands over.          *)
LEMMA RaiseKeeps ==
  ASSUME NEW s, NEW r, CellsOK(s), ViewTypes(r), SameQueue(s, r), r.pos = s.pos,
         NEW t \in QueueThreads, NEW q \in Int, OwnsNow(s, t, q), r.at[t] \in CellPlaces, Done(r, t) <=> Done(s, t),
         s.kind # "SPSC", Alone(s, t), Choosing(s, t), ~Choosing(r, t),
         \A u \in QueueThreads \ {t} : r.at[u] = s.at[u],
         Appended(s, r, t, FrontStore(t, q))
  PROVE  CellsOK(r)
<1> DEFINE n == Len(s.buf[t]) + 1
<1>1. /\ ViewTypes(s) /\ FrontStore(t, q) = <<Edge(t), q + 1>> /\ Edge(t) \in Locations /\ q + 1 \in Int
      /\ s.mem \in [Locations -> Int]
  <2>1. Edge(t) \in Locations
    BY LocationsApart DEF Edge
  <2>2. ViewTypes(s) /\ s.mem \in [Locations -> Int]
    BY DEF CellsOK, ViewTypes
  <2>. QED BY <2>1, <2>2 DEF FrontStore
<1>2. /\ Len(r.buf[t]) = n /\ r.buf[t][n] = FrontStore(t, q)
      /\ \A i \in DOMAIN s.buf[t] : i \in DOMAIN r.buf[t] /\ r.buf[t][i] = s.buf[t][i]
      /\ \A u \in QueueThreads \ {t} : r.buf[u] = s.buf[u]
      /\ Seen(r, t, Edge(t)) = q + 1 /\ Waits(r, t, Edge(t)) = Waits(s, t, Edge(t)) \union {n}
      /\ \A k : k # Edge(t) => Seen(r, t, k) = Seen(s, t, k) /\ Waits(r, t, k) = Waits(s, t, k)
      /\ \A u \in QueueThreads \ {t} : \A k : Seen(r, u, k) = Seen(s, u, k) /\ Waits(r, u, k) = Waits(s, u, k)
  BY <1>1, AppendSeen
<1>3. /\ Len(s.buf[t]) \in Nat /\ DOMAIN s.buf[t] = 1 .. n - 1 /\ DOMAIN r.buf[t] = 1 .. n
      /\ \A i \in 1 .. n : i \in 1 .. n - 1 \/ i = n
      /\ n \in 1 .. n
  <2>1. /\ Len(s.buf[t]) \in Nat /\ DOMAIN s.buf[t] = 1 .. Len(s.buf[t])
        /\ DOMAIN r.buf[t] = 1 .. Len(r.buf[t])
    BY <1>1, SeenIs
  <2>. QED BY <1>2, <2>1
<1>. HIDE DEF n
<1>4. /\ \A u : Alone(r, u) <=> Alone(s, u)
      /\ \A u, k : Hand(r, u, k) = Hand(s, u, k)
      /\ \A u, k : Avail(r, u, k) <=> Avail(s, u, k)
  BY DEF Alone, Hand, SameQueue, Avail, Appended
<1>5. \A k \in Int : FrontStore(t, q) # Hand(s, t, k)
  <2>1. \A k \in Int : Edge(t) # Sequence(k)
    BY LocationsApart DEF Edge
  <2>. QED BY <2>1 DEF Hand, FrontStore
<1>6. \A u \in QueueThreads, k \in Int : OwnsStill(r, u, k) <=> OwnsStill(s, u, k)
  <2>1. ASSUME NEW k \in Int PROVE OwnsStill(r, t, k) <=> OwnsStill(s, t, k)
    <3>1. ASSUME OwnsStill(s, t, k) PROVE OwnsStill(r, t, k)
      <4>1. PICK i \in DOMAIN s.buf[t] : s.buf[t][i] = Hand(s, t, k)
        BY <3>1 DEF OwnsStill
      <4>2. i \in DOMAIN r.buf[t] /\ r.buf[t][i] = Hand(r, t, k)
        BY <1>2, <1>4, <4>1
      <4>. QED BY <4>2 DEF OwnsStill
    <3>2. ASSUME OwnsStill(r, t, k) PROVE OwnsStill(s, t, k)
      <4>1. PICK i \in DOMAIN r.buf[t] : r.buf[t][i] = Hand(r, t, k)
        BY <3>2 DEF OwnsStill
      <4>2. r.buf[t][i] = Hand(s, t, k) /\ i # n
        BY <1>2, <1>4, <1>5, <4>1
      <4>3. i \in DOMAIN s.buf[t] /\ s.buf[t][i] = Hand(s, t, k)
        BY <1>2, <1>3, <4>1, <4>2
      <4>. QED BY <4>3 DEF OwnsStill
    <3>. QED BY <3>1, <3>2
  <2>2. ASSUME NEW k \in Int, NEW u \in QueueThreads \ {t} PROVE OwnsStill(r, u, k) <=> OwnsStill(s, u, k)
    BY <1>2, <1>4 DEF OwnsStill
  <2>. QED BY <2>1, <2>2
<1>7. /\ \A u \in QueueThreads, k \in Int : OwnsNow(r, u, k) <=> OwnsNow(s, u, k)
      /\ \A u \in QueueThreads : Done(r, u) <=> Done(s, u)
  BY DEF OwnsNow, Done, SameQueue
<1>8. /\ \A u \in QueueThreads, k \in Int : Owns(r, u, k) <=> Owns(s, u, k)
      /\ \A u \in QueueThreads, k \in Int : Touched(r, u, k) <=> Touched(s, u, k)
  BY <1>6, <1>7 DEF Owns, Touched
<1>9. OwnedOnce(r)
  <2>. SUFFICES ASSUME NEW u \in QueueThreads, NEW k \in Int, Owns(r, u, k)
                PROVE  \A i, j \in DOMAIN r.buf[u] : r.buf[u][i] = Hand(r, u, k) /\ r.buf[u][j] = Hand(r, u, k) => i = j
    BY <1>4, <1>6, <1>7, <1>8 DEF OwnedOnce, CellsOK
  <2>1. \A i, j \in DOMAIN s.buf[u] : s.buf[u][i] = Hand(s, u, k) /\ s.buf[u][j] = Hand(s, u, k) => i = j
    BY <1>8 DEF OwnedOnce, CellsOK
  <2>2. CASE u = t
    <3>1. r.buf[t][n] # Hand(s, t, k)
      BY <1>2, <1>5
    <3>2. \A i \in DOMAIN r.buf[t] : r.buf[t][i] = Hand(s, t, k) => i \in DOMAIN s.buf[t] /\ s.buf[t][i] = Hand(s, t, k)
      BY <1>2, <1>3, <3>1
    <3>. QED BY <1>4, <2>1, <2>2, <3>2
  <2>. QED BY <1>2, <1>4, <2>1, <2>2
<1>10. BuffersOK(r)
  <2>. SUFFICES ASSUME NEW u \in QueueThreads, NEW i \in DOMAIN r.buf[u]
                PROVE  \E k \in Int :
                         \/ r.buf[u][i] = Hand(r, u, k)
                         \/ Alone(r, u) /\ r.buf[u][i] = FrontStore(u, k)
                         \/ /\ r.buf[u][i] = DataStore(u, k)
                            /\ \/ OwnsNow(r, u, k) /\ Done(r, u)
                               \/ \E j \in DOMAIN r.buf[u] : i < j /\ r.buf[u][j] = Hand(r, u, k)
    BY DEF BuffersOK
  <2>1. ASSUME i \in DOMAIN s.buf[u]
        PROVE  \E k \in Int :
          \/ s.buf[u][i] = Hand(s, u, k)
          \/ Alone(s, u) /\ s.buf[u][i] = FrontStore(u, k)
          \/ /\ s.buf[u][i] = DataStore(u, k)
             /\ \/ OwnsNow(s, u, k) /\ Done(s, u)
                \/ \E j \in DOMAIN s.buf[u] : i < j /\ s.buf[u][j] = Hand(s, u, k)
    BY <2>1 DEF CellsOK, BuffersOK
  <2>2. CASE u # t
    BY <1>2, <1>4, <1>7, <2>1, <2>2
  <2>3. CASE u = t /\ i = n
    BY <1>2, <1>4, <2>3
  <2>4. CASE u = t /\ i # n
    <3>1. i \in DOMAIN s.buf[u]
      BY <1>3, <2>4
    <3>2. PICK k \in Int :
          \/ s.buf[u][i] = Hand(s, u, k)
          \/ Alone(s, u) /\ s.buf[u][i] = FrontStore(u, k)
          \/ /\ s.buf[u][i] = DataStore(u, k)
             /\ \/ OwnsNow(s, u, k) /\ Done(s, u)
                \/ \E j \in DOMAIN s.buf[u] : i < j /\ s.buf[u][j] = Hand(s, u, k)
      BY <2>1, <3>1
    <3>3. r.buf[u][i] = s.buf[u][i] /\ \A j \in DOMAIN s.buf[u] : j \in DOMAIN r.buf[u] /\ r.buf[u][j] = s.buf[u][j]
      BY <1>2, <2>4, <3>1
    <3>. QED BY <1>4, <1>7, <2>4, <3>2, <3>3
  <2>. QED BY <2>2, <2>3, <2>4
<1>11. ClaimsOK(r)
  <2>1. \A u \in QueueThreads : r.at[u] = "claim" => s.at[u] = "claim"
    BY DEF CellPlaces
  <2>. QED BY <1>4, <1>8, <2>1 DEF CellsOK, ClaimsOK, Appended
<1>12. FrontsOK(r)
  <2>1. q = Seen(s, t, Edge(t))
    <3>1. s.pos[t] = q
      BY DEF OwnsNow
    <3>. QED BY <3>1 DEF CellsOK, FrontsOK
  <2>2. /\ s.mem[Edge(t)] < q + 1 /\ \A i \in Waits(s, t, Edge(t)) : s.buf[t][i][2] < q + 1
    BY <2>1, FrontSeen
  <2>3. r.mem = s.mem /\ r.kind = s.kind
    BY DEF Appended, SameQueue
  <2>4. ASSUME NEW u \in QueueThreads, Alone(s, u)
        PROVE  /\ Choosing(s, u) => s.pos[u] = Seen(s, u, Edge(u))
               /\ \A i \in Waits(s, u, Edge(u)) :
                    /\ s.mem[Edge(u)] < s.buf[u][i][2]
                    /\ \A j \in Waits(s, u, Edge(u)) : i < j => s.buf[u][i][2] < s.buf[u][j][2]
    BY <2>4 DEF CellsOK, FrontsOK
  <2>5. ASSUME NEW u \in QueueThreads, Alone(r, u)
        PROVE  /\ Choosing(r, u) => r.pos[u] = Seen(r, u, Edge(u))
               /\ \A i \in Waits(r, u, Edge(u)) :
                    /\ r.mem[Edge(u)] < r.buf[u][i][2]
                    /\ \A j \in Waits(r, u, Edge(u)) : i < j => r.buf[u][i][2] < r.buf[u][j][2]
    <3>1. Alone(s, u)
      BY <1>4, <2>5
    <3>2. CASE u # t
      <4>1. Choosing(r, u) => Choosing(s, u)
        BY <3>2 DEF Choosing, SameQueue
      <4>. QED BY <1>2, <2>3, <2>4, <3>1, <3>2, <4>1
    <3>3. CASE u = t
      <4>1. r.buf[t][n][2] = q + 1
        BY <1>1, <1>2
      <4>2. Waits(s, t, Edge(t)) \subseteq 1 .. n - 1 /\ \A i \in 1 .. n - 1 : r.buf[t][i] = s.buf[t][i]
        BY <1>2, <1>3 DEF Waits
      <4>3. \A i \in Waits(r, t, Edge(t)) : i = n \/ (i \in Waits(s, t, Edge(t)) /\ i \in 1 .. n - 1)
        BY <1>2, <4>2
      <4>4. \A i \in Waits(r, t, Edge(t)) : r.mem[Edge(t)] < r.buf[t][i][2]
        BY <2>2, <2>3, <2>4, <3>1, <3>3, <4>1, <4>2, <4>3
      <4>5. \A i, j \in Waits(r, t, Edge(t)) : i < j => r.buf[t][i][2] < r.buf[t][j][2]
        <5>. SUFFICES ASSUME NEW i \in Waits(r, t, Edge(t)), NEW j \in Waits(r, t, Edge(t)), i < j
                      PROVE  r.buf[t][i][2] < r.buf[t][j][2]
          OBVIOUS
        <5>1. i # n
          BY <1>3, <4>3
        <5>2. i \in Waits(s, t, Edge(t)) /\ r.buf[t][i] = s.buf[t][i]
          BY <4>2, <4>3, <5>1
        <5>3. CASE j = n
          BY <2>2, <4>1, <5>2, <5>3
        <5>4. CASE j # n
          <6>1. j \in Waits(s, t, Edge(t)) /\ r.buf[t][j] = s.buf[t][j]
            BY <4>2, <4>3, <5>4
          <6>. QED BY <2>4, <3>1, <3>3, <5>2, <6>1
        <5>. QED BY <5>3, <5>4
      <4>. QED BY <3>3, <4>4, <4>5
    <3>. QED BY <3>2, <3>3
  <2>. QED BY <2>3, <2>5 DEF FrontsOK
<1>13. ItemsWhole(r)
  <2>1. \A u \in QueueThreads, k \in Int : Seen(r, u, Data(k)) = Seen(s, u, Data(k))
    BY <1>2, LocationsApart DEF Edge
  <2>. QED BY <1>4, <1>8, <2>1 DEF CellsOK, ItemsWhole, Appended
<1>. QED BY <1>9, <1>10, <1>11, <1>12, <1>13 DEF CellsOK

(* The store that hands the position over goes into the buffer, and the      *)
(* owner goes on.                                                            *)
LEMMA HandKeeps ==
  ASSUME NEW s, NEW r, CellsOK(s), ViewTypes(r), SameQueue(s, r),
         NEW t \in QueueThreads, NEW q \in Int, OwnsNow(s, t, q), Done(s, t), r.at[t] = "notify", r.pos[t] = 0,
         s.kind = "SPSC" => Choosing(s, t),
         \A u \in QueueThreads \ {t} : r.at[u] = s.at[u] /\ r.pos[u] = s.pos[u],
         Appended(s, r, t, Hand(s, t, q))
  PROVE  CellsOK(r)
<1> DEFINE n == Len(s.buf[t]) + 1
<1> DEFINE l == Hand(s, t, q)[1]
<1>1. /\ ViewTypes(s) /\ Hand(s, t, q) = <<l, Hand(s, t, q)[2]>> /\ l \in Locations /\ Hand(s, t, q)[2] \in Int
      /\ s.mem \in [Locations -> Int]
  <2>1. Hand(s, t, q) \in Locations \X Int
    BY HandIs
  <2>2. ViewTypes(s) /\ s.mem \in [Locations -> Int]
    BY DEF CellsOK, ViewTypes
  <2>. QED BY <2>1, <2>2
<1>2. l = IF s.kind = "SPSC" THEN Edge(t) ELSE Sequence(q)
  BY DEF Hand, FrontStore
<1>. HIDE DEF l
<1>3. /\ Len(r.buf[t]) = n /\ r.buf[t][n] = Hand(s, t, q)
      /\ \A i \in DOMAIN s.buf[t] : i \in DOMAIN r.buf[t] /\ r.buf[t][i] = s.buf[t][i]
      /\ \A u \in QueueThreads \ {t} : r.buf[u] = s.buf[u]
      /\ Seen(r, t, l) = Hand(s, t, q)[2] /\ Waits(r, t, l) = Waits(s, t, l) \union {n}
      /\ \A k : k # l => Seen(r, t, k) = Seen(s, t, k) /\ Waits(r, t, k) = Waits(s, t, k)
      /\ \A u \in QueueThreads \ {t} : \A k : Seen(r, u, k) = Seen(s, u, k) /\ Waits(r, u, k) = Waits(s, u, k)
  <2>1. PICK v \in Int : v = Hand(s, t, q)[2]
    BY <1>1
  <2>2. Hand(s, t, q) = <<l, v>>
    BY <1>1, <2>1
  <2>3. Appended(s, r, t, <<l, v>>)
    BY <2>2
  <2>. QED BY <1>1, <2>1, <2>2, <2>3, AppendSeen
<1>4. /\ Len(s.buf[t]) \in Nat /\ DOMAIN s.buf[t] = 1 .. n - 1 /\ DOMAIN r.buf[t] = 1 .. n
      /\ \A i \in 1 .. n : i \in 1 .. n - 1 \/ i = n
      /\ n \in 1 .. n /\ n \notin 1 .. n - 1 /\ \A i \in 1 .. n - 1 : i < n
  <2>1. /\ Len(s.buf[t]) \in Nat /\ DOMAIN s.buf[t] = 1 .. Len(s.buf[t])
        /\ DOMAIN r.buf[t] = 1 .. Len(r.buf[t])
    BY <1>1, SeenIs
  <2>. QED BY <1>3, <2>1
<1>. HIDE DEF n
<1>5. /\ \A u : Alone(r, u) <=> Alone(s, u)
      /\ \A u, k : Hand(r, u, k) = Hand(s, u, k)
      /\ \A u, k : Avail(r, u, k) <=> Avail(s, u, k)
  BY DEF Alone, Hand, SameQueue, Avail, Appended
<1>6. \A k \in Int : Hand(s, t, k) = Hand(s, t, q) => k = q
  BY HandIs
<1>7. \A u \in QueueThreads, k \in Int : OwnsStill(r, u, k) <=> OwnsStill(s, u, k) \/ (u = t /\ k = q)
  <2>1. ASSUME NEW k \in Int PROVE OwnsStill(r, t, k) <=> OwnsStill(s, t, k) \/ k = q
    <3>1. ASSUME OwnsStill(r, t, k), k # q PROVE OwnsStill(s, t, k)
      <4>1. PICK i \in DOMAIN r.buf[t] : r.buf[t][i] = Hand(r, t, k)
        BY <3>1 DEF OwnsStill
      <4>2. r.buf[t][i] = Hand(s, t, k)
        BY <1>5, <4>1
      <4>3. i # n
        BY <1>3, <1>6, <3>1, <4>2
      <4>4. i \in DOMAIN s.buf[t] /\ s.buf[t][i] = Hand(s, t, k)
        BY <1>3, <1>4, <4>1, <4>2, <4>3
      <4>. QED BY <4>4 DEF OwnsStill
    <3>2. ASSUME OwnsStill(s, t, k) PROVE OwnsStill(r, t, k)
      <4>1. PICK i \in DOMAIN s.buf[t] : s.buf[t][i] = Hand(s, t, k)
        BY <3>2 DEF OwnsStill
      <4>2. i \in DOMAIN r.buf[t] /\ r.buf[t][i] = Hand(r, t, k)
        BY <1>3, <1>5, <4>1
      <4>. QED BY <4>2 DEF OwnsStill
    <3>3. OwnsStill(r, t, q)
      BY <1>3, <1>4, <1>5 DEF OwnsStill
    <3>. QED BY <3>1, <3>2, <3>3
  <2>2. ASSUME NEW k \in Int, NEW u \in QueueThreads \ {t} PROVE OwnsStill(r, u, k) <=> OwnsStill(s, u, k)
    BY <1>3, <1>5 DEF OwnsStill
  <2>. QED BY <2>1, <2>2
<1>8. /\ \A u \in QueueThreads \ {t}, k \in Int : OwnsNow(r, u, k) <=> OwnsNow(s, u, k)
      /\ \A k \in Int : ~OwnsNow(r, t, k) /\ (OwnsNow(s, t, k) <=> k = q)
      /\ \A u \in QueueThreads \ {t} : Done(r, u) <=> Done(s, u)
  BY DEF OwnsNow, Done, SameQueue, CellPlaces
<1>9. /\ \A u \in QueueThreads, k \in Int : Owns(r, u, k) <=> Owns(s, u, k)
      /\ \A u \in QueueThreads, k \in Int : Touched(r, u, k) <=> Touched(s, u, k)
  BY <1>7, <1>8 DEF Owns, Touched
<1>10. ~OwnsStill(s, t, q)
  BY DEF CellsOK, OwnedOnce, Owns
<1>11. OwnedOnce(r)
  <2>. SUFFICES ASSUME NEW u \in QueueThreads, NEW k \in Int, Owns(r, u, k)
                PROVE  /\ Avail(r, u, k)
                       /\ \A v \in QueueThreads : SameSide(u, v) /\ Owns(r, v, k) => u = v
                       /\ OwnsNow(r, u, k) => ~OwnsStill(r, u, k)
                       /\ \A i, j \in DOMAIN r.buf[u] : r.buf[u][i] = Hand(r, u, k) /\ r.buf[u][j] = Hand(r, u, k) => i = j
    BY DEF OwnedOnce
  <2>1. /\ Avail(s, u, k)
        /\ \A v \in QueueThreads : SameSide(u, v) /\ Owns(s, v, k) => u = v
        /\ OwnsNow(s, u, k) => ~OwnsStill(s, u, k)
        /\ \A i, j \in DOMAIN s.buf[u] : s.buf[u][i] = Hand(s, u, k) /\ s.buf[u][j] = Hand(s, u, k) => i = j
    BY <1>9 DEF OwnedOnce, CellsOK
  <2>2. OwnsNow(r, u, k) => ~OwnsStill(r, u, k)
    BY <1>7, <1>8, <2>1
  <2>3. CASE u # t
    BY <1>3, <1>5, <1>9, <2>1, <2>2, <2>3
  <2>4. CASE u = t /\ k # q
    <3>1. r.buf[t][n] # Hand(s, t, k)
      BY <1>3, <1>6, <2>4
    <3>2. \A i \in DOMAIN r.buf[t] : r.buf[t][i] = Hand(s, t, k) => i \in DOMAIN s.buf[t] /\ s.buf[t][i] = Hand(s, t, k)
      BY <1>3, <1>4, <3>1
    <3>. QED BY <1>5, <1>9, <2>1, <2>2, <2>4, <3>2
  <2>5. CASE u = t /\ k = q
    <3>1. \A i \in DOMAIN r.buf[t] : r.buf[t][i] = Hand(s, t, q) => i = n
      BY <1>3, <1>4, <1>10 DEF OwnsStill
    <3>. QED BY <1>5, <1>9, <2>1, <2>2, <2>5, <3>1
  <2>. QED BY <2>3, <2>4, <2>5
<1>12. BuffersOK(r)
  <2>. SUFFICES ASSUME NEW u \in QueueThreads, NEW i \in DOMAIN r.buf[u]
                PROVE  \E k \in Int :
                         \/ r.buf[u][i] = Hand(r, u, k)
                         \/ Alone(r, u) /\ r.buf[u][i] = FrontStore(u, k)
                         \/ /\ r.buf[u][i] = DataStore(u, k)
                            /\ \/ OwnsNow(r, u, k) /\ Done(r, u)
                               \/ \E j \in DOMAIN r.buf[u] : i < j /\ r.buf[u][j] = Hand(r, u, k)
    BY DEF BuffersOK
  <2>1. ASSUME i \in DOMAIN s.buf[u]
        PROVE  \E k \in Int :
          \/ s.buf[u][i] = Hand(s, u, k)
          \/ Alone(s, u) /\ s.buf[u][i] = FrontStore(u, k)
          \/ /\ s.buf[u][i] = DataStore(u, k)
             /\ \/ OwnsNow(s, u, k) /\ Done(s, u)
                \/ \E j \in DOMAIN s.buf[u] : i < j /\ s.buf[u][j] = Hand(s, u, k)
    BY <2>1 DEF CellsOK, BuffersOK
  <2>2. CASE u # t
    BY <1>3, <1>5, <1>8, <2>1, <2>2
  <2>3. CASE u = t /\ i = n
    BY <1>3, <1>5, <2>3
  <2>4. CASE u = t /\ i # n
    <3>1. i \in DOMAIN s.buf[u] /\ i < n
      BY <1>4, <2>4
    <3>2. PICK k \in Int :
          \/ s.buf[u][i] = Hand(s, u, k)
          \/ Alone(s, u) /\ s.buf[u][i] = FrontStore(u, k)
          \/ /\ s.buf[u][i] = DataStore(u, k)
             /\ \/ OwnsNow(s, u, k) /\ Done(s, u)
                \/ \E j \in DOMAIN s.buf[u] : i < j /\ s.buf[u][j] = Hand(s, u, k)
      BY <2>1, <3>1
    <3>3. r.buf[u][i] = s.buf[u][i] /\ \A j \in DOMAIN s.buf[u] : j \in DOMAIN r.buf[u] /\ r.buf[u][j] = s.buf[u][j]
      BY <1>3, <2>4, <3>1
    <3>4. CASE s.buf[u][i] = DataStore(u, k) /\ OwnsNow(s, u, k)
      <4>1. k = q /\ n \in DOMAIN r.buf[u] /\ r.buf[u][n] = Hand(r, u, k)
        BY <1>3, <1>4, <1>5, <1>8, <2>4, <3>4
      <4>. QED BY <3>1, <3>3, <3>4, <4>1
    <3>5. CASE ~(s.buf[u][i] = DataStore(u, k) /\ OwnsNow(s, u, k))
      BY <1>5, <2>4, <3>2, <3>3, <3>5
    <3>. QED BY <3>4, <3>5
  <2>. QED BY <2>2, <2>3, <2>4
<1>13. ClaimsOK(r)
  <2>. SUFFICES ASSUME NEW u \in QueueThreads, ~Alone(s, u)
                PROVE  /\ 0 <= s.mem[Edge(u)] /\ r.pos[u] <= s.mem[Edge(u)]
                       /\ \A k \in Int : Owns(s, u, k) => k < s.mem[Edge(u)]
                       /\ r.at[u] = "claim" /\ r.pos[u] = s.mem[Edge(u)] =>
                            s.mem[Sequence(r.pos[u])] = Expected(u, r.pos[u])
    BY <1>5, <1>9 DEF ClaimsOK, Appended
  <2>1. /\ 0 <= s.mem[Edge(u)] /\ s.pos[u] <= s.mem[Edge(u)]
        /\ \A k \in Int : Owns(s, u, k) => k < s.mem[Edge(u)]
        /\ s.at[u] = "claim" /\ s.pos[u] = s.mem[Edge(u)] =>
             s.mem[Sequence(s.pos[u])] = Expected(u, s.pos[u])
    BY DEF CellsOK, ClaimsOK
  <2>2. CASE u = t
    BY <2>1, <2>2
  <2>3. CASE u # t
    BY <2>1, <2>3
  <2>. QED BY <2>2, <2>3
<1>14. FrontsOK(r)
  <2>1. r.mem = s.mem /\ r.kind = s.kind
    BY DEF Appended, SameQueue
  <2>2. ASSUME NEW u \in QueueThreads, Alone(s, u)
        PROVE  /\ Choosing(s, u) => s.pos[u] = Seen(s, u, Edge(u))
               /\ \A i \in Waits(s, u, Edge(u)) :
                    /\ s.mem[Edge(u)] < s.buf[u][i][2]
                    /\ \A j \in Waits(s, u, Edge(u)) : i < j => s.buf[u][i][2] < s.buf[u][j][2]
               /\ s.kind = "SPSC" =>
                    \A k \in Int : s.mem[Edge(u)] <= k /\ k < Seen(s, u, Edge(u)) => OwnsStill(s, u, k)
    BY <2>2 DEF CellsOK, FrontsOK
  <2>3. s.kind = "SPSC" => s.mem[Dequeue] <= s.mem[Enqueue] /\ s.mem[Enqueue] <= s.mem[Dequeue] + Capacity
    BY DEF CellsOK, FrontsOK
  <2>4. ASSUME NEW u \in QueueThreads, Alone(r, u)
        PROVE  /\ Choosing(r, u) => r.pos[u] = Seen(r, u, Edge(u))
               /\ \A i \in Waits(r, u, Edge(u)) :
                    /\ r.mem[Edge(u)] < r.buf[u][i][2]
                    /\ \A j \in Waits(r, u, Edge(u)) : i < j => r.buf[u][i][2] < r.buf[u][j][2]
               /\ r.kind = "SPSC" =>
                    \A k \in Int : r.mem[Edge(u)] <= k /\ k < Seen(r, u, Edge(u)) => OwnsStill(r, u, k)
    <3>1. Alone(s, u)
      BY <1>5, <2>4
    <3>2. CASE u # t
      <4>1. Choosing(r, u) => Choosing(s, u)
        BY <3>2 DEF Choosing, SameQueue
      <4>. QED BY <1>3, <1>7, <2>1, <2>2, <3>1, <3>2, <4>1
    <3>3. CASE u = t /\ s.kind # "SPSC"
      <4>1. ~Choosing(r, u)
        BY <3>3 DEF Choosing
      <4>2. l # Edge(t)
        BY <1>2, <3>3, LocationsApart DEF Edge
      <4>3. Waits(r, u, Edge(u)) = Waits(s, u, Edge(u))
        BY <1>3, <3>3, <4>2
      <4>4. \A i \in Waits(s, u, Edge(u)) : r.buf[u][i] = s.buf[u][i]
        BY <1>3, <3>3 DEF Waits
      <4>. QED BY <2>1, <2>2, <3>1, <3>3, <4>1, <4>3, <4>4
    <3>4. CASE u = t /\ s.kind = "SPSC"
      <4>0. ~Choosing(r, u)
        BY <3>4 DEF Choosing
      <4>1. l = Edge(t) /\ Hand(s, t, q)[2] = q + 1 /\ r.buf[t][n][2] = q + 1
        BY <1>2, <1>3, <3>4, HandIs
      <4>2. q = Seen(s, t, Edge(t))
        BY <2>2, <3>1, <3>4 DEF OwnsNow
      <4>3. s.mem[Edge(t)] < q + 1 /\ \A i \in Waits(s, t, Edge(t)) : s.buf[t][i][2] < q + 1
        BY <4>2, FrontSeen
      <4>4. Waits(s, t, Edge(t)) \subseteq 1 .. n - 1 /\ \A i \in 1 .. n - 1 : r.buf[t][i] = s.buf[t][i]
        BY <1>3, <1>4 DEF Waits
      <4>5. \A i \in Waits(r, t, Edge(t)) : i = n \/ (i \in Waits(s, t, Edge(t)) /\ i \in 1 .. n - 1)
        BY <1>3, <4>1, <4>4
      <4>6. \A i \in Waits(r, t, Edge(t)) : r.mem[Edge(t)] < r.buf[t][i][2]
        BY <2>1, <2>2, <3>1, <3>4, <4>1, <4>3, <4>4, <4>5
      <4>7. \A i, j \in Waits(r, t, Edge(t)) : i < j => r.buf[t][i][2] < r.buf[t][j][2]
        <5>. SUFFICES ASSUME NEW i \in Waits(r, t, Edge(t)), NEW j \in Waits(r, t, Edge(t)), i < j
                      PROVE  r.buf[t][i][2] < r.buf[t][j][2]
          OBVIOUS
        <5>0. n \in Int
          BY <1>4
        <5>1. i # n
          BY <1>4, <4>5, <5>0
        <5>2. i \in Waits(s, t, Edge(t)) /\ r.buf[t][i] = s.buf[t][i]
          BY <4>4, <4>5, <5>1
        <5>3. CASE j = n
          BY <4>1, <4>3, <5>2, <5>3
        <5>4. CASE j # n
          <6>1. j \in Waits(s, t, Edge(t)) /\ r.buf[t][j] = s.buf[t][j]
            BY <4>4, <4>5, <5>4
          <6>. QED BY <2>2, <3>1, <3>4, <5>2, <6>1
        <5>. QED BY <5>3, <5>4
      <4>8. \A k \in Int : r.mem[Edge(t)] <= k /\ k < Seen(r, t, Edge(t)) => OwnsStill(r, t, k)
        <5>1. Seen(r, t, Edge(t)) = q + 1
          BY <1>3, <4>1
        <5>2. \A k \in Int : k < q + 1 => k < q \/ k = q
          OBVIOUS
        <5>. QED BY <1>7, <2>1, <2>2, <3>1, <3>4, <4>2, <5>1, <5>2
      <4>. QED BY <3>4, <4>0, <4>6, <4>7, <4>8
    <3>. QED BY <3>2, <3>3, <3>4
  <2>. QED BY <2>1, <2>3, <2>4 DEF FrontsOK
<1>15. ItemsWhole(r)
  <2>1. \A u \in QueueThreads, k \in Int : Seen(r, u, Data(k)) = Seen(s, u, Data(k))
    <3>1. \A k \in Int : Data(k) # l
      BY <1>2, LocationsApart DEF Edge
    <3>. QED BY <1>3, <3>1
  <2>. QED BY <1>5, <1>9, <2>1 DEF CellsOK, ItemsWhole, Appended
<1>. QED BY <1>11, <1>12, <1>13, <1>14, <1>15 DEF CellsOK

(* A store comes to memory.  What that does whatever store it is.            *)
FlushOnly(s, r, t) ==
    /\ SameQueue(s, r) /\ r.at = s.at /\ r.pos = s.pos
    /\ Flushed(s, r, t)

LEMMA FlushCommon ==
  ASSUME NEW s, NEW r, CellsOK(s), ViewTypes(r), NEW t \in QueueThreads, FlushOnly(s, r, t)
  PROVE  /\ \A u : Alone(r, u) <=> Alone(s, u)
         /\ \A u, k : Hand(r, u, k) = Hand(s, u, k)
         /\ \A u \in QueueThreads, k \in Int :
              /\ OwnsNow(r, u, k) <=> OwnsNow(s, u, k)
              /\ Done(r, u) <=> Done(s, u)
              /\ OwnsStill(r, u, k) <=> OwnsStill(s, u, k) /\ ~(u = t /\ s.buf[t][1] = Hand(s, t, k))
              /\ \A i, j \in DOMAIN r.buf[u] :
                   Owns(s, u, k) /\ r.buf[u][i] = Hand(r, u, k) /\ r.buf[u][j] = Hand(r, u, k) => i = j
         /\ BuffersOK(r)
<1> DEFINE n == Len(s.buf[t])
<1>1. /\ ViewTypes(s) /\ Flushed(s, r, t)
      /\ \A u : Alone(r, u) <=> Alone(s, u)
      /\ \A u, k : Hand(r, u, k) = Hand(s, u, k)
  BY DEF CellsOK, FlushOnly, Alone, Hand, SameQueue
<1>2. /\ n >= 1 /\ Len(r.buf[t]) = n - 1
      /\ \A i \in DOMAIN r.buf[t] : i + 1 \in DOMAIN s.buf[t] /\ r.buf[t][i] = s.buf[t][i + 1]
      /\ \A u \in QueueThreads \ {t} : r.buf[u] = s.buf[u]
  BY <1>1, FlushSeen
<1>3. /\ n \in Nat /\ DOMAIN s.buf[t] = 1 .. n /\ DOMAIN r.buf[t] = 1 .. n - 1
  <2>1. n \in Nat /\ DOMAIN s.buf[t] = 1 .. n /\ DOMAIN r.buf[t] = 1 .. Len(r.buf[t])
    BY <1>1, SeenIs
  <2>. QED BY <1>2, <2>1
<1>. HIDE DEF n
<1>4. \A j \in DOMAIN s.buf[t] : j # 1 => /\ j - 1 \in DOMAIN r.buf[t] /\ r.buf[t][j - 1] = s.buf[t][j]
                                          /\ \A i \in 1 .. n : i + 1 < j => i < j - 1
  <2>. SUFFICES ASSUME NEW j \in 1 .. n, j # 1
                PROVE  /\ j - 1 \in 1 .. n - 1 /\ r.buf[t][j - 1] = s.buf[t][j]
                       /\ \A i \in 1 .. n : i + 1 < j => i < j - 1
    BY <1>3
  <2>1. j - 1 \in 1 .. n - 1 /\ (j - 1) + 1 = j
    BY <1>3
  <2>2. r.buf[t][j - 1] = s.buf[t][(j - 1) + 1]
    BY <1>2, <1>3, <2>1
  <2>3. \A i \in 1 .. n : i + 1 < j => i < j - 1
    BY <1>3
  <2>. QED BY <2>1, <2>2, <2>3
<1>5. ASSUME NEW u \in QueueThreads, NEW k \in Int
      PROVE  (OwnsNow(r, u, k) <=> OwnsNow(s, u, k)) /\ (Done(r, u) <=> Done(s, u))
  BY DEF OwnsNow, Done, FlushOnly, SameQueue
<1>6. ASSUME NEW k \in Int PROVE OwnsStill(r, t, k) <=> OwnsStill(s, t, k) /\ s.buf[t][1] # Hand(s, t, k)
  <2>1. ASSUME OwnsStill(r, t, k) PROVE OwnsStill(s, t, k) /\ s.buf[t][1] # Hand(s, t, k)
    <3>1. PICK i \in DOMAIN r.buf[t] : r.buf[t][i] = Hand(s, t, k)
      BY <1>1, <2>1 DEF OwnsStill
    <3>2. i + 1 \in DOMAIN s.buf[t] /\ s.buf[t][i + 1] = Hand(s, t, k) /\ i + 1 # 1
      BY <1>2, <1>3, <3>1
    <3>3. OwnsStill(s, t, k)
      BY <3>2 DEF OwnsStill
    <3>4. 1 \in DOMAIN s.buf[t]
      BY <1>2, <1>3
    <3>. QED BY <3>2, <3>3, <3>4 DEF CellsOK, OwnedOnce, Owns
  <2>2. ASSUME OwnsStill(s, t, k), s.buf[t][1] # Hand(s, t, k) PROVE OwnsStill(r, t, k)
    <3>1. PICK i \in DOMAIN s.buf[t] : s.buf[t][i] = Hand(s, t, k)
      BY <2>2 DEF OwnsStill
    <3>2. i - 1 \in DOMAIN r.buf[t] /\ r.buf[t][i - 1] = Hand(r, t, k)
      BY <1>1, <1>4, <2>2, <3>1
    <3>. QED BY <3>2 DEF OwnsStill
  <2>. QED BY <2>1, <2>2
<1>7. ASSUME NEW u \in QueueThreads \ {t}, NEW k \in Int PROVE OwnsStill(r, u, k) <=> OwnsStill(s, u, k)
  BY <1>1, <1>2 DEF OwnsStill
<1>8. ASSUME NEW u \in QueueThreads, NEW k \in Int, NEW i \in DOMAIN r.buf[u], NEW j \in DOMAIN r.buf[u],
             Owns(s, u, k), r.buf[u][i] = Hand(r, u, k), r.buf[u][j] = Hand(r, u, k)
      PROVE  i = j
  <2>1. \A a, b \in DOMAIN s.buf[u] : s.buf[u][a] = Hand(s, u, k) /\ s.buf[u][b] = Hand(s, u, k) => a = b
    BY <1>8 DEF CellsOK, OwnedOnce
  <2>2. CASE u = t
    <3>1. i + 1 \in DOMAIN s.buf[t] /\ j + 1 \in DOMAIN s.buf[t] /\ s.buf[t][i + 1] = Hand(s, t, k) /\ s.buf[t][j + 1] = Hand(s, t, k)
      BY <1>1, <1>2, <1>8, <2>2
    <3>2. i + 1 = j + 1
      BY <2>1, <2>2, <3>1
    <3>. QED BY <1>3, <2>2, <3>2
  <2>3. CASE u # t
    BY <1>1, <1>2, <1>8, <2>1, <2>3
  <2>. QED BY <2>2, <2>3
<1>9. BuffersOK(r)
  <2>. SUFFICES ASSUME NEW u \in QueueThreads, NEW i \in DOMAIN r.buf[u]
                PROVE  \E k \in Int :
                         \/ r.buf[u][i] = Hand(r, u, k)
                         \/ Alone(r, u) /\ r.buf[u][i] = FrontStore(u, k)
                         \/ /\ r.buf[u][i] = DataStore(u, k)
                            /\ \/ OwnsNow(r, u, k) /\ Done(r, u)
                               \/ \E j \in DOMAIN r.buf[u] : i < j /\ r.buf[u][j] = Hand(r, u, k)
    BY DEF BuffersOK
  <2>1. ASSUME NEW a \in DOMAIN s.buf[u]
        PROVE  \E k \in Int :
          \/ s.buf[u][a] = Hand(s, u, k)
          \/ Alone(s, u) /\ s.buf[u][a] = FrontStore(u, k)
          \/ /\ s.buf[u][a] = DataStore(u, k)
             /\ \/ OwnsNow(s, u, k) /\ Done(s, u)
                \/ \E j \in DOMAIN s.buf[u] : a < j /\ s.buf[u][j] = Hand(s, u, k)
    BY <2>1 DEF CellsOK, BuffersOK
  <2>2. CASE u # t
    BY <1>1, <1>2, <1>5, <2>1, <2>2
  <2>3. CASE u = t
    <3>1. i + 1 \in DOMAIN s.buf[t] /\ r.buf[t][i] = s.buf[t][i + 1] /\ i \in 1 .. n - 1
      BY <1>2, <1>3, <2>3
    <3>2. PICK k \in Int :
          \/ s.buf[t][i + 1] = Hand(s, t, k)
          \/ Alone(s, t) /\ s.buf[t][i + 1] = FrontStore(t, k)
          \/ /\ s.buf[t][i + 1] = DataStore(t, k)
             /\ \/ OwnsNow(s, t, k) /\ Done(s, t)
                \/ \E j \in DOMAIN s.buf[t] : i + 1 < j /\ s.buf[t][j] = Hand(s, t, k)
      BY <2>1, <2>3, <3>1
    <3>3. ASSUME NEW j \in DOMAIN s.buf[t], i + 1 < j, s.buf[t][j] = Hand(s, t, k)
          PROVE  \E m \in DOMAIN r.buf[t] : i < m /\ r.buf[t][m] = Hand(r, t, k)
      <4>1. j # 1 /\ i \in 1 .. n
        BY <1>3, <3>1, <3>3
      <4>2. j - 1 \in DOMAIN r.buf[t] /\ i < j - 1 /\ r.buf[t][j - 1] = Hand(r, t, k)
        BY <1>1, <1>4, <3>3, <4>1
      <4>. QED BY <4>2
    <3>4. r.buf[u][i] = s.buf[t][i + 1] /\ Hand(r, u, k) = Hand(s, t, k) /\ (Alone(r, u) <=> Alone(s, t))
      BY <1>1, <2>3, <3>1
    <3>5. CASE s.buf[t][i + 1] = Hand(s, t, k) \/ (Alone(s, t) /\ s.buf[t][i + 1] = FrontStore(t, k))
      BY <2>3, <3>4, <3>5
    <3>6. CASE s.buf[t][i + 1] = DataStore(t, k) /\ OwnsNow(s, t, k) /\ Done(s, t)
      BY <1>5, <2>3, <3>4, <3>6
    <3>7. CASE s.buf[t][i + 1] = DataStore(t, k) /\ \E j \in DOMAIN s.buf[t] : i + 1 < j /\ s.buf[t][j] = Hand(s, t, k)
      <4>1. \E m \in DOMAIN r.buf[t] : i < m /\ r.buf[t][m] = Hand(r, t, k)
        BY <3>3, <3>7
      <4>2. r.buf[u][i] = DataStore(u, k) /\ \E m \in DOMAIN r.buf[u] : i < m /\ r.buf[u][m] = Hand(r, u, k)
        BY <2>3, <3>4, <3>7, <4>1
      <4>. QED BY <4>2
    <3>. DEFINE later == \E j \in DOMAIN s.buf[t] : i + 1 < j /\ s.buf[t][j] = Hand(s, t, k)
    <3>8. \/ s.buf[t][i + 1] = Hand(s, t, k) \/ (Alone(s, t) /\ s.buf[t][i + 1] = FrontStore(t, k))
          \/ s.buf[t][i + 1] = DataStore(t, k) /\ OwnsNow(s, t, k) /\ Done(s, t)
          \/ s.buf[t][i + 1] = DataStore(t, k) /\ later
      BY <3>2
    <3>. QED BY <3>5, <3>6, <3>7, <3>8
  <2>. QED BY <2>2, <2>3
<1>. QED BY <1>1, <1>5, <1>6, <1>7, <1>8, <1>9

LEMMA FlushFronts ==
  ASSUME NEW s, NEW r, CellsOK(s), ViewTypes(r), NEW t \in QueueThreads, FlushOnly(s, r, t)
  PROVE  /\ \A u \in QueueThreads : s.mem[Edge(u)] <= r.mem[Edge(u)] /\ Seen(s, u, Edge(u)) <= Seen(r, u, Edge(u))
         /\ \A u \in QueueThreads : Alone(s, u) =>
              /\ Choosing(s, u) => s.pos[u] = Seen(r, u, Edge(u))
              /\ \A i \in Waits(r, u, Edge(u)) :
                   /\ r.mem[Edge(u)] < r.buf[u][i][2]
                   /\ \A j \in Waits(r, u, Edge(u)) : i < j => r.buf[u][i][2] < r.buf[u][j][2]
         /\ \A u \in QueueThreads : ~Alone(s, u) => r.mem[Edge(u)] = s.mem[Edge(u)]
         /\ \A u \in QueueThreads : u # t =>
              Seen(r, u, Edge(u)) = r.mem[Edge(u)] \/ (r.mem[Edge(u)] = s.mem[Edge(u)] /\ Seen(r, u, Edge(u)) = Seen(s, u, Edge(u)))
<1> DEFINE n == Len(s.buf[t])
           h == s.buf[t][1]
<1>1. ViewTypes(s) /\ Flushed(s, r, t)
  BY DEF CellsOK, FlushOnly
<1>2. /\ n >= 1 /\ n \in Nat /\ DOMAIN s.buf[t] = 1 .. n
      /\ \A i \in DOMAIN r.buf[t] : i + 1 \in DOMAIN s.buf[t] /\ r.buf[t][i] = s.buf[t][i + 1]
      /\ \A u \in QueueThreads \ {t} : r.buf[u] = s.buf[u]
      /\ h[1] \in Locations /\ h[2] \in Int /\ r.mem[h[1]] = h[2]
      /\ \A k \in Locations : k # h[1] => r.mem[k] = s.mem[k]
      /\ \A k \in Locations : Seen(r, t, k) = Seen(s, t, k)
      /\ \A k, i : i \in Waits(r, t, k) <=> i \in 1 .. n - 1 /\ i + 1 \in Waits(s, t, k)
      /\ \A u \in QueueThreads \ {t} : \A k : Waits(r, u, k) = Waits(s, u, k)
      /\ \A u \in QueueThreads \ {t}, k \in Locations : k # h[1] => Seen(r, u, k) = Seen(s, u, k)
  BY <1>1, FlushSeen, SeenIs
<1>. HIDE DEF n, h
<1>3. ASSUME NEW u \in QueueThreads, Edge(u) = h[1]
      PROVE  /\ SameSide(t, u) /\ Alone(s, t) /\ Alone(s, u) /\ 1 \in Waits(s, t, Edge(t)) /\ Edge(u) = Edge(t)
             /\ s.mem[Edge(u)] < h[2]
  <2>1. 1 \in DOMAIN s.buf[t] /\ 1 \in Waits(s, t, Edge(u))
    BY <1>2, <1>3 DEF Waits, h
  <2>2. SameSide(t, u) /\ Alone(s, t)
    BY <2>1, WaitsKinds
  <2>3. Edge(u) = Edge(t) /\ Alone(s, u)
    BY <2>2 DEF SameSide, Edge, Alone
  <2>. QED BY <2>1, <2>2, <2>3 DEF CellsOK, FrontsOK, h
<1>4. \A u : Edge(u) \in Locations
  BY LocationsApart DEF Edge
<1>5. ASSUME NEW u \in QueueThreads
      PROVE  s.mem[Edge(u)] \in Int /\ r.mem[Edge(u)] \in Int /\ s.mem[Edge(u)] <= r.mem[Edge(u)]
  <2>1. s.mem[Edge(u)] \in Int /\ r.mem[Edge(u)] \in Int
    BY <1>1, <1>4 DEF ViewTypes
  <2>. QED BY <1>2, <1>3, <1>4, <2>1
<1>6. ASSUME NEW u \in QueueThreads, u # t
      PROVE  \/ Seen(r, u, Edge(u)) = r.mem[Edge(u)] /\ Seen(s, u, Edge(u)) = s.mem[Edge(u)]
             \/ (r.mem[Edge(u)] = s.mem[Edge(u)] /\ Seen(r, u, Edge(u)) = Seen(s, u, Edge(u)))
  <2>1. CASE Edge(u) # h[1]
    BY <1>2, <1>4, <1>6, <2>1
  <2>2. CASE Edge(u) = h[1]
    <3>1. SameSide(t, u) /\ Alone(s, t)
      BY <1>3, <2>2
    <3>2. s.buf[t] # <<>> /\ t \in s.team
      BY <1>1 DEF Flushed, ViewTypes
    <3>3. u \notin s.team
      BY <1>1, <1>6, <3>1, <3>2 DEF ViewTypes
    <3>4. s.buf[u] = <<>>
      BY <1>1, <3>3 DEF ViewTypes
    <3>5. Waits(s, u, Edge(u)) = {} /\ Waits(r, u, Edge(u)) = {}
      BY <1>2, <1>6, <3>4 DEF Waits
    <3>. QED BY <3>5 DEF Seen
  <2>. QED BY <2>1, <2>2
<1>7. ASSUME NEW u \in QueueThreads PROVE Seen(s, u, Edge(u)) <= Seen(r, u, Edge(u))
  <2>1. Seen(s, u, Edge(u)) \in Int
    BY <1>1, <1>4, SeenIs
  <2>. QED BY <1>2, <1>4, <1>5, <1>6, <2>1
<1>8. ASSUME NEW u \in QueueThreads, Alone(s, u), Choosing(s, u) PROVE s.pos[u] = Seen(r, u, Edge(u))
  <2>1. s.pos[u] = Seen(s, u, Edge(u))
    BY <1>8 DEF CellsOK, FrontsOK
  <2>2. u \in s.team
    BY <1>1, <1>8 DEF Choosing, ViewTypes
  <2>3. CASE u # t /\ Edge(u) = h[1]
    <3>1. SameSide(t, u) /\ Alone(s, t)
      BY <1>3, <2>3
    <3>2. s.buf[t] # <<>> /\ t \in s.team
      BY <1>1 DEF Flushed, ViewTypes
    <3>. QED BY <1>1, <2>2, <2>3, <3>1, <3>2 DEF ViewTypes
  <2>. QED BY <1>2, <1>4, <2>1, <2>3
<1>9. ASSUME NEW u \in QueueThreads, Alone(s, u)
      PROVE  \A i \in Waits(r, u, Edge(u)) :
                   /\ r.mem[Edge(u)] < r.buf[u][i][2]
                   /\ \A j \in Waits(r, u, Edge(u)) : i < j => r.buf[u][i][2] < r.buf[u][j][2]
  <2>1. \A i \in Waits(s, u, Edge(u)) :
              /\ s.mem[Edge(u)] < s.buf[u][i][2]
              /\ \A j \in Waits(s, u, Edge(u)) : i < j => s.buf[u][i][2] < s.buf[u][j][2]
    BY <1>9 DEF CellsOK, FrontsOK
  <2>2. CASE u = t
    <3>1. ASSUME NEW i \in Waits(r, t, Edge(t))
          PROVE  i \in 1 .. n - 1 /\ i + 1 \in Waits(s, t, Edge(t)) /\ r.buf[t][i] = s.buf[t][i + 1] /\ 1 < i + 1
      <4>1. i \in 1 .. n - 1 /\ i + 1 \in Waits(s, t, Edge(t)) /\ i \in DOMAIN r.buf[t]
        BY <1>2 DEF Waits
      <4>. QED BY <1>2, <4>1
    <3>2. ASSUME NEW i \in Waits(r, t, Edge(t)) PROVE r.mem[Edge(t)] < r.buf[t][i][2]
      <4>1. CASE Edge(t) = h[1]
        <5>1. 1 \in Waits(s, t, Edge(t)) /\ r.mem[Edge(t)] = s.buf[t][1][2]
          BY <1>2, <1>3, <4>1 DEF h
        <5>. QED BY <2>1, <2>2, <3>1, <5>1
      <4>2. CASE Edge(t) # h[1]
        BY <1>2, <1>4, <2>1, <2>2, <3>1, <4>2
      <4>. QED BY <4>1, <4>2
    <3>3. ASSUME NEW i \in Waits(r, t, Edge(t)), NEW j \in Waits(r, t, Edge(t)), i < j
          PROVE  r.buf[t][i][2] < r.buf[t][j][2]
      <4>1. i + 1 < j + 1
        BY <1>2, <3>1, <3>3
      <4>. QED BY <2>1, <2>2, <3>1, <4>1
    <3>. QED BY <2>2, <3>2, <3>3
  <2>3. CASE u # t
    <3>1. CASE Edge(u) # h[1]
      BY <1>2, <1>4, <2>1, <2>3, <3>1
    <3>2. CASE Edge(u) = h[1]
      <4>1. SameSide(t, u) /\ Alone(s, t)
        BY <1>3, <3>2
      <4>2. s.buf[t] # <<>> /\ t \in s.team
        BY <1>1 DEF Flushed, ViewTypes
      <4>3. u \notin s.team
        BY <1>1, <2>3, <4>1, <4>2 DEF ViewTypes
      <4>4. s.buf[u] = <<>>
        BY <1>1, <4>3 DEF ViewTypes
      <4>5. Waits(r, u, Edge(u)) = {}
        BY <1>2, <2>3, <4>4 DEF Waits
      <4>. QED BY <4>5
    <3>. QED BY <3>1, <3>2
  <2>. QED BY <2>2, <2>3
<1>10. ASSUME NEW u \in QueueThreads, ~Alone(s, u) PROVE r.mem[Edge(u)] = s.mem[Edge(u)]
  BY <1>2, <1>3, <1>4, <1>10
<1>. QED BY <1>5, <1>6, <1>7, <1>8, <1>9, <1>10

(* What is available once t has handed q over: its side has lost that        *)
(* position, and the other side has won the one that shares its cell.        *)
Handed(t, q) == IF t \in Producers THEN q ELSE q + Capacity

LEMMA HandedOver ==
  ASSUME NEW s, NEW r, CellsOK(s), ViewTypes(r), NEW t \in QueueThreads, FlushOnly(s, r, t),
         NEW q \in Int, s.buf[t][1] = Hand(s, t, q)
  PROVE  /\ Avail(s, t, q)
         /\ \A k \in Int : r.mem[Data(k)] = s.mem[Data(k)]
         /\ s.kind = "SPSC" => q = s.mem[Edge(t)]
         /\ \A u \in QueueThreads, k \in Int :
              Avail(r, u, k) <=> \/ Avail(s, u, k) /\ ~(SameSide(u, t) /\ k = q)
                                 \/ ~SameSide(u, t) /\ k = Handed(t, q)
<1>1. /\ ViewTypes(s) /\ Flushed(s, r, t) /\ r.kind = s.kind
  BY DEF CellsOK, FlushOnly, SameQueue
<1>2. Capacity \in Nat /\ Capacity >= 2
  BY QueueConstants
<1> DEFINE l == IF s.kind = "SPSC" THEN Edge(t) ELSE Sequence(q)
           v == IF s.kind = "SPSC" THEN q + 1 ELSE Following(t, q)
<1>3. /\ l \in Locations /\ r.mem[l] = v /\ \A k \in Locations : k # l => r.mem[k] = s.mem[k]
      /\ 1 \in DOMAIN s.buf[t]
  <2>1. s.buf[t][1][1] = l /\ s.buf[t][1][2] = v
    BY DEF Hand, FrontStore
  <2>2. Len(s.buf[t]) >= 1 /\ Len(s.buf[t]) \in Nat /\ DOMAIN s.buf[t] = 1 .. Len(s.buf[t])
    BY <1>1, FlushSeen, SeenIs
  <2>. HIDE DEF l, v
  <2>. QED BY <1>1, <2>1, <2>2, FlushSeen
<1>4. OwnsStill(s, t, q) /\ Owns(s, t, q) /\ Avail(s, t, q)
  <2>1. OwnsStill(s, t, q)
    BY <1>3 DEF OwnsStill
  <2>. QED BY <2>1 DEF Owns, CellsOK, OwnedOnce
<1>5. \A k \in Int : r.mem[Data(k)] = s.mem[Data(k)]
  <2>1. \A k \in Int : Data(k) \in Locations /\ Data(k) # l
    BY LocationsApart DEF Edge
  <2>. QED BY <1>3, <2>1
<1>6. CASE s.kind = "SPSC"
  <2>0. s.mem[Dequeue] \in Int /\ s.mem[Enqueue] \in Int /\ Enqueue # Dequeue /\ Enqueue \in Locations /\ Dequeue \in Locations
    BY <1>1, LocationsApart DEF ViewTypes
  <2>1. s.mem[Dequeue] <= s.mem[Enqueue] /\ s.mem[Enqueue] <= s.mem[Dequeue] + Capacity
    BY <1>6 DEF CellsOK, FrontsOK
  <2>2. q = s.mem[Edge(t)]
    <3>1. s.mem[Edge(t)] <= q /\ s.mem[Edge(t)] \in Int
      BY <1>4, <1>6, <2>0 DEF Avail, Edge
    <3>2. Alone(s, t) /\ 1 \in Waits(s, t, Edge(t)) /\ s.buf[t][1][2] = q + 1
      BY <1>3, <1>6 DEF Alone, Waits, Hand, FrontStore
    <3>3. q + 1 <= Seen(s, t, Edge(t)) /\ Seen(s, t, Edge(t)) \in Int
      BY <3>2, FrontSeen
    <3>4. ASSUME s.mem[Edge(t)] < q PROVE FALSE
      <4> DEFINE m == s.mem[Edge(t)]
      <4>1. OwnsStill(s, t, m)
        BY <1>6, <3>1, <3>2, <3>3, <3>4 DEF CellsOK, FrontsOK
      <4>2. PICK j \in DOMAIN s.buf[t] : s.buf[t][j] = Hand(s, t, m)
        BY <4>1 DEF OwnsStill
      <4>3. s.buf[t][j][1] = Edge(t) /\ s.buf[t][j][2] = m + 1
        BY <1>6, <4>2 DEF Hand, FrontStore
      <4>4. j \in Waits(s, t, Edge(t)) /\ j # 1
        BY <3>1, <3>2, <3>4, <4>3 DEF Waits
      <4>5. 1 < j
        BY <1>1, <4>4, SeenIs
      <4>6. q + 1 < m + 1
        BY <3>2, <4>3, <4>4, <4>5 DEF CellsOK, FrontsOK
      <4>. QED BY <3>1, <3>4, <4>6
    <3>. QED BY <3>1, <3>4
  <2>3. CASE t \in Producers
    <3>1. r.mem[Enqueue] = q + 1 /\ r.mem[Dequeue] = s.mem[Dequeue] /\ q = s.mem[Enqueue]
      BY <1>3, <1>6, <2>0, <2>2, <2>3 DEF Edge
    <3>2. ASSUME NEW u \in QueueThreads, NEW k \in Int
          PROVE  Avail(r, u, k) <=> \/ Avail(s, u, k) /\ ~(SameSide(u, t) /\ k = q)
                                    \/ ~SameSide(u, t) /\ k = Handed(t, q)
      <4>1. CASE u \in Producers
        BY <1>1, <1>2, <1>6, <2>0, <2>1, <2>3, <3>1, <4>1 DEF Avail, SameSide, Handed
      <4>2. CASE u \notin Producers
        BY <1>1, <1>2, <1>6, <2>0, <2>1, <2>3, <3>1, <4>2 DEF Avail, SameSide, Handed
      <4>. QED BY <4>1, <4>2
    <3>. QED BY <1>4, <1>5, <2>2, <3>2
  <2>4. CASE t \notin Producers
    <3>1. r.mem[Dequeue] = q + 1 /\ r.mem[Enqueue] = s.mem[Enqueue] /\ q = s.mem[Dequeue]
      BY <1>3, <1>6, <2>0, <2>2, <2>4 DEF Edge
    <3>2. ASSUME NEW u \in QueueThreads, NEW k \in Int
          PROVE  Avail(r, u, k) <=> \/ Avail(s, u, k) /\ ~(SameSide(u, t) /\ k = q)
                                    \/ ~SameSide(u, t) /\ k = Handed(t, q)
      <4>1. CASE u \in Producers
        BY <1>1, <1>2, <1>6, <2>0, <2>1, <2>4, <3>1, <4>1 DEF Avail, SameSide, Handed
      <4>2. CASE u \notin Producers
        BY <1>1, <1>2, <1>6, <2>0, <2>1, <2>4, <3>1, <4>2 DEF Avail, SameSide, Handed
      <4>. QED BY <4>1, <4>2
    <3>. QED BY <1>4, <1>5, <2>2, <3>2
  <2>. QED BY <2>3, <2>4
<1>7. CASE s.kind # "SPSC"
  <2>. SUFFICES ASSUME NEW u \in QueueThreads, NEW k \in Int
                PROVE  Avail(r, u, k) <=> \/ Avail(s, u, k) /\ ~(SameSide(u, t) /\ k = q)
                                          \/ ~SameSide(u, t) /\ k = Handed(t, q)
    BY <1>4, <1>5, <1>7
  <2>1. /\ Avail(r, u, k) <=> r.mem[Sequence(k)] = Expected(u, k)
        /\ Avail(s, u, k) <=> s.mem[Sequence(k)] = Expected(u, k)
    BY <1>1, <1>7 DEF Avail
  <2>2. CASE k % Capacity # q % Capacity
    <3>1. r.mem[Sequence(k)] = s.mem[Sequence(k)]
      BY <1>3, <1>7, <2>2, LocationsApart
    <3>2. k # q /\ k # Handed(t, q)
      BY <2>2, SameCell DEF Handed
    <3>. QED BY <2>1, <3>1, <3>2
  <2>3. CASE k % Capacity = q % Capacity
    <3>1. Avail(s, u, k) => SameSide(u, t) /\ k = q
      BY <1>4, <2>3, OwnedApart
    <3>2. r.mem[Sequence(k)] = Following(t, q)
      BY <1>3, <1>7, <2>3, LocationsApart
    <3>3. (q <= k => q = k \/ q + Capacity <= k) /\ (k <= q => k = q \/ k + Capacity <= q)
      BY <2>3, SameCell
    <3>4. Following(t, q) = Expected(u, k) <=> ~SameSide(u, t) /\ k = Handed(t, q)
      <4>1. CASE t \in Producers /\ u \in Producers
        BY <1>2, <3>3, <4>1 DEF Following, Expected, SameSide, Handed
      <4>2. CASE t \in Producers /\ u \notin Producers
        BY <1>2, <3>3, <4>2 DEF Following, Expected, SameSide, Handed
      <4>3. CASE t \notin Producers /\ u \in Producers
        BY <1>2, <3>3, <4>3 DEF Following, Expected, SameSide, Handed
      <4>4. CASE t \notin Producers /\ u \notin Producers
        BY <1>2, <3>3, <4>4 DEF Following, Expected, SameSide, Handed
      <4>. QED BY <4>1, <4>2, <4>3, <4>4
    <3>. QED BY <2>1, <3>1, <3>2, <3>4
  <2>. QED BY <2>2, <2>3
<1>. QED BY <1>6, <1>7

LEMMA FlushHand ==
  ASSUME NEW s, NEW r, CellsOK(s), ViewTypes(r), NEW t \in QueueThreads, FlushOnly(s, r, t),
         NEW q \in Int, s.buf[t][1] = Hand(s, t, q)
  PROVE  CellsOK(r)
<1>1. /\ ViewTypes(s) /\ Flushed(s, r, t) /\ r.kind = s.kind /\ r.at = s.at /\ r.pos = s.pos
  BY DEF CellsOK, FlushOnly, SameQueue
<1>2. 1 \in DOMAIN s.buf[t]
  <2>1. Len(s.buf[t]) >= 1 /\ Len(s.buf[t]) \in Nat /\ DOMAIN s.buf[t] = 1 .. Len(s.buf[t])
    BY <1>1, FlushSeen, SeenIs
  <2>. QED BY <2>1
<1>3. OwnsStill(s, t, q) /\ Owns(s, t, q) /\ Touched(s, t, q) /\ ~OwnsNow(s, t, q)
  <2>1. OwnsStill(s, t, q)
    BY <1>2 DEF OwnsStill
  <2>. QED BY <2>1 DEF Owns, Touched, CellsOK, OwnedOnce
<1>4. /\ \A u : Alone(r, u) <=> Alone(s, u)
      /\ \A u, k : Hand(r, u, k) = Hand(s, u, k)
      /\ BuffersOK(r)
  BY FlushCommon
<1>5. \A k \in Int : s.buf[t][1] = Hand(s, t, k) <=> k = q
  <2>1. \A k \in Int : Hand(s, t, k) = Hand(s, t, q) => k = q
    BY HandIs
  <2>. QED BY <2>1
<1>6. ASSUME NEW u \in QueueThreads, NEW k \in Int
      PROVE  /\ OwnsNow(r, u, k) <=> OwnsNow(s, u, k)
             /\ OwnsStill(r, u, k) <=> OwnsStill(s, u, k) /\ ~(u = t /\ k = q)
             /\ Owns(r, u, k) <=> Owns(s, u, k) /\ ~(u = t /\ k = q)
             /\ Touched(r, u, k) <=> Touched(s, u, k) /\ ~(u = t /\ k = q)
  <2>1. /\ OwnsNow(r, u, k) <=> OwnsNow(s, u, k)
        /\ Done(r, u) <=> Done(s, u)
        /\ OwnsStill(r, u, k) <=> OwnsStill(s, u, k) /\ ~(u = t /\ s.buf[t][1] = Hand(s, t, k))
    BY FlushCommon
  <2>. QED BY <1>3, <1>5, <2>1 DEF Owns, Touched
<1>7. /\ Avail(s, t, q)
      /\ \A k \in Int : r.mem[Data(k)] = s.mem[Data(k)]
      /\ s.kind = "SPSC" => q = s.mem[Edge(t)]
      /\ \A u \in QueueThreads, k \in Int :
              Avail(r, u, k) <=> \/ Avail(s, u, k) /\ ~(SameSide(u, t) /\ k = q)
                                 \/ ~SameSide(u, t) /\ k = Handed(t, q)
  BY HandedOver
<1>8. \A u \in QueueThreads : SameSide(u, t) /\ Owns(s, u, q) => u = t
  BY <1>3, OwnedApart
<1>9. OwnedOnce(r)
  <2>. SUFFICES ASSUME NEW u \in QueueThreads, NEW k \in Int, Owns(r, u, k)
                PROVE  /\ Avail(r, u, k)
                       /\ \A v \in QueueThreads : SameSide(u, v) /\ Owns(r, v, k) => u = v
                       /\ OwnsNow(r, u, k) => ~OwnsStill(r, u, k)
                       /\ \A i, j \in DOMAIN r.buf[u] : r.buf[u][i] = Hand(r, u, k) /\ r.buf[u][j] = Hand(r, u, k) => i = j
    BY DEF OwnedOnce
  <2>1. Owns(s, u, k) /\ ~(u = t /\ k = q)
    BY <1>6
  <2>2. /\ Avail(s, u, k)
        /\ \A v \in QueueThreads : SameSide(u, v) /\ Owns(s, v, k) => u = v
        /\ OwnsNow(s, u, k) => ~OwnsStill(s, u, k)
    BY <2>1 DEF CellsOK, OwnedOnce
  <2>3. Avail(r, u, k)
    BY <1>7, <1>8, <2>1, <2>2
  <2>4. \A i, j \in DOMAIN r.buf[u] : r.buf[u][i] = Hand(r, u, k) /\ r.buf[u][j] = Hand(r, u, k) => i = j
    BY <2>1, FlushCommon
  <2>. QED BY <1>6, <2>2, <2>3, <2>4
<1>10. ClaimsOK(r)
  <2>. SUFFICES ASSUME NEW u \in QueueThreads, ~Alone(s, u)
                PROVE  /\ 0 <= r.mem[Edge(u)] /\ s.pos[u] <= r.mem[Edge(u)]
                       /\ \A k \in Int : Owns(r, u, k) => k < r.mem[Edge(u)]
                       /\ s.at[u] = "claim" /\ s.pos[u] = r.mem[Edge(u)] =>
                            r.mem[Sequence(s.pos[u])] = Expected(u, s.pos[u])
    BY <1>1, <1>4 DEF ClaimsOK
  <2>1. /\ 0 <= s.mem[Edge(u)] /\ s.pos[u] <= s.mem[Edge(u)]
        /\ \A k \in Int : Owns(s, u, k) => k < s.mem[Edge(u)]
        /\ s.at[u] = "claim" /\ s.pos[u] = s.mem[Edge(u)] =>
             s.mem[Sequence(s.pos[u])] = Expected(u, s.pos[u])
    BY DEF CellsOK, ClaimsOK
  <2>2. r.mem[Edge(u)] = s.mem[Edge(u)]
    BY FlushFronts
  <2>3. ASSUME s.at[u] = "claim", s.pos[u] = s.mem[Edge(u)]
        PROVE  r.mem[Sequence(s.pos[u])] = Expected(u, s.pos[u])
    <3>1. s.kind # "SPSC" /\ s.pos[u] \in Int /\ s.mem[Edge(u)] \in Int
      BY <1>1, LocationsApart DEF Alone, ViewTypes, Edge
    <3>2. Avail(s, u, s.pos[u])
      BY <2>1, <2>3, <3>1 DEF Avail
    <3>3. ~(SameSide(u, t) /\ s.pos[u] = q)
      <4>. SUFFICES ASSUME SameSide(u, t), s.pos[u] = q PROVE FALSE
        OBVIOUS
      <4>1. ~Alone(s, t) /\ Edge(t) = Edge(u)
        BY DEF SameSide, Alone, Edge
      <4>2. q < s.mem[Edge(t)]
        BY <1>3, <4>1 DEF CellsOK, ClaimsOK
      <4>. QED BY <2>3, <3>1, <4>1, <4>2
    <3>4. Avail(r, u, s.pos[u])
      BY <1>7, <3>1, <3>2, <3>3
    <3>. QED BY <1>1, <3>1, <3>4 DEF Avail
  <2>. QED BY <1>6, <2>1, <2>2, <2>3
<1>11. FrontsOK(r)
  <2>1. ASSUME NEW u \in QueueThreads, Alone(r, u)
        PROVE  /\ Choosing(r, u) => r.pos[u] = Seen(r, u, Edge(u))
               /\ \A i \in Waits(r, u, Edge(u)) :
                    /\ r.mem[Edge(u)] < r.buf[u][i][2]
                    /\ \A j \in Waits(r, u, Edge(u)) : i < j => r.buf[u][i][2] < r.buf[u][j][2]
    <3>1. Alone(s, u) /\ (Choosing(r, u) <=> Choosing(s, u))
      BY <1>1, <1>4, <2>1 DEF Choosing
    <3>2. /\ Choosing(s, u) => s.pos[u] = Seen(r, u, Edge(u))
          /\ \A i \in Waits(r, u, Edge(u)) :
                   /\ r.mem[Edge(u)] < r.buf[u][i][2]
                   /\ \A j \in Waits(r, u, Edge(u)) : i < j => r.buf[u][i][2] < r.buf[u][j][2]
      BY <3>1, FlushFronts
    <3>. QED BY <1>1, <3>1, <3>2
  <2>2. ASSUME s.kind = "SPSC"
        PROVE  /\ r.mem[Dequeue] <= r.mem[Enqueue] /\ r.mem[Enqueue] <= r.mem[Dequeue] + Capacity
               /\ r.mem[Edge(t)] = q + 1
               /\ \A u : Edge(u) # Edge(t) => r.mem[Edge(u)] = s.mem[Edge(u)]
    <3>1. s.mem[Dequeue] \in Int /\ s.mem[Enqueue] \in Int /\ Enqueue \in Locations /\ Dequeue \in Locations /\ Enqueue # Dequeue
      BY <1>1, LocationsApart DEF ViewTypes
    <3>2. s.buf[t][1][1] = Edge(t) /\ s.buf[t][1][2] = q + 1
      BY <2>2 DEF Hand, FrontStore
    <3>3. r.mem[Edge(t)] = q + 1 /\ \A k \in Locations : k # Edge(t) => r.mem[k] = s.mem[k]
      BY <1>1, <3>2, FlushSeen
    <3>4. s.mem[Dequeue] <= s.mem[Enqueue] /\ s.mem[Enqueue] <= s.mem[Dequeue] + Capacity
      BY <2>2 DEF CellsOK, FrontsOK
    <3>5. \A u : Edge(u) # Edge(t) => r.mem[Edge(u)] = s.mem[Edge(u)]
      BY <3>1, <3>3 DEF Edge
    <3>6. CASE t \in Producers
      <4>1. q = s.mem[Enqueue] /\ q < s.mem[Dequeue] + Capacity
        BY <1>7, <2>2, <3>6 DEF Avail, Edge
      <4>2. r.mem[Enqueue] = q + 1 /\ r.mem[Dequeue] = s.mem[Dequeue]
        BY <3>1, <3>3, <3>6 DEF Edge
      <4>. QED BY <3>1, <3>3, <3>4, <3>5, <4>1, <4>2, QueueConstants
    <3>7. CASE t \notin Producers
      <4>1. q = s.mem[Dequeue] /\ q < s.mem[Enqueue]
        BY <1>7, <2>2, <3>7 DEF Avail, Edge
      <4>2. r.mem[Dequeue] = q + 1 /\ r.mem[Enqueue] = s.mem[Enqueue]
        BY <3>1, <3>3, <3>7 DEF Edge
      <4>. QED BY <3>1, <3>3, <3>4, <3>5, <4>1, <4>2, QueueConstants
    <3>. QED BY <3>6, <3>7
  <2>3. ASSUME s.kind = "SPSC", NEW u \in QueueThreads, NEW k \in Int,
               r.mem[Edge(u)] <= k, k < Seen(r, u, Edge(u))
        PROVE  OwnsStill(r, u, k)
    <3>1. Alone(s, u) /\ \A m \in Int : s.mem[Edge(u)] <= m /\ m < Seen(s, u, Edge(u)) => OwnsStill(s, u, m)
      BY <2>3 DEF Alone, CellsOK, FrontsOK
    <3>2. CASE u = t
      <4>1. Seen(r, t, Edge(t)) = Seen(s, t, Edge(t))
        BY <1>1, FlushSeen, LocationsApart DEF Edge
      <4>2. k # q /\ s.mem[Edge(t)] <= k
        BY <1>7, <2>2, <2>3, <3>2
      <4>. QED BY <1>6, <2>3, <3>1, <3>2, <4>1, <4>2
    <3>3. CASE u # t
      <4>0. Seen(r, u, Edge(u)) \in Int /\ r.mem[Edge(u)] \in Int
        BY SeenIs, LocationsApart DEF Edge, ViewTypes
      <4>1. r.mem[Edge(u)] = s.mem[Edge(u)] /\ Seen(r, u, Edge(u)) = Seen(s, u, Edge(u))
        <5>1. Seen(r, u, Edge(u)) # r.mem[Edge(u)]
          BY <2>3, <4>0
        <5>. QED BY <3>3, <5>1, FlushFronts
      <4>. QED BY <1>6, <2>3, <3>1, <3>3, <4>1
    <3>. QED BY <3>2, <3>3
  <2>. QED BY <1>1, <2>1, <2>2, <2>3 DEF FrontsOK
<1>12. ItemsWhole(r)
  <2>0. s.buf[t][1][1] = Edge(t) \/ s.buf[t][1][1] = Sequence(q)
    BY DEF Hand, FrontStore
  <2>1. ASSUME NEW u \in QueueThreads, NEW k \in Int PROVE Seen(r, u, Data(k)) = Seen(s, u, Data(k))
    <3>1. Data(k) \in Locations /\ Data(k) # s.buf[t][1][1]
      BY <2>0, LocationsApart DEF Edge
    <3>. QED BY <1>1, <3>1, FlushSeen
  <2>2. s.mem[Data(q)] = After(t, q)
    <3>1. Seen(s, t, Data(q)) = After(t, q)
      BY <1>3 DEF CellsOK, ItemsWhole
    <3>2. Waits(s, t, Data(q)) = {}
      <4>. SUFFICES ASSUME NEW i \in Waits(s, t, Data(q)) PROVE FALSE
        OBVIOUS
      <4>1. i \in DOMAIN s.buf[t]
        BY DEF Waits
      <4>2. PICK k \in Int : /\ k % Capacity = q % Capacity /\ Touched(s, t, k)
                             /\ \/ OwnsNow(s, t, k) /\ Done(s, t)
                                \/ \E j \in DOMAIN s.buf[t] : i < j /\ s.buf[t][j] = Hand(s, t, k)
        BY <4>1, WaitsKinds
      <4>3. Owns(s, t, k)
        BY <4>2 DEF Touched, Owns
      <4>4. k = q
        BY <1>3, <4>2, <4>3, OwnedApart
      <4>5. PICK j \in DOMAIN s.buf[t] : i < j /\ s.buf[t][j] = Hand(s, t, q)
        BY <1>3, <4>2, <4>4
      <4>6. j = 1
        BY <1>2, <1>3, <4>5 DEF CellsOK, OwnedOnce
      <4>7. DOMAIN s.buf[t] = 1 .. Len(s.buf[t]) /\ Len(s.buf[t]) \in Nat
        BY <1>1, SeenIs
      <4>. QED BY <4>1, <4>5, <4>6, <4>7
    <3>. QED BY <1>1, <3>1, <3>2, SeenIs
  <2>3. Data(Handed(t, q)) = Data(q) /\ Handed(t, q) \in Int
    <3>1. Handed(t, q) \in Int /\ Handed(t, q) % Capacity = q % Capacity
      <4>1. (q + Capacity) % Capacity = q % Capacity
        BY SameCell
      <4>. QED BY <4>1, QueueConstants DEF Handed
    <3>. QED BY <3>1, LocationsApart
  <2>. SUFFICES ASSUME NEW u \in QueueThreads, NEW k \in Int
                PROVE  /\ Avail(r, u, k) => \/ r.mem[Data(k)] = Before(u, k)
                                            \/ \E v \in QueueThreads : SameSide(u, v) /\ Touched(r, v, k)
                       /\ Touched(r, u, k) => Seen(r, u, Data(k)) = After(u, k)
    BY DEF ItemsWhole
  <2>4. Touched(r, u, k) => Seen(r, u, Data(k)) = After(u, k)
    BY <1>6, <2>1 DEF CellsOK, ItemsWhole
  <2>5. ASSUME Avail(s, u, k), ~(SameSide(u, t) /\ k = q)
        PROVE  \/ r.mem[Data(k)] = Before(u, k)
               \/ \E v \in QueueThreads : SameSide(u, v) /\ Touched(r, v, k)
    <3>1. \/ s.mem[Data(k)] = Before(u, k)
          \/ \E v \in QueueThreads : SameSide(u, v) /\ Touched(s, v, k)
      BY <2>5 DEF CellsOK, ItemsWhole
    <3>2. ASSUME NEW v \in QueueThreads, SameSide(u, v), Touched(s, v, k) PROVE Touched(r, v, k)
      <4>1. ~(v = t /\ k = q)
        BY <2>5, <3>2 DEF SameSide
      <4>. QED BY <1>6, <3>2, <4>1
    <3>. QED BY <1>7, <3>1, <3>2
  <2>6. ASSUME ~SameSide(u, t), k = Handed(t, q) PROVE r.mem[Data(k)] = Before(u, k)
    <3>1. r.mem[Data(k)] = After(t, q)
      BY <1>7, <2>2, <2>3, <2>6
    <3>. QED BY <2>6, <3>1 DEF Before, After, SameSide, Handed
  <2>. QED BY <1>7, <2>4, <2>5, <2>6
<1>. QED BY <1>4, <1>9, <1>10, <1>11, <1>12 DEF CellsOK

(* An item or, where sequence numbers hand over, a position comes to memory. *)
LEMMA FlushOther ==
  ASSUME NEW s, NEW r, CellsOK(s), ViewTypes(r), NEW t \in QueueThreads, FlushOnly(s, r, t),
         NEW q \in Int,
         \/ Alone(s, t) /\ s.kind # "SPSC" /\ s.buf[t][1] = FrontStore(t, q)
         \/ s.buf[t][1] = DataStore(t, q) /\ Touched(s, t, q)
  PROVE  CellsOK(r)
<1> DEFINE h == s.buf[t][1][1]
<1>1. /\ ViewTypes(s) /\ Flushed(s, r, t) /\ r.kind = s.kind /\ r.at = s.at /\ r.pos = s.pos
  BY DEF CellsOK, FlushOnly, SameQueue
<1>2. /\ h \in Locations /\ \A k \in Locations : k # h => r.mem[k] = s.mem[k]
      /\ \A k \in Locations : Seen(r, t, k) = Seen(s, t, k)
      /\ \A u \in QueueThreads \ {t}, k \in Locations : k # h => Seen(r, u, k) = Seen(s, u, k)
  BY <1>1, FlushSeen
<1>. HIDE DEF h
<1>3. /\ \A k \in Int : s.buf[t][1] # Hand(s, t, k) /\ h # Sequence(k)
      /\ s.kind = "SPSC" => h # Enqueue /\ h # Dequeue
      /\ \A k \in Int : h = Data(k) => s.buf[t][1] = DataStore(t, q) /\ Touched(s, t, q) /\ k % Capacity = q % Capacity
  <2>1. CASE s.kind # "SPSC" /\ s.buf[t][1] = FrontStore(t, q)
    <3>1. h = Edge(t) /\ Edge(t) \in {Enqueue, Dequeue}
      BY <2>1 DEF h, FrontStore, Edge
    <3>2. ASSUME NEW k \in Int PROVE s.buf[t][1] # Hand(s, t, k) /\ h # Sequence(k) /\ h # Data(k)
      <4>1. Hand(s, t, k)[1] = Sequence(k)
        BY <2>1 DEF Hand
      <4>2. Sequence(k) \notin {Enqueue, Dequeue} /\ Data(k) \notin {Enqueue, Dequeue}
        BY LocationsApart
      <4>. QED BY <3>1, <4>1, <4>2 DEF h
    <3>. QED BY <2>1, <3>2
  <2>2. CASE s.buf[t][1] = DataStore(t, q) /\ Touched(s, t, q)
    <3>1. h = Data(q)
      BY <2>2 DEF h, DataStore
    <3>2. ASSUME NEW k \in Int PROVE s.buf[t][1] # Hand(s, t, k) /\ h # Sequence(k)
      <4>1. Hand(s, t, k)[1] = Sequence(k) \/ Hand(s, t, k)[1] = Edge(t)
        BY DEF Hand, FrontStore
      <4>2. Data(q) # Sequence(k) /\ Data(q) # Edge(t)
        BY LocationsApart DEF Edge
      <4>. QED BY <3>1, <4>1, <4>2 DEF h
    <3>3. h # Enqueue /\ h # Dequeue /\ \A k \in Int : h = Data(k) => k % Capacity = q % Capacity
      BY <3>1, LocationsApart
    <3>. QED BY <2>2, <3>2, <3>3
  <2>. QED BY <2>1, <2>2
<1>4. /\ \A u : Alone(r, u) <=> Alone(s, u)
      /\ \A u, k : Hand(r, u, k) = Hand(s, u, k)
      /\ BuffersOK(r)
  BY FlushCommon
<1>5. ASSUME NEW u \in QueueThreads, NEW k \in Int
      PROVE  /\ OwnsNow(r, u, k) <=> OwnsNow(s, u, k)
             /\ OwnsStill(r, u, k) <=> OwnsStill(s, u, k)
             /\ Owns(r, u, k) <=> Owns(s, u, k)
             /\ Touched(r, u, k) <=> Touched(s, u, k)
  <2>1. /\ OwnsNow(r, u, k) <=> OwnsNow(s, u, k)
        /\ Done(r, u) <=> Done(s, u)
        /\ OwnsStill(r, u, k) <=> OwnsStill(s, u, k) /\ ~(u = t /\ s.buf[t][1] = Hand(s, t, k))
    BY FlushCommon
  <2>. QED BY <1>3, <2>1 DEF Owns, Touched
<1>6. \A k \in Int : r.mem[Sequence(k)] = s.mem[Sequence(k)]
  BY <1>2, <1>3, LocationsApart
<1>7. s.kind = "SPSC" => r.mem[Enqueue] = s.mem[Enqueue] /\ r.mem[Dequeue] = s.mem[Dequeue]
  BY <1>2, <1>3, LocationsApart
<1>8. \A u, k : k \in Int => (Avail(r, u, k) <=> Avail(s, u, k))
  BY <1>1, <1>6, <1>7 DEF Avail
<1>9. OwnedOnce(r)
  <2>. SUFFICES ASSUME NEW u \in QueueThreads, NEW k \in Int, Owns(r, u, k)
                PROVE  /\ Avail(r, u, k)
                       /\ \A v \in QueueThreads : SameSide(u, v) /\ Owns(r, v, k) => u = v
                       /\ OwnsNow(r, u, k) => ~OwnsStill(r, u, k)
                       /\ \A i, j \in DOMAIN r.buf[u] : r.buf[u][i] = Hand(r, u, k) /\ r.buf[u][j] = Hand(r, u, k) => i = j
    BY DEF OwnedOnce
  <2>1. Owns(s, u, k)
    BY <1>5
  <2>2. \A i, j \in DOMAIN r.buf[u] : r.buf[u][i] = Hand(r, u, k) /\ r.buf[u][j] = Hand(r, u, k) => i = j
    BY <2>1, FlushCommon
  <2>. QED BY <1>5, <1>8, <2>1, <2>2 DEF CellsOK, OwnedOnce
<1>10. ClaimsOK(r)
  <2>. SUFFICES ASSUME NEW u \in QueueThreads, ~Alone(s, u)
                PROVE  /\ 0 <= r.mem[Edge(u)] /\ s.pos[u] <= r.mem[Edge(u)]
                       /\ \A k \in Int : Owns(r, u, k) => k < r.mem[Edge(u)]
                       /\ s.at[u] = "claim" /\ s.pos[u] = r.mem[Edge(u)] =>
                            r.mem[Sequence(s.pos[u])] = Expected(u, s.pos[u])
    BY <1>1, <1>4 DEF ClaimsOK
  <2>1. r.mem[Edge(u)] = s.mem[Edge(u)]
    BY FlushFronts
  <2>2. s.pos[u] \in Int
    BY <1>1 DEF ViewTypes
  <2>. QED BY <1>5, <1>6, <2>1, <2>2 DEF CellsOK, ClaimsOK
<1>11. FrontsOK(r)
  <2>1. ASSUME NEW u \in QueueThreads, Alone(r, u)
        PROVE  /\ Choosing(r, u) => r.pos[u] = Seen(r, u, Edge(u))
               /\ \A i \in Waits(r, u, Edge(u)) :
                    /\ r.mem[Edge(u)] < r.buf[u][i][2]
                    /\ \A j \in Waits(r, u, Edge(u)) : i < j => r.buf[u][i][2] < r.buf[u][j][2]
    <3>1. Alone(s, u) /\ (Choosing(r, u) <=> Choosing(s, u))
      BY <1>1, <1>4, <2>1 DEF Choosing
    <3>2. /\ Choosing(s, u) => s.pos[u] = Seen(r, u, Edge(u))
          /\ \A i \in Waits(r, u, Edge(u)) :
                   /\ r.mem[Edge(u)] < r.buf[u][i][2]
                   /\ \A j \in Waits(r, u, Edge(u)) : i < j => r.buf[u][i][2] < r.buf[u][j][2]
      BY <3>1, FlushFronts
    <3>. QED BY <1>1, <3>1, <3>2
  <2>2. s.kind = "SPSC" => r.mem[Dequeue] <= r.mem[Enqueue] /\ r.mem[Enqueue] <= r.mem[Dequeue] + Capacity
    BY <1>7 DEF CellsOK, FrontsOK
  <2>3. ASSUME s.kind = "SPSC", NEW u \in QueueThreads
        PROVE  \A k \in Int : r.mem[Edge(u)] <= k /\ k < Seen(r, u, Edge(u)) => OwnsStill(r, u, k)
    <3>1. Alone(s, u) /\ \A m \in Int : s.mem[Edge(u)] <= m /\ m < Seen(s, u, Edge(u)) => OwnsStill(s, u, m)
      BY <2>3 DEF Alone, CellsOK, FrontsOK
    <3>2. r.mem[Edge(u)] = s.mem[Edge(u)] /\ Seen(r, u, Edge(u)) = Seen(s, u, Edge(u))
      <4>1. Edge(u) # h /\ Edge(u) \in Locations
        BY <1>3, <2>3, LocationsApart DEF Edge
      <4>. QED BY <1>2, <4>1
    <3>. QED BY <1>5, <3>1, <3>2
  <2>. QED BY <1>1, <2>1, <2>2, <2>3 DEF FrontsOK
<1>12. ItemsWhole(r)
  <2>. SUFFICES ASSUME NEW u \in QueueThreads, NEW k \in Int
                PROVE  /\ Avail(r, u, k) => \/ r.mem[Data(k)] = Before(u, k)
                                            \/ \E v \in QueueThreads : SameSide(u, v) /\ Touched(r, v, k)
                       /\ Touched(r, u, k) => Seen(r, u, Data(k)) = After(u, k)
    BY DEF ItemsWhole
  <2>1. /\ Avail(s, u, k) => \/ s.mem[Data(k)] = Before(u, k)
                             \/ \E v \in QueueThreads : SameSide(u, v) /\ Touched(s, v, k)
        /\ Touched(s, u, k) => Seen(s, u, Data(k)) = After(u, k)
    BY DEF CellsOK, ItemsWhole
  <2>2. Data(k) \in Locations
    BY LocationsApart
  <2>3. CASE Data(k) # h
    <3>1. r.mem[Data(k)] = s.mem[Data(k)] /\ Seen(r, u, Data(k)) = Seen(s, u, Data(k))
      BY <1>2, <2>2, <2>3
    <3>2. \A v \in QueueThreads : Touched(r, v, k) <=> Touched(s, v, k)
      BY <1>5
    <3>. QED BY <1>8, <2>1, <3>1, <3>2
  <2>4. CASE Data(k) = h
    <3>1. Touched(s, t, q) /\ k % Capacity = q % Capacity
      BY <1>3, <2>4
    <3>2. Owns(s, t, q)
      BY <3>1 DEF Touched, Owns
    <3>3. Avail(s, u, k) => SameSide(u, t) /\ k = q
      BY <3>1, <3>2, OwnedApart
    <3>4. Avail(r, u, k) => SameSide(u, t) /\ Touched(r, t, k)
      BY <1>5, <1>8, <3>1, <3>3
    <3>5. ASSUME Touched(r, u, k) PROVE Seen(r, u, Data(k)) = After(u, k)
      <4>1. Touched(s, u, k)
        BY <1>5, <3>5
      <4>2. Owns(s, u, k)
        BY <4>1 DEF Touched, Owns
      <4>3. u = t
        BY <3>1, <3>2, <4>2, OwnedApart
      <4>. QED BY <1>2, <2>1, <2>2, <4>1, <4>3
    <3>. QED BY <3>4, <3>5
  <2>. QED BY <2>3, <2>4
<1>. QED BY <1>4, <1>9, <1>10, <1>11, <1>12 DEF CellsOK

LEMMA FlushKeeps ==
  ASSUME NEW s, NEW r, CellsOK(s), ViewTypes(r), NEW t \in QueueThreads, FlushOnly(s, r, t)
  PROVE  CellsOK(r)
<1>1. 1 \in DOMAIN s.buf[t]
  <2>1. ViewTypes(s) /\ Flushed(s, r, t)
    BY DEF CellsOK, FlushOnly
  <2>2. Len(s.buf[t]) >= 1 /\ Len(s.buf[t]) \in Nat /\ DOMAIN s.buf[t] = 1 .. Len(s.buf[t])
    BY <2>1, FlushSeen, SeenIs
  <2>. QED BY <2>2
<1>2. PICK q \in Int :
        \/ s.buf[t][1] = Hand(s, t, q)
        \/ Alone(s, t) /\ s.buf[t][1] = FrontStore(t, q)
        \/ /\ s.buf[t][1] = DataStore(t, q)
           /\ \/ OwnsNow(s, t, q) /\ Done(s, t)
              \/ \E j \in DOMAIN s.buf[t] : 1 < j /\ s.buf[t][j] = Hand(s, t, q)
  BY <1>1 DEF CellsOK, BuffersOK
<1>3. CASE s.buf[t][1] = Hand(s, t, q)
  BY <1>3, FlushHand
<1>4. CASE Alone(s, t) /\ s.buf[t][1] = FrontStore(t, q) /\ s.kind # "SPSC"
  BY <1>4, FlushOther
<1>5. CASE s.buf[t][1] = FrontStore(t, q) /\ s.kind = "SPSC"
  <2>1. s.buf[t][1] = Hand(s, t, q)
    BY <1>5 DEF Hand
  <2>. QED BY <2>1, FlushHand
<1>6. CASE s.buf[t][1] = DataStore(t, q) /\ \/ OwnsNow(s, t, q) /\ Done(s, t)
                                            \/ \E j \in DOMAIN s.buf[t] : 1 < j /\ s.buf[t][j] = Hand(s, t, q)
  <2>1. Touched(s, t, q)
    BY <1>6 DEF Touched, OwnsStill
  <2>. QED BY <1>6, <2>1, FlushOther
<1>. QED BY <1>2, <1>3, <1>4, <1>5, <1>6

-----------------------------------------------------------------------------
(* The actions, as moves of the view.                                        *)
QuietPlaces == QueuePlaces \ (CellPlaces \union {"slot", "claim"})

Grown ==
    \A t \in QueueThreads : /\ memory[Edge(t)] <= memory'[Edge(t)]
                            /\ Seen(QueueView, t, Edge(t)) <= Seen(QueueView', t, Edge(t))

LEMMA ViewIs ==
  /\ QueueView.kind = class[1] /\ QueueView.team = team /\ QueueView.mem = memory
  /\ QueueView.buf = storeBuffer /\ QueueView.at = place /\ QueueView.pos = position
  /\ QueueView'.kind = class'[1] /\ QueueView'.team = team' /\ QueueView'.mem = memory'
  /\ QueueView'.buf = storeBuffer' /\ QueueView'.at = place' /\ QueueView'.pos = position'
  BY DEF QueueView

LEMMA LoadIs == \A t, l : Load(t, l) = Seen(QueueView, t, l)
  BY DEF Load, Pending, Seen, Waits, QueueView

LEMMA LoadIsNext == \A t, l : Load(t, l)' = Seen(QueueView', t, l)
  BY DEF Load, Pending, Seen, Waits, QueueView

(* A move that leaves memory alone and does not reach a cell.                *)
Moves(t) ==
    /\ place[t] \notin CellPlaces /\ place'[t] \in QueuePlaces \ CellPlaces
    /\ position'[t] \in Int
    /\ ~Alone(QueueView, t) =>
         /\ position'[t] <= memory[Edge(t)]
         /\ place'[t] = "claim" /\ position'[t] = memory[Edge(t)] =>
              memory[Sequence(position'[t])] = Expected(t, position'[t])
    /\ Alone(QueueView, t) /\ place'[t] = "slot" => position'[t] = Seen(QueueView, t, Edge(t))

LEMMA MovesKeep ==
  ASSUME QueueTypeOK, CellsOK(QueueView), UNCHANGED <<class, team, memory, storeBuffer>>,
         place' \in [QueueThreads -> QueuePlaces], position' \in [QueueThreads -> Int],
         \A t \in QueueThreads : (place'[t] = place[t] /\ position'[t] = position[t]) \/ (t \in team /\ Moves(t))
  PROVE  ViewTypes(QueueView') /\ CellsOK(QueueView') /\ Grown
<1>1. PICK s : s = QueueView
  OBVIOUS
<1>2. PICK r : r = QueueView'
  OBVIOUS
<1>3. /\ s.kind = class[1] /\ s.team = team /\ s.mem = memory /\ s.buf = storeBuffer /\ s.at = place /\ s.pos = position
      /\ r.kind = s.kind /\ r.team = s.team /\ r.mem = s.mem /\ r.buf = s.buf /\ r.at = place' /\ r.pos = position'
  BY <1>1, <1>2, ViewIs
<1>4. CellsOK(s) /\ ViewTypes(s)
  BY <1>1 DEF QueueTypeOK
<1>5. ViewTypes(r)
  <2>1. \A t \in QueueThreads \ s.team : r.at[t] = "idle" /\ r.buf[t] = <<>>
    BY <1>3, <1>4 DEF ViewTypes
  <2>2. \A t, u \in r.team : SameSide(t, u) /\ Alone(r, t) => t = u
    BY <1>3, <1>4 DEF ViewTypes, Alone
  <2>. QED BY <1>3, <1>4, <2>1, <2>2 DEF ViewTypes
<1>6. \A t \in QueueThreads : (r.at[t] = s.at[t] /\ r.pos[t] = s.pos[t]) \/ Aloof(s, r, t)
  BY <1>1, <1>3 DEF Moves, Aloof
<1>7. CellsOK(r)
  BY <1>3, <1>4, <1>5, <1>6, AloofKeeps DEF SameQueue
<1>8. Grown
  <2>1. ASSUME NEW t \in QueueThreads PROVE s.mem[Edge(t)] <= r.mem[Edge(t)] /\ Seen(s, t, Edge(t)) <= Seen(r, t, Edge(t))
    <3>1. s.mem[Edge(t)] \in Int /\ Seen(s, t, Edge(t)) \in Int /\ Seen(r, t, Edge(t)) = Seen(s, t, Edge(t))
      BY <1>3, <1>4, FrontSeen DEF Seen, Waits
    <3>. QED BY <1>3, <3>1
  <2>. QED BY <1>1, <1>2, <1>3, <2>1 DEF Grown
<1>. QED BY <1>2, <1>5, <1>7, <1>8

(* A store: into the buffer, and on sequentially consistent memory at once   *)
(* out of it.                                                                *)
StoreView(t, e) ==
    [kind |-> class[1], team |-> team, mem |-> memory, buf |-> [storeBuffer EXCEPT ![t] = Append(@, e)],
     at |-> place', pos |-> position']

LEMMA StoreKeeps ==
  ASSUME QueueTypeOK, CellsOK(QueueView), NEW t \in QueueThreads, NEW l \in Locations, NEW v \in Int, t \in team,
         Store(t, l, v), UNCHANGED <<class, team>>,
         place' \in [QueueThreads -> QueuePlaces], position' \in [QueueThreads -> Int],
         \A u \in QueueThreads \ {t} : place'[u] = place[u]
  PROVE  /\ ViewTypes(QueueView') /\ ViewTypes(StoreView(t, <<l, v>>))
         /\ Appended(QueueView, StoreView(t, <<l, v>>), t, <<l, v>>)
         /\ SameQueue(QueueView, StoreView(t, <<l, v>>))
         /\ StoreView(t, <<l, v>>).at = place' /\ StoreView(t, <<l, v>>).pos = position'
         /\ CellsOK(StoreView(t, <<l, v>>)) /\ (l = Edge(t) => Seen(QueueView, t, l) <= v) =>
              CellsOK(QueueView') /\ Grown
         /\ class[2] = "plain" => \A u \in QueueThreads : storeBuffer'[u] = <<>>
<1>1. PICK s : s = QueueView
  OBVIOUS
<1>2. PICK a : a = StoreView(t, <<l, v>>)
  OBVIOUS
<1>3. PICK r : r = QueueView'
  OBVIOUS
<1>4. /\ s.kind = class[1] /\ s.team = team /\ s.mem = memory /\ s.buf = storeBuffer /\ s.at = place /\ s.pos = position
      /\ r.kind = s.kind /\ r.team = s.team /\ r.mem = memory' /\ r.buf = storeBuffer' /\ r.at = place' /\ r.pos = position'
  BY <1>1, <1>3, ViewIs
<1>5. /\ a.kind = s.kind /\ a.team = s.team /\ a.mem = s.mem /\ a.buf = [s.buf EXCEPT ![t] = Append(@, <<l, v>>)]
      /\ a.at = r.at /\ a.pos = r.pos
  BY <1>2, <1>4 DEF StoreView
<1>6. CellsOK(s) /\ ViewTypes(s)
  BY <1>1 DEF QueueTypeOK
<1>7. /\ s.buf \in [QueueThreads -> Seq(Locations \X Int)] /\ s.mem \in [Locations -> Int]
      /\ \A u, w \in s.team : SameSide(u, w) /\ Alone(s, u) => u = w
      /\ \A u \in QueueThreads \ s.team : s.at[u] = "idle" /\ s.buf[u] = <<>>
      /\ s.kind \in QueueKind
  BY <1>6 DEF ViewTypes
<1>8. ViewTypes(a)
  <2>1. a.buf \in [QueueThreads -> Seq(Locations \X Int)]
    <3>1. <<l, v>> \in Locations \X Int
      OBVIOUS
    <3>2. s.buf[t] \in Seq(Locations \X Int)
      BY <1>7
    <3>3. Append(s.buf[t], <<l, v>>) \in Seq(Locations \X Int)
      BY <3>1, <3>2
    <3>. QED BY <1>5, <1>7, <3>3
  <2>2. \A u, w \in a.team : SameSide(u, w) /\ Alone(a, u) => u = w
    BY <1>5, <1>7 DEF Alone
  <2>3. \A u \in QueueThreads \ a.team : a.at[u] = "idle" /\ a.buf[u] = <<>>
    BY <1>4, <1>5, <1>7
  <2>. QED BY <1>4, <1>5, <1>7, <2>1, <2>2, <2>3 DEF ViewTypes
<1>9. CASE class[2] = "buffered"
  <2>1. r.mem = a.mem /\ r.buf = a.buf
    BY <1>4, <1>5, <1>9 DEF Store
  <2>2. a = r
    <3>1. /\ a = [kind |-> a.kind, team |-> a.team, mem |-> a.mem, buf |-> a.buf, at |-> a.at, pos |-> a.pos]
      BY <1>2 DEF StoreView
    <3>2. /\ r = [kind |-> r.kind, team |-> r.team, mem |-> r.mem, buf |-> r.buf, at |-> r.at, pos |-> r.pos]
      BY <1>3 DEF QueueView
    <3>3. /\ a.kind = r.kind /\ a.team = r.team /\ a.mem = r.mem /\ a.buf = r.buf /\ a.at = r.at /\ a.pos = r.pos
      BY <1>4, <1>5, <2>1
    <3>. QED BY <3>1, <3>2, <3>3
  <2>3. ASSUME CellsOK(a), l = Edge(t) => Seen(s, t, l) <= v
        PROVE  Grown
    <3>1. ASSUME NEW u \in QueueThreads
          PROVE  s.mem[Edge(u)] <= r.mem[Edge(u)] /\ Seen(s, u, Edge(u)) <= Seen(r, u, Edge(u))
      <4>1. s.mem[Edge(u)] \in Int /\ Seen(s, u, Edge(u)) \in Int
        BY <1>6, FrontSeen
      <4>2. Appended(s, a, t, <<l, v>>)
        BY <1>5 DEF Appended
      <4>3. Seen(a, t, l) = v /\ (\A k : k # l => Seen(a, t, k) = Seen(s, t, k)) /\ (u # t => Seen(a, u, Edge(u)) = Seen(s, u, Edge(u)))
        BY <1>6, <1>8, <4>2, AppendSeen
      <4>. QED BY <1>5, <2>1, <2>2, <2>3, <4>1, <4>3
    <3>. QED BY <1>1, <1>3, <1>4, <3>1 DEF Grown
  <2>4. class[2] # "plain"
    BY <1>9
  <2>5. CellsOK(a) => CellsOK(r)
    BY <2>2
  <2>6. ViewTypes(r)
    BY <1>8, <2>2
  <2>. QED BY <1>1, <1>2, <1>3, <1>4, <1>5, <1>8, <2>3, <2>4, <2>5, <2>6 DEF Appended, SameQueue
<1>10. CASE class[2] # "buffered"
  <2>1. class[2] = "plain" /\ \A u \in QueueThreads : storeBuffer[u] = <<>>
    <3>1. class[2] = "plain"
      BY <1>10 DEF QueueTypeOK, RestOK
    <3>. QED BY <3>1 DEF QueueTypeOK
  <2>2. r.mem = [s.mem EXCEPT ![l] = v] /\ r.buf = s.buf
    BY <1>4, <1>10 DEF Store
  <2>3. a.buf[t] = <<<<l, v>>>>
    <3>1. s.buf[t] = <<>> /\ a.buf[t] = Append(s.buf[t], <<l, v>>)
      BY <1>4, <1>5, <1>7, <2>1
    <3>. QED BY <3>1
  <2>4. r.buf = [a.buf EXCEPT ![t] = Tail(@)]
    <3>1. Tail(a.buf[t]) = <<>>
      BY <2>3
    <3>2. \A u \in QueueThreads : s.buf[u] = [a.buf EXCEPT ![t] = Tail(@)][u]
      BY <1>4, <1>5, <1>7, <2>1, <3>1
    <3>. QED BY <1>5, <1>7, <2>2, <3>2
  <2>5. FlushOnly(a, r, t)
    <3>1. a.buf[t] # <<>> /\ Head(a.buf[t]) = <<l, v>>
      BY <2>3
    <3>2. Head(a.buf[t])[1] = l /\ Head(a.buf[t])[2] = v
      BY <3>1
    <3>3. r.mem = [a.mem EXCEPT ![Head(a.buf[t])[1]] = Head(a.buf[t])[2]]
      BY <1>5, <2>2, <3>2
    <3>4. Flushed(a, r, t)
      BY <2>4, <3>1, <3>3 DEF Flushed
    <3>. QED BY <1>4, <1>5, <3>4 DEF FlushOnly, SameQueue
  <2>6. ViewTypes(r)
    <3>1. r.mem \in [Locations -> Int]
      BY <1>7, <2>2
    <3>2. \A u, w \in r.team : SameSide(u, w) /\ Alone(r, u) => u = w
      BY <1>4, <1>7 DEF Alone
    <3>3. \A u \in QueueThreads \ r.team : r.at[u] = "idle" /\ r.buf[u] = <<>>
      BY <1>4, <1>7, <2>2
    <3>. QED BY <1>4, <1>7, <2>2, <3>1, <3>2, <3>3 DEF ViewTypes
  <2>7. CellsOK(a) => CellsOK(r)
    BY <2>5, <2>6, FlushKeeps
  <2>8. ASSUME CellsOK(a), l = Edge(t) => Seen(s, t, l) <= v
        PROVE  Grown
    <3>1. ASSUME NEW u \in QueueThreads
          PROVE  s.mem[Edge(u)] <= r.mem[Edge(u)] /\ Seen(s, u, Edge(u)) <= Seen(r, u, Edge(u))
      <4>1. s.mem[Edge(u)] \in Int /\ Seen(s, u, Edge(u)) \in Int /\ Seen(a, u, Edge(u)) \in Int /\ Seen(r, u, Edge(u)) \in Int
        <5>1. Edge(u) \in Locations
          BY LocationsApart DEF Edge
        <5>. QED BY <1>6, <1>8, <2>6, <5>1, SeenIs DEF ViewTypes
      <4>2. Appended(s, a, t, <<l, v>>)
        BY <1>5 DEF Appended
      <4>3. Seen(a, t, l) = v /\ (\A k : k # l => Seen(a, t, k) = Seen(s, t, k)) /\ (u # t => Seen(a, u, Edge(u)) = Seen(s, u, Edge(u)))
        BY <1>6, <1>8, <4>2, AppendSeen
      <4>4. Seen(s, u, Edge(u)) <= Seen(a, u, Edge(u))
        BY <2>8, <4>1, <4>3
      <4>5. a.mem[Edge(u)] <= r.mem[Edge(u)] /\ Seen(a, u, Edge(u)) <= Seen(r, u, Edge(u))
        BY <2>5, <2>6, <2>8, FlushFronts
      <4>. QED BY <1>5, <4>1, <4>4, <4>5
    <3>. QED BY <1>1, <1>3, <1>4, <3>1 DEF Grown
  <2>9. \A u \in QueueThreads : storeBuffer'[u] = <<>>
    BY <1>4, <2>1, <2>2
  <2>. QED BY <1>1, <1>2, <1>3, <1>4, <1>5, <1>8, <2>6, <2>7, <2>8, <2>9 DEF Appended, SameQueue
<1>. QED BY <1>9, <1>10

(* What every action is shown to do.                                         *)
Kept == QueueTypeOK' /\ CellsOK(QueueView') /\ Grown

LEMMA EndsStay ==
  ASSUME QueueInv, Kept, UNCHANGED <<closed, enqueuedAtClose>>,
         \A c \in Consumers : place'[c] \in EndPlaces =>
           (place'[c] = place[c] /\ seenEnqueue'[c] = seenEnqueue[c]) \/ EndsAt(c)'
  PROVE  EndsOK'
<1>1. PICK p : p \in Producers
  BY QueueConstants
<1>2. memory[Enqueue] \in Int /\ memory'[Enqueue] \in Int /\ enqueuedAtClose \in Int
  BY ViewIs, LocationsApart DEF QueueInv, Kept, QueueTypeOK, RestOK, ViewTypes
<1>3. p \in QueueThreads /\ Edge(p) = Enqueue
  BY <1>1 DEF Edge, QueueThreads
<1>4. memory[Enqueue] <= memory'[Enqueue]
  BY <1>3 DEF Kept, Grown
<1>5. closed' => enqueuedAtClose' <= memory'[Enqueue]
  BY <1>2, <1>4 DEF QueueInv, EndsOK
<1>6. ASSUME NEW c \in Consumers PROVE EndsAt(c)'
  <2>1. CASE place'[c] \in EndPlaces
    <3>1. CASE place'[c] = place[c] /\ seenEnqueue'[c] = seenEnqueue[c]
      <4>1. c \in QueueThreads /\ Edge(c) = Dequeue
        BY QueueConstants DEF Edge, QueueThreads
      <4>2. Seen(QueueView, c, Dequeue) <= Seen(QueueView', c, Dequeue)
        BY <4>1 DEF Kept, Grown
      <4>3. Seen(QueueView, c, Dequeue) \in Int /\ Seen(QueueView', c, Dequeue) \in Int
        BY <4>1, FrontSeen DEF QueueInv, Kept
      <4>4. EndsAt(c)
        BY DEF QueueInv, EndsOK
      <4>5. Load(c, Dequeue) = Seen(QueueView, c, Dequeue) /\ Load(c, Dequeue)' = Seen(QueueView', c, Dequeue)
        BY LoadIs, LoadIsNext
      <4>6. place'[c] = "ended" => Load(c, Dequeue)' >= enqueuedAtClose'
        BY <1>2, <3>1, <4>2, <4>3, <4>4, <4>5 DEF EndsAt
      <4>. QED BY <3>1, <4>4, <4>6 DEF EndsAt
    <3>. QED BY <2>1, <3>1
  <2>. QED BY <2>1 DEF EndsAt, EndPlaces
<1>. QED BY <1>5, <1>6 DEF EndsOK

LEMMA OneThreadMoves ==
  ASSUME QueueInv, NEW t \in QueueThreads, t \in team, UNCHANGED <<class, team, memory, storeBuffer>>, RestOK',
         place' \in [QueueThreads -> QueuePlaces], \A u \in QueueThreads \ {t} : place'[u] = place[u],
         position' \in [QueueThreads -> Int], \A u \in QueueThreads \ {t} : position'[u] = position[u],
         Moves(t)
  PROVE  Kept
<1>1. QueueTypeOK /\ CellsOK(QueueView)
  BY DEF QueueInv
<1>2. \A u \in QueueThreads : (place'[u] = place[u] /\ position'[u] = position[u]) \/ (u \in team /\ Moves(u))
  OBVIOUS
<1>3. ViewTypes(QueueView') /\ CellsOK(QueueView') /\ Grown
  BY <1>1, <1>2, MovesKeep
<1>. QED BY <1>1, <1>3 DEF Kept, QueueTypeOK

(* Where t comes back to its position, or to none.                           *)
LEMMA QuietMoves ==
  ASSUME QueueInv, NEW t \in QueueThreads, place[t] \notin CellPlaces,
         place'[t] \in QuietPlaces \/ (place'[t] = "slot" /\ ~Alone(QueueView, t)),
         position'[t] \in {0, position[t]}
  PROVE  Moves(t)
<1>1. /\ CellsOK(QueueView) /\ ViewTypes(QueueView) /\ ClaimsOK(QueueView)
      /\ QueueView.mem = memory /\ QueueView.pos = position
  BY ViewIs DEF QueueInv, CellsOK
<1>2. position'[t] \in Int /\ memory[Edge(t)] \in Int
  BY <1>1, FrontSeen DEF ViewTypes
<1>3. ~Alone(QueueView, t) => position'[t] <= memory[Edge(t)]
  BY <1>1, <1>2 DEF ClaimsOK
<1>4. place'[t] # "claim" /\ (place'[t] = "slot" => ~Alone(QueueView, t)) /\ place'[t] \in QueuePlaces \ CellPlaces
  BY DEF QuietPlaces, QueuePlaces, CellPlaces
<1>. QED BY <1>2, <1>3, <1>4 DEF Moves

LEMMA OnlyKeeps ==
  ASSUME QueueInv, NEW t \in QueueThreads, t \in team, NEW next, Only(t, next), place[t] \notin CellPlaces,
         next \in QuietPlaces \/ (next = "slot" /\ ~Alone(QueueView, t))
  PROVE  Kept /\ (next \notin EndPlaces => EndsOK')
<1>1. /\ place \in [QueueThreads -> QueuePlaces] /\ position \in [QueueThreads -> Int] /\ RestOK
  BY ViewIs DEF QueueInv, QueueTypeOK, ViewTypes
<1>2. next \in QueuePlaces
  BY DEF QuietPlaces, QueuePlaces
<1>3. /\ place' = [place EXCEPT ![t] = next]
      /\ position' \in {position, [position EXCEPT ![t] = 0]} /\ seenEnqueue' = [seenEnqueue EXCEPT ![t] = 0]
      /\ patient' \in {patient, patient \ {t}}
      /\ UNCHANGED <<sharedVars, memory, storeBuffer, waiting, mutex>>
  BY DEF Only, Settle, Advance
<1>4. RestOK'
  BY <1>1, <1>3 DEF RestOK, sharedVars
<1>5. /\ place' \in [QueueThreads -> QueuePlaces] /\ \A u \in QueueThreads \ {t} : place'[u] = place[u]
      /\ position' \in [QueueThreads -> Int] /\ \A u \in QueueThreads \ {t} : position'[u] = position[u]
      /\ place'[t] = next /\ position'[t] \in {0, position[t]}
  BY <1>1, <1>2, <1>3
<1>6. Moves(t)
  BY <1>5, QuietMoves
<1>7. Kept
  BY <1>3, <1>4, <1>5, <1>6, OneThreadMoves DEF sharedVars
<1>8. ASSUME next \notin EndPlaces PROVE EndsOK'
  <2>1. \A c \in Consumers : c \in QueueThreads
    BY DEF QueueThreads
  <2>2. \A c \in Consumers : place'[c] \in EndPlaces => place'[c] = place[c] /\ seenEnqueue'[c] = seenEnqueue[c]
    BY <1>1, <1>3, <1>5, <1>8, <2>1 DEF RestOK
  <2>. QED BY <1>3, <1>7, <2>2, EndsStay DEF sharedVars
<1>. QED BY <1>7, <1>8

LEMMA QuietKeeps ==
  ASSUME QueueInv, NEW t \in QueueThreads, t \in team, place[t] \notin CellPlaces, NEW next,
         next \in QuietPlaces \/ (next = "slot" /\ ~Alone(QueueView, t)),
         UNCHANGED <<class, team, memory, storeBuffer, closed, enqueuedAtClose>>, RestOK',
         place' = [place EXCEPT ![t] = next], position' \in {position, [position EXCEPT ![t] = 0]},
         \A u \in QueueThreads \ {t} : seenEnqueue'[u] = seenEnqueue[u]
  PROVE  Kept /\ (next \notin EndPlaces => EndsOK')
<1>1. /\ place \in [QueueThreads -> QueuePlaces] /\ position \in [QueueThreads -> Int]
  BY ViewIs DEF QueueInv, QueueTypeOK, ViewTypes
<1>2. next \in QueuePlaces
  BY DEF QuietPlaces, QueuePlaces
<1>5. /\ place' \in [QueueThreads -> QueuePlaces] /\ \A u \in QueueThreads \ {t} : place'[u] = place[u]
      /\ position' \in [QueueThreads -> Int] /\ \A u \in QueueThreads \ {t} : position'[u] = position[u]
      /\ place'[t] = next /\ position'[t] \in {0, position[t]}
  BY <1>1, <1>2
<1>6. Moves(t)
  BY <1>5, QuietMoves
<1>7. Kept
  BY <1>5, <1>6, OneThreadMoves
<1>8. ASSUME next \notin EndPlaces PROVE EndsOK'
  <2>1. \A c \in Consumers : c \in QueueThreads
    BY DEF QueueThreads
  <2>2. \A c \in Consumers : place'[c] \in EndPlaces => place'[c] = place[c] /\ seenEnqueue'[c] = seenEnqueue[c]
    BY <1>5, <1>8, <2>1
  <2>. QED BY <1>7, <2>2, EndsStay
<1>. QED BY <1>7, <1>8

(* The operations that leave the cells alone.                                *)
LEMMA RetryKeeps ==
  ASSUME QueueInv, NEW t \in QueueThreads, t \in team, NEW again, Retry(t, again), place[t] \notin CellPlaces,
         again \in QuietPlaces \ EndPlaces
  PROVE  Kept /\ EndsOK'
<1>1. CASE t \notin patient /\ Only(t, again)
  BY <1>1, OnlyKeeps
<1>2. CASE /\ Advance(t, "lock")
           /\ patient' = patient \union {t}
           /\ UNCHANGED <<sharedVars, memory, storeBuffer, waiting, mutex, position, seenEnqueue>>
  <2>1. RestOK'
    BY <1>2 DEF QueueInv, QueueTypeOK, RestOK, sharedVars
  <2>2. "lock" \in QuietPlaces \ EndPlaces
    BY DEF QuietPlaces, QueuePlaces, EndPlaces, CellPlaces
  <2>. QED BY <1>2, <2>1, <2>2, QuietKeeps DEF Advance, sharedVars
<1>. QED BY <1>1, <1>2 DEF Retry

LEMMA LockKeeps ==
  ASSUME QueueInv, NEW t \in QueueThreads, t \in team, NEW c \in {"notEmpty", "notFull"}, NEW from, NEW next,
         Lock(t, from, c, next), from \notin CellPlaces, next \in QuietPlaces \ EndPlaces
  PROVE  Kept /\ EndsOK'
<1>1. RestOK'
  BY DEF Lock, QueueInv, QueueTypeOK, RestOK, sharedVars
<1>. QED BY <1>1, QuietKeeps DEF Lock, Advance, sharedVars

LEMMA UnlockKeeps ==
  ASSUME QueueInv, NEW t \in QueueThreads, t \in team, NEW c \in {"notEmpty", "notFull"}, NEW next,
         Unlock(t, c, next), place[t] \notin CellPlaces, next \in QuietPlaces
  PROVE  Kept /\ (next \notin EndPlaces => EndsOK')
<1>1. /\ place' = [place EXCEPT ![t] = next]
      /\ position' \in {position, [position EXCEPT ![t] = 0]} /\ seenEnqueue' = [seenEnqueue EXCEPT ![t] = 0]
      /\ patient' \in {patient, patient \ {t}} /\ mutex' = [mutex EXCEPT ![c] = Nobody]
      /\ UNCHANGED <<sharedVars, memory, storeBuffer, waiting>>
  BY DEF Unlock, Settle, Advance
<1>2. RestOK
  BY DEF QueueInv, QueueTypeOK
<1>3. RestOK'
  BY <1>1, <1>2 DEF RestOK, sharedVars
<1>. QED BY <1>1, <1>2, <1>3, QuietKeeps DEF RestOK, sharedVars

LEMMA CountKeeps ==
  ASSUME QueueInv, NEW t \in QueueThreads, t \in team, NEW c \in {"notEmpty", "notFull"}, Count(t, c)
  PROVE  Kept /\ EndsOK'
<1>1. RestOK'
  BY DEF Count, QueueInv, QueueTypeOK, RestOK, sharedVars
<1>2. "predicate" \in QuietPlaces \ EndPlaces /\ "count" \notin CellPlaces
  BY DEF QuietPlaces, QueuePlaces, EndPlaces, CellPlaces
<1>. QED BY <1>1, <1>2, QuietKeeps DEF Count, Advance, sharedVars

LEMMA UncountKeeps ==
  ASSUME QueueInv, NEW t \in QueueThreads, t \in team, NEW c \in {"notEmpty", "notFull"}, NEW next,
         Uncount(t, c, next), next \in QuietPlaces \ EndPlaces
  PROVE  Kept /\ EndsOK'
<1>1. RestOK'
  BY DEF Uncount, QueueInv, QueueTypeOK, RestOK, sharedVars
<1>2. "uncount" \notin CellPlaces
  BY DEF CellPlaces
<1>. QED BY <1>1, <1>2, QuietKeeps DEF Uncount, Advance, sharedVars

LEMMA LoadSizeKeeps ==
  ASSUME QueueInv, NEW t \in QueueThreads, t \in team, NEW from, NEW next, LoadSize(t, from, next),
         from \notin CellPlaces, next \in QuietPlaces
  PROVE  Kept /\ (next \notin EndPlaces => EndsOK')
<1>1. Load(t, Enqueue) \in Int
  BY LoadIs, SeenIs, LocationsApart DEF QueueInv, QueueTypeOK
<1>2. RestOK
  BY DEF QueueInv, QueueTypeOK
<1>3. RestOK'
  BY <1>1, <1>2 DEF LoadSize, RestOK, sharedVars
<1>. QED BY <1>2, <1>3, QuietKeeps DEF LoadSize, Advance, RestOK, sharedVars

LEMMA WaitKeeps ==
  ASSUME QueueInv, NEW t \in QueueThreads, t \in team, NEW c \in {"notEmpty", "notFull"}, NEW satisfied, Wait(t, c, satisfied)
  PROVE  Kept /\ EndsOK'
<1>1. /\ {"uncount", "predicate", "predicateSize", "asleep"} \subseteq QuietPlaces \ EndPlaces
      /\ "predicate" \notin CellPlaces /\ "predicateSize" \notin CellPlaces /\ "woken" \notin CellPlaces
  BY DEF QuietPlaces, QueuePlaces, EndPlaces, CellPlaces
<1>2. CASE place[t] \in {"predicate", "predicateSize"} /\ Only(t, "uncount")
  BY <1>1, <1>2, OnlyKeeps
<1>3. CASE LoadSize(t, "predicate", "predicateSize")
  BY <1>1, <1>3, LoadSizeKeeps
<1>4. CASE place[t] = "predicateSize" /\ Unlock(t, c, "asleep")
  BY <1>1, <1>4, UnlockKeeps
<1>5. CASE Lock(t, "woken", c, "predicate")
  BY <1>1, <1>5, LockKeeps
<1>. QED BY <1>2, <1>3, <1>4, <1>5 DEF Wait

(* A notification, and NotifyAll(): threads asleep are woken.                *)
LEMMA WakeKeeps ==
  ASSUME QueueInv, UNCHANGED <<class, team, memory, storeBuffer, closed, enqueuedAtClose, position, seenEnqueue>>,
         RestOK', place' \in [QueueThreads -> QueuePlaces],
         \A t \in QueueThreads : \/ place'[t] = place[t]
                                 \/ /\ place[t] \in {"wake", "asleep"} /\ place'[t] \in {"idle", "woken"}
  PROVE  Kept /\ EndsOK'
<1>1. /\ QueueTypeOK /\ CellsOK(QueueView) /\ ViewTypes(QueueView) /\ position \in [QueueThreads -> Int]
      /\ \A t \in QueueThreads \ team : place[t] = "idle"
  BY ViewIs DEF QueueInv, QueueTypeOK, ViewTypes
<1>2. ASSUME NEW t \in QueueThreads PROVE (place'[t] = place[t] /\ position'[t] = position[t]) \/ (t \in team /\ Moves(t))
  <2>1. CASE place'[t] = place[t]
    BY <2>1
  <2>2. CASE place[t] \in {"wake", "asleep"} /\ place'[t] \in {"idle", "woken"}
    <3>1. t \in team
      BY <1>1, <2>2
    <3>2. place[t] \notin CellPlaces /\ place'[t] \in QuietPlaces
      BY <2>2 DEF CellPlaces, QuietPlaces, QueuePlaces
    <3>. QED BY <3>1, <3>2, QuietMoves
  <2>. QED BY <2>1, <2>2
<1>3. Kept
  BY <1>1, <1>2, MovesKeep DEF Kept, QueueTypeOK
<1>4. \A c \in Consumers : place'[c] \in EndPlaces => place'[c] = place[c] /\ seenEnqueue'[c] = seenEnqueue[c]
  BY DEF EndPlaces, QueueThreads
<1>. QED BY <1>3, <1>4, EndsStay

LEMMA NotifyKeeps ==
  ASSUME QueueInv, NEW t \in QueueThreads, t \in team, NEW c \in {"notEmpty", "notFull"}, Notify(t, c)
  PROVE  Kept /\ EndsOK'
<1>1. CASE TestWaiting(t, c)
  <2>1. {"idle", "wake"} \subseteq QuietPlaces \ EndPlaces /\ "notify" \notin CellPlaces
    BY DEF QuietPlaces, QueuePlaces, EndPlaces, CellPlaces
  <2>2. PICK next \in {"idle", "wake"} : Only(t, next)
    BY <1>1 DEF TestWaiting
  <2>. QED BY <1>1, <2>1, <2>2, OnlyKeeps DEF TestWaiting
<1>2. CASE NotifyOne(t, c)
  <2>1. RestOK'
    BY <1>2 DEF NotifyOne, QueueInv, QueueTypeOK, RestOK, sharedVars
  <2>2. place \in [QueueThreads -> QueuePlaces]
    BY ViewIs DEF QueueInv, QueueTypeOK, ViewTypes
  <2>3. \A s \in Sleepers(c) : s \in QueueThreads /\ place[s] = "asleep"
    BY DEF Sleepers, QueueThreads
  <2>4. {"idle", "woken"} \subseteq QueuePlaces
    BY DEF QueuePlaces
  <2>5. CASE Advance(t, "idle")
    BY <1>2, <2>1, <2>2, <2>4, <2>5, WakeKeeps DEF NotifyOne, Advance, sharedVars
  <2>6. CASE \E s \in Sleepers(c) : place' = [place EXCEPT ![t] = "idle", ![s] = "woken"]
    BY <1>2, <2>1, <2>2, <2>3, <2>4, <2>6, WakeKeeps DEF NotifyOne, sharedVars
  <2>. QED BY <1>2, <2>5, <2>6 DEF NotifyOne
<1>. QED BY <1>1, <1>2 DEF Notify

LEMMA NotifyAllKeeps ==
  ASSUME QueueInv, NotifyAll
  PROVE  Kept /\ EndsOK'
<1>1. RestOK
  BY DEF QueueInv, QueueTypeOK
<1>2. RestOK'
  BY <1>1 DEF NotifyAll, RestOK
<1>3. place \in [QueueThreads -> QueuePlaces] /\ "woken" \in QueuePlaces
  BY ViewIs DEF QueueInv, QueueTypeOK, ViewTypes, QueuePlaces
<1>4. \A k : \A s \in Sleepers(k) : place[s] = "asleep"
  BY DEF Sleepers
<1>5. place' \in [QueueThreads -> QueuePlaces]
  BY <1>3 DEF NotifyAll
<1>6. \A t \in QueueThreads : place'[t] = place[t] \/ (place[t] = "asleep" /\ place'[t] = "woken")
  BY <1>4 DEF NotifyAll
<1>. QED BY <1>2, <1>5, <1>6, WakeKeeps DEF NotifyAll

(* Close() reads the position that the producers have reached.               *)
LEMMA CloseKeeps ==
  ASSUME QueueInv, Close
  PROVE  Kept /\ EndsOK'
<1>1. QueueTypeOK /\ RestOK /\ memory \in [Locations -> Int] /\ CellsOK(QueueView) /\ Enqueue \in Locations
  BY ViewIs, LocationsApart DEF QueueInv, QueueTypeOK, ViewTypes
<1>2. memory[Enqueue] \in Int
  BY <1>1
<1>3. RestOK'
  BY <1>1, <1>2 DEF Close, RestOK
<1>4. Kept
  <2>1. place \in [QueueThreads -> QueuePlaces] /\ position \in [QueueThreads -> Int]
    BY <1>1, ViewIs DEF QueueTypeOK, ViewTypes
  <2>2. ViewTypes(QueueView') /\ CellsOK(QueueView') /\ Grown
    BY <1>1, <2>1, MovesKeep DEF Close
  <2>. QED BY <1>1, <1>3, <2>2 DEF Kept, QueueTypeOK, Close
<1>5. EndsOK'
  <2>1. \A c \in Consumers : place[c] \notin EndPlaces
    BY DEF Close, QueueInv, EndsOK, EndsAt
  <2>2. \A c \in Consumers : EndsAt(c)'
    BY <2>1 DEF EndsAt, EndPlaces, Close
  <2>3. enqueuedAtClose' <= memory'[Enqueue]
    BY <1>2 DEF Close
  <2>. QED BY <2>2, <2>3 DEF EndsOK
<1>. QED BY <1>4, <1>5

-----------------------------------------------------------------------------
(* The operations on the cells.                                              *)
LEMMA SameGrown ==
  ASSUME QueueInv, UNCHANGED <<memory, storeBuffer>>
  PROVE  Grown
<1>1. ASSUME NEW t \in QueueThreads
      PROVE  memory[Edge(t)] <= memory'[Edge(t)] /\ Seen(QueueView, t, Edge(t)) <= Seen(QueueView', t, Edge(t))
  <2>1. /\ QueueView.mem[Edge(t)] \in Int /\ Seen(QueueView, t, Edge(t)) \in Int
    BY FrontSeen DEF QueueInv
  <2>2. Seen(QueueView', t, Edge(t)) = Seen(QueueView, t, Edge(t))
    BY ViewIs DEF Seen, Waits
  <2>. QED BY <2>1, <2>2, ViewIs
<1>. QED BY <1>1 DEF Grown

LEMMA LoadPositionKeeps ==
  ASSUME QueueInv, NEW t \in QueueThreads, t \in team, NEW from, NEW next, LoadPosition(t, from, Edge(t), next),
         from \notin CellPlaces, next \in {"slot", "again"}
  PROVE  Kept /\ EndsOK'
<1>1. /\ CellsOK(QueueView) /\ RestOK /\ place \in [QueueThreads -> QueuePlaces] /\ position \in [QueueThreads -> Int]
  BY ViewIs DEF QueueInv, QueueTypeOK, ViewTypes
<1>2. /\ Seen(QueueView, t, Edge(t)) \in Int
      /\ memory[Edge(t)] \in Int
      /\ ~Alone(QueueView, t) => Seen(QueueView, t, Edge(t)) = memory[Edge(t)]
  BY <1>1, ViewIs, FrontSeen
<1>3. /\ position' = [position EXCEPT ![t] = Seen(QueueView, t, Edge(t))]
      /\ place' = [place EXCEPT ![t] = next] /\ place[t] = from
      /\ UNCHANGED <<sharedVars, memory, storeBuffer, waiting, mutex, seenEnqueue, patient>>
  BY LoadIs DEF LoadPosition, Advance
<1>4. next \in QueuePlaces \ (CellPlaces \union EndPlaces) /\ next # "claim"
  BY DEF QueuePlaces, CellPlaces, EndPlaces
<1>5. RestOK'
  BY <1>1, <1>3 DEF RestOK, sharedVars
<1>6. /\ place' \in [QueueThreads -> QueuePlaces] /\ \A u \in QueueThreads \ {t} : place'[u] = place[u]
      /\ position' \in [QueueThreads -> Int] /\ \A u \in QueueThreads \ {t} : position'[u] = position[u]
      /\ place'[t] = next /\ position'[t] = Seen(QueueView, t, Edge(t))
  BY <1>1, <1>2, <1>3, <1>4
<1>7. Moves(t)
  BY <1>2, <1>3, <1>4, <1>6 DEF Moves
<1>8. Kept
  BY <1>3, <1>5, <1>6, <1>7, OneThreadMoves DEF sharedVars
<1>9. \A c \in Consumers : place'[c] \in EndPlaces => place'[c] = place[c] /\ seenEnqueue'[c] = seenEnqueue[c]
  BY <1>3, <1>4, <1>6 DEF QueueThreads
<1>. QED BY <1>3, <1>8, <1>9, EndsStay DEF sharedVars

(* A cell that looks ready is: a store to it that waits says something else. *)
LEMMA LooksReady ==
  ASSUME NEW s, CellsOK(s), NEW t \in QueueThreads, NEW q \in Int, s.kind # "SPSC",
         Seen(s, t, Sequence(q)) = Expected(t, q)
  PROVE  Avail(s, t, q) /\ ~OwnsStill(s, t, q)
<1>1. ViewTypes(s) /\ Sequence(q) \in Locations
  BY LocationsApart DEF CellsOK
<1>2. Waits(s, t, Sequence(q)) = {}
  <2>1. SUFFICES ASSUME Waits(s, t, Sequence(q)) # {} PROVE FALSE
    OBVIOUS
  <2>2. PICK m \in Waits(s, t, Sequence(q)) : Seen(s, t, Sequence(q)) = s.buf[t][m][2]
    BY <1>1, <2>1, SeenIs
  <2>3. m \in DOMAIN s.buf[t]
    BY DEF Waits
  <2>4. PICK k \in Int : k % Capacity = q % Capacity /\ s.buf[t][m] = Hand(s, t, k)
    BY <2>3, WaitsKinds
  <2>5. Following(t, k) = Expected(t, q)
    BY <2>2, <2>4 DEF Hand
  <2>6. Capacity \in Int /\ Capacity >= 2
    BY QueueConstants
  <2>7. k <= q => k = q \/ k + Capacity <= q
    BY <2>4, SameCell
  <2>. QED BY <2>5, <2>6, <2>7 DEF Following, Expected
<1>3. s.mem[Sequence(q)] = Expected(t, q)
  BY <1>1, <1>2, SeenIs
<1>4. \A i \in DOMAIN s.buf[t] : s.buf[t][i] # Hand(s, t, q)
  BY <1>2 DEF Waits, Hand
<1>. QED BY <1>3, <1>4 DEF Avail, OwnsStill

(* What the one thread of a side reads is ahead of what it has published.    *)
LEMMA ChoosesFree ==
  ASSUME NEW s, CellsOK(s), NEW t \in QueueThreads, s.kind = "SPSC", s.at[t] = "slot",
         IF t \in Producers THEN s.pos[t] - s.mem[Dequeue] < Capacity ELSE s.pos[t] # s.mem[Enqueue]
  PROVE  Avail(s, t, s.pos[t]) /\ ~OwnsStill(s, t, s.pos[t])
<1>1. s.pos[t] \in Int /\ FrontsOK(s) /\ OwnedOnce(s) /\ Alone(s, t)
  BY DEF CellsOK, ViewTypes, Alone
<1>2. s.pos[t] = Seen(s, t, Edge(t))
  BY <1>1 DEF FrontsOK, Choosing
<1>3. s.mem[Enqueue] \in Int /\ s.mem[Dequeue] \in Int /\ s.mem[Edge(t)] <= s.pos[t] /\ Capacity \in Int
  <2>1. s.mem[Edge(t)] <= s.pos[t]
    BY <1>2, FrontSeen
  <2>2. s.mem \in [Locations -> Int]
    BY DEF CellsOK, ViewTypes
  <2>3. s.mem[Enqueue] \in Int /\ s.mem[Dequeue] \in Int
    BY <2>2, LocationsApart
  <2>4. Capacity \in Int
    BY QueueConstants
  <2>. QED BY <2>1, <2>3, <2>4
<1>4. ~OwnsStill(s, t, s.pos[t])
  <2>1. SUFFICES ASSUME NEW i \in DOMAIN s.buf[t], s.buf[t][i] = Hand(s, t, s.pos[t]) PROVE FALSE
    BY DEF OwnsStill
  <2>2. s.buf[t][i][1] = Edge(t) /\ s.buf[t][i][2] = s.pos[t] + 1
    BY <2>1 DEF Hand, FrontStore
  <2>3. i \in Waits(s, t, Edge(t))
    BY <2>2 DEF Waits
  <2>4. s.buf[t][i][2] <= Seen(s, t, Edge(t))
    BY <2>3, FrontSeen
  <2>. QED BY <1>1, <1>2, <2>2, <2>4
<1>5. CASE t \in Producers
  BY <1>1, <1>3, <1>4, <1>5 DEF Avail, Edge
<1>6. CASE t \notin Producers
  <2>1. Edge(t) = Dequeue
    BY <1>6 DEF Edge
  <2>2. s.pos[t] <= s.mem[Enqueue]
    <3>1. CASE s.pos[t] = s.mem[Dequeue]
      BY <1>1, <3>1 DEF FrontsOK
    <3>2. CASE s.pos[t] # s.mem[Dequeue]
      <4>1. s.pos[t] - 1 \in Int /\ s.mem[Dequeue] <= s.pos[t] - 1 /\ s.pos[t] - 1 < s.pos[t]
        BY <1>1, <1>3, <2>1, <3>2
      <4>2. OwnsStill(s, t, s.pos[t] - 1)
        BY <1>1, <1>2, <2>1, <4>1 DEF FrontsOK
      <4>3. Avail(s, t, s.pos[t] - 1)
        BY <1>1, <4>1, <4>2 DEF OwnedOnce, Owns
      <4>. QED BY <1>1, <1>3, <1>6, <4>3 DEF Avail
    <3>. QED BY <3>1, <3>2
  <2>. QED BY <1>1, <1>3, <1>4, <1>6, <2>1, <2>2 DEF Avail
<1>. QED BY <1>5, <1>6

(* The one thread of a side takes a position: nothing in memory shows it.    *)
LEMMA ChoiceKeeps ==
  ASSUME QueueInv, NEW t \in QueueThreads, t \in team, Alone(QueueView, t), place[t] = "slot", NEW next, Only(t, next),
         next \in {"construct", "take"} \/ (next = "raise" /\ class[1] = "MPSC" /\ t \notin Producers),
         Avail(QueueView, t, position[t]), ~OwnsStill(QueueView, t, position[t])
  PROVE  Kept /\ EndsOK'
<1>1. PICK s : s = QueueView
  OBVIOUS
<1>2. PICK r : r = QueueView'
  OBVIOUS
<1>3. /\ place' = [place EXCEPT ![t] = next] /\ position' = position /\ seenEnqueue' = [seenEnqueue EXCEPT ![t] = 0]
      /\ patient' = patient /\ UNCHANGED <<sharedVars, memory, storeBuffer, waiting, mutex>>
  BY DEF Only, Settle, Advance
<1>4. /\ s.kind = class[1] /\ s.team = team /\ s.mem = memory /\ s.buf = storeBuffer /\ s.at = place /\ s.pos = position
      /\ r.kind = s.kind /\ r.team = s.team /\ r.mem = s.mem /\ r.buf = s.buf /\ r.at = place' /\ r.pos = s.pos
  BY <1>1, <1>2, <1>3, ViewIs DEF sharedVars
<1>5. CellsOK(s) /\ ViewTypes(s) /\ RestOK
  BY <1>1 DEF QueueInv, QueueTypeOK
<1>6. next \in QueuePlaces \ EndPlaces /\ next \in CellPlaces
  BY DEF QueuePlaces, CellPlaces, EndPlaces
<1>7. r.at[t] = next /\ \A u \in QueueThreads \ {t} : r.at[u] = s.at[u]
  BY <1>3, <1>4, <1>5 DEF ViewTypes
<1>8. ViewTypes(r)
  <2>1. r.at \in [QueueThreads -> QueuePlaces]
    BY <1>3, <1>4, <1>5, <1>6 DEF ViewTypes
  <2>2. \A u, w \in r.team : SameSide(u, w) /\ Alone(r, u) => u = w
    BY <1>4, <1>5 DEF ViewTypes, Alone
  <2>3. \A u \in QueueThreads \ r.team : r.at[u] = "idle" /\ r.buf[u] = <<>>
    BY <1>4, <1>5, <1>7 DEF ViewTypes
  <2>. QED BY <1>4, <1>5, <2>1, <2>2, <2>3 DEF ViewTypes
<1>9. ASSUME NEW u \in QueueThreads, SameSide(t, u) PROVE ~Owns(s, u, s.pos[t])
  <2>1. CASE u = t
    BY <1>1, <1>4, <2>1 DEF Owns, OwnsNow, CellPlaces
  <2>2. CASE u # t
    <3>1. u \notin s.team
      BY <1>1, <1>4, <1>5, <1>9, <2>2 DEF ViewTypes
    <3>2. s.at[u] = "idle" /\ s.buf[u] = <<>>
      BY <1>5, <3>1 DEF ViewTypes
    <3>. QED BY <3>2 DEF Owns, OwnsNow, OwnsStill, CellPlaces
  <2>. QED BY <2>1, <2>2
<1>10. ~Done(r, t)
  BY <1>4, <1>7 DEF Done
<1>11. CellsOK(r)
  <2>1. s.pos[t] \in Int /\ s.at[t] \notin CellPlaces /\ Alone(s, t) /\ Avail(s, t, s.pos[t])
    BY <1>1, <1>4, <1>5 DEF ViewTypes, CellPlaces
  <2>. QED BY <1>4, <1>5, <1>6, <1>7, <1>8, <1>9, <1>10, <2>1, ClaimKeeps DEF SameQueue
<1>12. RestOK'
  BY <1>3, <1>5 DEF RestOK, sharedVars
<1>13. Kept
  BY <1>2, <1>3, <1>8, <1>11, <1>12, SameGrown DEF Kept, QueueTypeOK, QueueInv, sharedVars
<1>14. \A c \in Consumers : place'[c] \in EndPlaces => place'[c] = place[c] /\ seenEnqueue'[c] = seenEnqueue[c]
  BY <1>3, <1>4, <1>5, <1>6, <1>7 DEF QueueThreads, RestOK
<1>. QED BY <1>3, <1>13, <1>14, EndsStay DEF sharedVars

LEMMA TestSequenceKeeps ==
  ASSUME QueueInv, NEW t \in QueueThreads, t \in team, class[1] # "SPSC", NEW onEqual, NEW onLess, NEW onMore,
         TestSequence(t, Expected(t, position[t]), onEqual, onLess, onMore),
         onLess \in QuietPlaces \ EndPlaces, onMore \in QuietPlaces \ EndPlaces,
         IF Alone(QueueView, t)
         THEN onEqual \in {"construct", "take"} \/ (onEqual = "raise" /\ class[1] = "MPSC" /\ t \notin Producers)
         ELSE onEqual = "claim"
  PROVE  Kept /\ EndsOK'
<1>1. /\ CellsOK(QueueView) /\ RestOK /\ place \in [QueueThreads -> QueuePlaces] /\ position \in [QueueThreads -> Int]
      /\ QueueView.kind = class[1] /\ QueueView.mem = memory /\ QueueView.pos = position
  BY ViewIs DEF QueueInv, QueueTypeOK, ViewTypes
<1>2. place[t] = "slot" /\ "slot" \notin CellPlaces
  BY DEF TestSequence, CellPlaces
<1>3. Load(t, Sequence(position[t])) = Seen(QueueView, t, Sequence(position[t])) /\ position[t] \in Int
  BY <1>1, LoadIs
<1>4. CASE Seen(QueueView, t, Sequence(position[t])) # Expected(t, position[t])
  <2>1. Only(t, onLess) \/ Only(t, onMore)
    BY <1>3, <1>4 DEF TestSequence
  <2>2. CASE Only(t, onLess)
    BY <1>2, <2>2, OnlyKeeps
  <2>3. CASE Only(t, onMore)
    BY <1>2, <2>3, OnlyKeeps
  <2>. QED BY <2>1, <2>2, <2>3
<1>5. CASE Seen(QueueView, t, Sequence(position[t])) = Expected(t, position[t])
  <2>1. Only(t, onEqual)
    <3>1. Expected(t, position[t]) \in Int
      BY <1>3 DEF Expected
    <3>. QED BY <1>3, <1>5, <3>1 DEF TestSequence
  <2>2. Avail(QueueView, t, position[t]) /\ ~OwnsStill(QueueView, t, position[t])
    BY <1>1, <1>3, <1>5, LooksReady
  <2>3. CASE Alone(QueueView, t)
    BY <1>2, <2>1, <2>2, <2>3, ChoiceKeeps
  <2>4. CASE ~Alone(QueueView, t)
    <3>1. /\ place' = [place EXCEPT ![t] = "claim"] /\ position' = position /\ seenEnqueue' = [seenEnqueue EXCEPT ![t] = 0]
          /\ patient' = patient /\ UNCHANGED <<sharedVars, memory, storeBuffer, waiting, mutex>>
      BY <2>1, <2>4 DEF Only, Settle, Advance
    <3>2. "claim" \in QueuePlaces \ (CellPlaces \union EndPlaces)
      BY DEF QueuePlaces, CellPlaces, EndPlaces
    <3>3. /\ place' \in [QueueThreads -> QueuePlaces] /\ \A u \in QueueThreads \ {t} : place'[u] = place[u]
          /\ place'[t] = "claim"
      BY <1>1, <3>1, <3>2
    <3>4. position[t] <= memory[Edge(t)]
      BY <1>1, <2>4 DEF CellsOK, ClaimsOK
    <3>5. memory[Sequence(position[t])] = Expected(t, position[t])
      BY <1>1, <2>2 DEF Avail
    <3>6. Moves(t)
      BY <1>2, <1>3, <2>4, <3>1, <3>2, <3>3, <3>4, <3>5 DEF Moves
    <3>7. RestOK'
      BY <1>1, <3>1 DEF RestOK, sharedVars
    <3>8. Kept
      BY <1>1, <3>1, <3>3, <3>6, <3>7, OneThreadMoves DEF sharedVars
    <3>9. \A c \in Consumers : place'[c] \in EndPlaces => place'[c] = place[c] /\ seenEnqueue'[c] = seenEnqueue[c]
      BY <1>1, <3>1, <3>2, <3>3 DEF QueueThreads, RestOK
    <3>. QED BY <3>1, <3>8, <3>9, EndsStay DEF sharedVars
  <2>. QED BY <2>3, <2>4
<1>. QED BY <1>4, <1>5

(* The compare and swap of a side with several threads.                      *)
LEMMA SwapKeeps ==
  ASSUME QueueInv, NEW t \in QueueThreads, t \in team, ~Alone(QueueView, t), NEW next, NEW onFailure,
         Claim(t, Edge(t), next, onFailure), next \in {"construct", "take"}, onFailure \in {"again", "slot"}
  PROVE  Kept /\ EndsOK'
<1>1. PICK s : s = QueueView
  OBVIOUS
<1>2. PICK r : r = QueueView'
  OBVIOUS
<1>3. CellsOK(s) /\ ViewTypes(s) /\ ClaimsOK(s) /\ RestOK /\ ~Alone(s, t)
  BY <1>1 DEF QueueInv, QueueTypeOK, CellsOK
<1>4. /\ s.kind = class[1] /\ s.team = team /\ s.mem = memory /\ s.buf = storeBuffer /\ s.at = place /\ s.pos = position
  BY <1>1, ViewIs
<1>5. /\ position \in [QueueThreads -> Int] /\ place \in [QueueThreads -> QueuePlaces] /\ memory \in [Locations -> Int]
      /\ Edge(t) \in Locations
  BY <1>3, <1>4, LocationsApart DEF ViewTypes, Edge
<1>6. /\ place[t] = "claim" /\ "claim" \notin CellPlaces
      /\ UNCHANGED <<sharedVars, storeBuffer, waiting, mutex, seenEnqueue, patient>>
  BY DEF Claim, CellPlaces
<1>7. RestOK'
  BY <1>3, <1>6 DEF RestOK, sharedVars
<1>8. /\ next \in QueuePlaces \ EndPlaces /\ next \in CellPlaces
      /\ onFailure \in QueuePlaces \ (CellPlaces \union EndPlaces) /\ onFailure # "claim"
  BY DEF QueuePlaces, CellPlaces, EndPlaces
<1>9. CASE memory[Edge(t)] = position[t]
  <2>1. memory' = [memory EXCEPT ![Edge(t)] = @ + 1] /\ place' = [place EXCEPT ![t] = next] /\ position' = position
    BY <1>9 DEF Claim, Advance
  <2>2. r.kind = s.kind /\ r.team = s.team /\ r.mem = memory' /\ r.buf = s.buf /\ r.at = place' /\ r.pos = s.pos
    BY <1>2, <1>4, <1>6, <2>1, ViewIs DEF sharedVars
  <2>3. r.at[t] = next /\ \A u \in QueueThreads \ {t} : r.at[u] = s.at[u]
    BY <1>4, <1>5, <2>1, <2>2
  <2>4. ViewTypes(r)
    <3>1. r.at \in [QueueThreads -> QueuePlaces] /\ r.mem \in [Locations -> Int]
      BY <1>5, <1>8, <2>1, <2>2
    <3>2. \A u, w \in r.team : SameSide(u, w) /\ Alone(r, u) => u = w
      BY <1>3, <2>2 DEF ViewTypes, Alone
    <3>3. \A u \in QueueThreads \ r.team : r.at[u] = "idle" /\ r.buf[u] = <<>>
      BY <1>3, <1>4, <2>2, <2>3 DEF ViewTypes
    <3>. QED BY <1>3, <2>2, <3>1, <3>2, <3>3 DEF ViewTypes
  <2>5. s.pos[t] \in Int /\ s.pos[t] = s.mem[Edge(t)]
    BY <1>4, <1>5, <1>9
  <2>6. ASSUME NEW u \in QueueThreads, SameSide(t, u) PROVE ~Owns(s, u, s.pos[t])
    <3>1. Edge(u) = Edge(t) /\ ~Alone(s, u)
      BY <1>3, <2>6 DEF SameSide, Edge, Alone
    <3>2. Owns(s, u, s.pos[t]) => s.pos[t] < s.mem[Edge(t)]
      BY <1>3, <2>5, <3>1 DEF ClaimsOK
    <3>. QED BY <2>5, <3>2
  <2>7. Avail(s, t, s.pos[t])
    <3>1. s.mem[Sequence(s.pos[t])] = Expected(t, s.pos[t])
      BY <1>3, <1>4, <1>6, <2>5 DEF ClaimsOK
    <3>. QED BY <1>3, <3>1 DEF Avail, Alone
  <2>8. ~Done(r, t)
    BY <2>3 DEF Done
  <2>9. CellsOK(r)
    <3>1. r.mem = [s.mem EXCEPT ![Edge(t)] = @ + 1]
      BY <1>4, <2>1, <2>2
    <3>2. s.at[t] \notin CellPlaces
      BY <1>4, <1>6
    <3>. QED BY <1>3, <1>8, <2>2, <2>3, <2>4, <2>5, <2>6, <2>7, <2>8, <3>1, <3>2, ClaimKeeps DEF SameQueue
  <2>10. Grown
    <3>1. ASSUME NEW u \in QueueThreads
          PROVE  s.mem[Edge(u)] <= r.mem[Edge(u)] /\ Seen(s, u, Edge(u)) <= Seen(r, u, Edge(u))
      <4>1. s.mem[Edge(u)] \in Int /\ Seen(s, u, Edge(u)) \in Int
        BY <1>3, FrontSeen
      <4>2. CASE SameSide(t, u)
        <5>1. Edge(u) = Edge(t) /\ ~Alone(s, u) /\ ~Alone(r, u)
          BY <1>3, <2>2, <4>2 DEF SameSide, Edge, Alone
        <5>2. Seen(s, u, Edge(u)) = s.mem[Edge(u)] /\ Seen(r, u, Edge(u)) = r.mem[Edge(u)]
          BY <1>3, <2>9, <5>1, FrontSeen
        <5>3. r.mem[Edge(t)] = s.mem[Edge(t)] + 1
          BY <1>4, <1>5, <2>1, <2>2
        <5>. QED BY <4>1, <5>1, <5>2, <5>3
      <4>3. CASE ~SameSide(t, u)
        <5>1. Edge(u) # Edge(t)
          BY <4>3, LocationsApart DEF SameSide, Edge
        <5>2. r.mem[Edge(u)] = s.mem[Edge(u)]
          BY <1>4, <1>5, <2>1, <2>2, <5>1, LocationsApart DEF Edge
        <5>3. Seen(r, u, Edge(u)) = Seen(s, u, Edge(u))
          BY <2>2, <5>2 DEF Seen, Waits
        <5>. QED BY <4>1, <5>2, <5>3
      <4>. QED BY <4>2, <4>3
    <3>. QED BY <1>1, <1>2, <1>4, <2>2, <3>1 DEF Grown
  <2>11. Kept
    <3>1. class[2] = "plain" => \A u \in QueueThreads : storeBuffer[u] = <<>>
      BY DEF QueueInv, QueueTypeOK
    <3>2. class' = class /\ storeBuffer' = storeBuffer
      BY <1>6 DEF sharedVars
    <3>3. QueueTypeOK'
      BY <1>2, <1>7, <2>4, <3>1, <3>2 DEF QueueTypeOK
    <3>. QED BY <1>2, <2>9, <2>10, <3>3 DEF Kept
  <2>12. \A c \in Consumers : place'[c] \in EndPlaces => place'[c] = place[c] /\ seenEnqueue'[c] = seenEnqueue[c]
    BY <1>4, <1>6, <1>8, <2>2, <2>3 DEF QueueThreads
  <2>. QED BY <1>6, <2>11, <2>12, EndsStay DEF sharedVars
<1>10. CASE memory[Edge(t)] # position[t]
  <2>1. memory' = memory /\ place' = [place EXCEPT ![t] = onFailure] /\ position' = [position EXCEPT ![t] = memory[Edge(t)]]
    BY <1>10 DEF Claim, Advance
  <2>2. /\ place' \in [QueueThreads -> QueuePlaces] /\ \A u \in QueueThreads \ {t} : place'[u] = place[u]
        /\ position' \in [QueueThreads -> Int] /\ \A u \in QueueThreads \ {t} : position'[u] = position[u]
        /\ place'[t] = onFailure /\ position'[t] = memory[Edge(t)] /\ memory[Edge(t)] \in Int
    BY <1>5, <1>8, <2>1
  <2>3. Moves(t)
    BY <1>1, <1>3, <1>6, <1>8, <2>2 DEF Moves
  <2>4. Kept
    BY <1>6, <1>7, <2>1, <2>2, <2>3, OneThreadMoves DEF sharedVars
  <2>5. \A c \in Consumers : place'[c] \in EndPlaces => place'[c] = place[c] /\ seenEnqueue'[c] = seenEnqueue[c]
    BY <1>6, <1>8, <2>2 DEF QueueThreads
  <2>. QED BY <1>6, <2>4, <2>5, EndsStay DEF sharedVars
<1>. QED BY <1>9, <1>10

(* The three stores, and what they have in common.                           *)
LEMMA WriteFacts ==
  ASSUME QueueInv, NEW t \in QueueThreads, t \in team, NEW l \in Locations, NEW v \in Int, NEW from, NEW next,
         Write(t, from, l, v, next), next \in QueuePlaces \ EndPlaces, l = Edge(t) => Seen(QueueView, t, l) <= v
  PROVE  /\ place[t] = from
         /\ ViewTypes(StoreView(t, <<l, v>>)) /\ SameQueue(QueueView, StoreView(t, <<l, v>>))
         /\ Appended(QueueView, StoreView(t, <<l, v>>), t, <<l, v>>)
         /\ StoreView(t, <<l, v>>).at[t] = next
         /\ \A u \in QueueThreads \ {t} : StoreView(t, <<l, v>>).at[u] = place[u] /\ StoreView(t, <<l, v>>).pos[u] = position[u]
         /\ next \notin {"failed", "notify", "idle"} => StoreView(t, <<l, v>>).pos = position
         /\ next = "notify" => StoreView(t, <<l, v>>).pos[t] = 0
         /\ CellsOK(StoreView(t, <<l, v>>)) => Kept /\ EndsOK'
<1>1. /\ QueueTypeOK /\ CellsOK(QueueView) /\ RestOK
      /\ place \in [QueueThreads -> QueuePlaces] /\ position \in [QueueThreads -> Int]
  BY ViewIs DEF QueueInv, QueueTypeOK, ViewTypes
<1>2. /\ place[t] = from /\ Store(t, l, v) /\ place' = [place EXCEPT ![t] = next]
      /\ position' = IF next \in {"failed", "notify", "idle"} THEN [position EXCEPT ![t] = 0] ELSE position
      /\ seenEnqueue' = [seenEnqueue EXCEPT ![t] = 0]
      /\ patient' \in {patient, patient \ {t}}
      /\ UNCHANGED <<sharedVars, waiting, mutex>>
  BY DEF Write, Settle, Advance
<1>3. /\ place' \in [QueueThreads -> QueuePlaces] /\ \A u \in QueueThreads \ {t} : place'[u] = place[u]
      /\ place'[t] = next
  BY <1>1, <1>2
<1>4. /\ position' \in [QueueThreads -> Int] /\ \A u \in QueueThreads \ {t} : position'[u] = position[u]
      /\ next \notin {"failed", "notify", "idle"} => position' = position
      /\ next = "notify" => position'[t] = 0
  BY <1>1, <1>2
<1>5. /\ ViewTypes(QueueView') /\ ViewTypes(StoreView(t, <<l, v>>))
      /\ Appended(QueueView, StoreView(t, <<l, v>>), t, <<l, v>>)
      /\ SameQueue(QueueView, StoreView(t, <<l, v>>))
      /\ StoreView(t, <<l, v>>).at = place' /\ StoreView(t, <<l, v>>).pos = position'
      /\ CellsOK(StoreView(t, <<l, v>>)) /\ (l = Edge(t) => Seen(QueueView, t, l) <= v) =>
           CellsOK(QueueView') /\ Grown
      /\ class[2] = "plain" => \A u \in QueueThreads : storeBuffer'[u] = <<>>
  BY <1>1, <1>2, <1>3, <1>4, StoreKeeps DEF sharedVars
<1>6. RestOK'
  BY <1>1, <1>2 DEF RestOK, sharedVars
<1>7. QueueTypeOK'
  BY <1>2, <1>5, <1>6 DEF QueueTypeOK, sharedVars
<1>8. ASSUME CellsOK(StoreView(t, <<l, v>>)) PROVE Kept /\ EndsOK'
  <2>1. Kept
    BY <1>5, <1>7, <1>8 DEF Kept
  <2>2. \A c \in Consumers : place'[c] \in EndPlaces => place'[c] = place[c] /\ seenEnqueue'[c] = seenEnqueue[c]
    BY <1>1, <1>2, <1>3 DEF QueueThreads, RestOK
  <2>. QED BY <1>2, <2>1, <2>2, EndsStay DEF sharedVars
<1>. QED BY <1>2, <1>3, <1>4, <1>5, <1>8

LEMMA ItemWritten ==
  ASSUME QueueInv, NEW t \in QueueThreads, t \in team, NEW from, NEW next,
         Write(t, from, Data(position[t]), After(t, position[t]), next),
         from = IF t \in Producers THEN "construct" ELSE "take",
         next = "publish" \/ (next = "raise" /\ (class[1] = "MPSC" => t \in Producers)),
         next = "raise" => from = "construct" \/ class[1] = "SPSC"
  PROVE  Kept /\ EndsOK'
<1>1. PICK s : s = QueueView
  OBVIOUS
<1>2. /\ s.kind = class[1] /\ s.at = place /\ s.pos = position /\ CellsOK(s)
  BY <1>1, ViewIs DEF QueueInv
<1>3. PICK q : q = position[t]
  OBVIOUS
<1>4. q \in Int
  BY <1>2, <1>3 DEF CellsOK, ViewTypes
<1>5. PICK a : a = StoreView(t, <<Data(q), After(t, q)>>)
  OBVIOUS
<1>6. /\ Data(q) \in Locations /\ After(t, q) \in Int /\ Data(q) # Edge(t)
  BY <1>4, LocationsApart DEF After, Edge, NoItem
<1>7. next \in QueuePlaces \ EndPlaces /\ next \in CellPlaces /\ next \notin {"failed", "notify", "idle"}
  BY DEF QueuePlaces, EndPlaces, CellPlaces
<1>8. Write(t, from, Data(q), After(t, q), next)
  BY <1>3
<1>9. /\ s.at[t] = from /\ ViewTypes(a) /\ SameQueue(s, a) /\ Appended(s, a, t, <<Data(q), After(t, q)>>)
      /\ a.at[t] = next /\ \A u \in QueueThreads \ {t} : a.at[u] = s.at[u]
      /\ a.pos = s.pos
      /\ CellsOK(a) => Kept /\ EndsOK'
  BY <1>1, <1>2, <1>5, <1>6, <1>7, <1>8, WriteFacts
<1>10. OwnsNow(s, t, q) /\ ~Done(s, t)
  BY <1>2, <1>3, <1>9 DEF OwnsNow, Done, CellPlaces
<1>11. Done(a, t) /\ a.at[t] \in CellPlaces
  BY <1>2, <1>7, <1>9 DEF Done, SameQueue
<1>12. Choosing(a, t) => Choosing(s, t)
  BY <1>2, <1>9 DEF Choosing, SameQueue
<1>13. Appended(s, a, t, DataStore(t, q))
  BY <1>9 DEF DataStore
<1>14. CellsOK(a)
  BY <1>2, <1>4, <1>9, <1>10, <1>11, <1>12, <1>13, ItemKeeps
<1>. QED BY <1>9, <1>14

LEMMA FrontWritten ==
  ASSUME QueueInv, NEW t \in QueueThreads, t \in team, class[1] # "SPSC", Alone(QueueView, t), NEW next,
         Write(t, "raise", Edge(t), position[t] + 1, next),
         next = IF t \in Producers THEN "publish" ELSE "take"
  PROVE  Kept /\ EndsOK'
<1>1. PICK s : s = QueueView
  OBVIOUS
<1>2. /\ s.kind = class[1] /\ s.at = place /\ s.pos = position /\ CellsOK(s) /\ FrontsOK(s) /\ Alone(s, t)
  BY <1>1, ViewIs DEF QueueInv, CellsOK
<1>3. PICK q : q = position[t]
  OBVIOUS
<1>4. q \in Int /\ place[t] = "raise"
  BY <1>2, <1>3 DEF CellsOK, ViewTypes, Write
<1>5. PICK a : a = StoreView(t, <<Edge(t), q + 1>>)
  OBVIOUS
<1>6. /\ Edge(t) \in Locations /\ q + 1 \in Int /\ Seen(s, t, Edge(t)) <= q + 1
  <2>1. Choosing(s, t)
    BY <1>2, <1>4 DEF Choosing
  <2>2. Seen(s, t, Edge(t)) = q
    BY <1>2, <1>3, <2>1 DEF FrontsOK
  <2>. QED BY <1>4, <2>2, LocationsApart DEF Edge
<1>7. next \in QueuePlaces \ EndPlaces /\ next \in CellPlaces /\ next \notin {"failed", "notify", "idle"}
  BY DEF QueuePlaces, EndPlaces, CellPlaces
<1>8. Write(t, "raise", Edge(t), q + 1, next)
  BY <1>3
<1>9. /\ s.at[t] = "raise" /\ ViewTypes(a) /\ SameQueue(s, a) /\ Appended(s, a, t, <<Edge(t), q + 1>>)
      /\ a.at[t] = next /\ \A u \in QueueThreads \ {t} : a.at[u] = s.at[u]
      /\ a.pos = s.pos
      /\ CellsOK(a) => Kept /\ EndsOK'
  BY <1>1, <1>2, <1>5, <1>6, <1>7, <1>8, WriteFacts
<1>10. OwnsNow(s, t, q) /\ Choosing(s, t)
  BY <1>2, <1>3, <1>9 DEF OwnsNow, Choosing, CellPlaces
<1>11. (Done(a, t) <=> Done(s, t)) /\ a.at[t] \in CellPlaces /\ ~Choosing(a, t)
  BY <1>2, <1>7, <1>9 DEF Done, SameQueue, Alone, Choosing
<1>12. Appended(s, a, t, FrontStore(t, q))
  BY <1>9 DEF FrontStore
<1>13. CellsOK(a)
  BY <1>2, <1>4, <1>9, <1>10, <1>11, <1>12, RaiseKeeps
<1>. QED BY <1>9, <1>13

LEMMA HandWritten ==
  ASSUME QueueInv, NEW t \in QueueThreads, t \in team, NEW from,
         IF class[1] = "SPSC" THEN from = "raise" /\ Write(t, from, Edge(t), position[t] + 1, "notify")
                              ELSE from = "publish" /\ Write(t, from, Sequence(position[t]), Following(t, position[t]), "notify")
  PROVE  Kept /\ EndsOK'
<1>1. PICK s : s = QueueView
  OBVIOUS
<1>2. /\ s.kind = class[1] /\ s.at = place /\ s.pos = position /\ CellsOK(s) /\ FrontsOK(s)
  BY <1>1, ViewIs DEF QueueInv, CellsOK
<1>3. PICK q : q = position[t]
  OBVIOUS
<1>4. q \in Int
  BY <1>2, <1>3 DEF CellsOK, ViewTypes
<1>5. PICK h : h = Hand(s, t, q)
  OBVIOUS
<1>6. h \in Locations \X Int /\ h = <<h[1], h[2]>>
  <2>1. h \in Locations \X Int
    BY <1>4, <1>5, HandIs
  <2>. QED BY <2>1
<1>7. Write(t, from, h[1], h[2], "notify")
  <2>1. CASE class[1] = "SPSC"
    BY <1>2, <1>3, <1>5, <2>1 DEF Hand, FrontStore
  <2>2. CASE class[1] # "SPSC"
    BY <1>2, <1>3, <1>5, <2>2 DEF Hand
  <2>. QED BY <2>1, <2>2
<1>8. place[t] = from
  BY <1>7 DEF Write
<1>9. class[1] = "SPSC" => Choosing(s, t) /\ Seen(s, t, Edge(t)) = q
  <2>1. SUFFICES ASSUME class[1] = "SPSC" PROVE Choosing(s, t) /\ Seen(s, t, Edge(t)) = q
    OBVIOUS
  <2>2. Choosing(s, t) /\ Alone(s, t)
    BY <1>2, <1>8, <2>1 DEF Choosing, Alone
  <2>. QED BY <1>2, <1>3, <2>2 DEF FrontsOK
<1>10. h[1] = Edge(t) => Seen(s, t, h[1]) <= h[2]
  <2>1. CASE class[1] = "SPSC"
    BY <1>2, <1>4, <1>5, <1>9, <2>1 DEF Hand, FrontStore
  <2>2. CASE class[1] # "SPSC"
    BY <1>2, <1>4, <1>5, <2>2, LocationsApart DEF Hand, Edge
  <2>. QED BY <2>1, <2>2
<1>11. "notify" \in QueuePlaces \ EndPlaces
  BY DEF QueuePlaces, EndPlaces
<1>12. PICK l \in Locations, v \in Int : l = h[1] /\ v = h[2] /\ h = <<l, v>>
  BY <1>6
<1>13. PICK a : a = StoreView(t, <<l, v>>)
  OBVIOUS
<1>14. Write(t, from, l, v, "notify") /\ (l = Edge(t) => Seen(QueueView, t, l) <= v)
  BY <1>1, <1>7, <1>10, <1>12
<1>15. /\ ViewTypes(a) /\ SameQueue(s, a) /\ Appended(s, a, t, <<l, v>>)
       /\ a.at[t] = "notify" /\ \A u \in QueueThreads \ {t} : a.at[u] = s.at[u] /\ a.pos[u] = s.pos[u]
       /\ a.pos[t] = 0
       /\ CellsOK(a) => Kept /\ EndsOK'
  BY <1>1, <1>2, <1>11, <1>13, <1>14, WriteFacts
<1>16. OwnsNow(s, t, q) /\ Done(s, t)
  BY <1>2, <1>3, <1>8 DEF OwnsNow, Done, CellPlaces
<1>17. Appended(s, a, t, Hand(s, t, q))
  BY <1>5, <1>12, <1>15
<1>18. CellsOK(a)
  BY <1>2, <1>4, <1>9, <1>15, <1>16, <1>17, HandKeeps
<1>. QED BY <1>15, <1>18

-----------------------------------------------------------------------------
(* The loops around them, and the buffers.                                   *)
LEMMA Sides ==
  /\ \A p \in Producers : p \in QueueThreads /\ Edge(p) = Enqueue
  /\ \A c \in Consumers : c \in QueueThreads /\ c \notin Producers /\ Edge(c) = Dequeue
  BY QueueConstants DEF QueueThreads, Edge

LEMMA OtherFront ==
  ASSUME QueueInv
  PROVE  /\ \A p \in Producers : Load(p, Dequeue) = memory[Dequeue]
         /\ \A c \in Consumers : Load(c, Enqueue) = memory[Enqueue]
<1>1. PICK p \in Producers, c \in Consumers : TRUE
  BY QueueConstants
<1>2. CellsOK(QueueView)
  BY DEF QueueInv
<1>3. \A t \in Producers : Seen(QueueView, t, Edge(c)) = memory[Edge(c)]
  BY <1>2, Sides, FrontSeen, ViewIs DEF SameSide
<1>4. \A t \in Consumers : Seen(QueueView, t, Edge(p)) = memory[Edge(p)]
  BY <1>2, Sides, FrontSeen, ViewIs DEF SameSide
<1>. QED BY <1>3, <1>4, Sides, LoadIs

LEMMA Quiets ==
  /\ {"idle", "enter", "load", "reload", "again", "notify", "wake", "failed", "lock", "locked", "count",
      "predicate", "predicateSize", "asleep", "woken", "uncount"} \subseteq QuietPlaces \ EndPlaces
  /\ EndPlaces \subseteq QuietPlaces
  /\ \A x \in QuietPlaces : x \notin CellPlaces
  /\ "slot" \notin CellPlaces /\ "claim" \notin CellPlaces
  BY DEF QuietPlaces, QueuePlaces, EndPlaces, CellPlaces

LEMMA SleepInPushKeeps ==
  ASSUME QueueInv, NEW p \in Producers, p \in team, SleepInPush(p)
  PROVE  Kept /\ EndsOK'
<1>1. p \in QueueThreads
  BY Sides
<1>2. CASE place[p] = "failed" /\ Only(p, "idle")
  BY <1>1, <1>2, Quiets, OnlyKeeps
<1>3. CASE place[p] = "failed" /\ Retry(p, "enter")
  BY <1>1, <1>3, Quiets, RetryKeeps
<1>4. CASE Lock(p, "lock", "notFull", "locked")
  BY <1>1, <1>4, Quiets, LockKeeps
<1>5. CASE place[p] = "locked" /\ Unlock(p, "notFull", "idle")
  BY <1>1, <1>5, Quiets, UnlockKeeps
<1>6. CASE place[p] = "locked" /\ Only(p, "count")
  BY <1>1, <1>6, Quiets, OnlyKeeps
<1>7. CASE Count(p, "notFull")
  BY <1>1, <1>7, CountKeeps
<1>8. CASE Wait(p, "notFull", ~IsFullApprox(p))
  BY <1>1, <1>8, WaitKeeps
<1>9. CASE Uncount(p, "notFull", "enter")
  BY <1>1, <1>9, Quiets, UncountKeeps
<1>. QED BY <1>2, <1>3, <1>4, <1>5, <1>6, <1>7, <1>8, <1>9 DEF SleepInPush

LEMMA StartPushKeeps ==
  ASSUME QueueInv, NEW p \in Producers, p \in team, NEW next \in {"slot", "again"}, StartPush(p, next)
  PROVE  Kept /\ EndsOK'
<1>1. p \in QueueThreads /\ Edge(p) = Enqueue
  BY Sides
<1>2. CASE /\ place[p] = "idle" /\ pushes > 0
           /\ pushes' = pushes - 1
           /\ Advance(p, "enter")
           /\ UNCHANGED <<class, team, memory, storeBuffer, closed, enqueuedAtClose, closing, waiting, mutex,
                          position, seenEnqueue, patient>>
  <2>1. RestOK'
    BY <1>2 DEF QueueInv, QueueTypeOK, RestOK
  <2>. QED BY <1>1, <1>2, <2>1, Quiets, QuietKeeps DEF Advance
<1>3. CASE place[p] = "enter" /\ Only(p, "idle")
  BY <1>1, <1>3, Quiets, OnlyKeeps
<1>4. CASE LoadPosition(p, "enter", Enqueue, next)
  BY <1>1, <1>4, Quiets, LoadPositionKeeps
<1>. QED BY <1>2, <1>3, <1>4 DEF StartPush

(* The classes with several producers.                                       *)
LEMMA SharedPushKeeps ==
  ASSUME QueueInv, NEW p \in Producers, p \in team, MPMCPush(p) \/ MPSCPush(p)
  PROVE  Kept /\ EndsOK'
<1>1. p \in QueueThreads /\ Edge(p) = Enqueue
  BY Sides
<1>2. class[1] \in {"MPMC", "MPSC"} /\ ~Alone(QueueView, p)
  BY ViewIs DEF MPMCPush, MPSCPush, Alone
<1>3. Expected(p, position[p]) = position[p] /\ Following(p, position[p]) = position[p] + 1 /\ After(p, position[p]) = position[p]
  BY DEF Expected, Following, After
<1>4. CASE StartPush(p, "slot") \/ StartPush(p, "again")
  BY <1>4, StartPushKeeps
<1>5. CASE TestSequence(p, position[p], "claim", "failed", "reload")
  <2>1. TestSequence(p, Expected(p, position[p]), "claim", "failed", "reload")
    BY <1>3, <1>5
  <2>. QED BY <1>1, <1>2, <2>1, Quiets, TestSequenceKeeps
<1>6. CASE LoadPosition(p, "reload", Enqueue, "again")
  BY <1>1, <1>6, Quiets, LoadPositionKeeps
<1>7. CASE TestClosedAgain(p)
  <2>1. PICK next \in {"idle", "slot"} : Only(p, next) /\ place[p] = "again"
    BY <1>7 DEF TestClosedAgain
  <2>2. next \notin EndPlaces /\ (next \in QuietPlaces \/ next = "slot")
    BY Quiets DEF EndPlaces
  <2>. QED BY <1>1, <1>2, <2>1, <2>2, Quiets, OnlyKeeps
<1>8. CASE Claim(p, Enqueue, "construct", "again")
  BY <1>1, <1>2, <1>8, SwapKeeps
<1>9. CASE Construct(p, "publish")
  BY <1>1, <1>3, <1>9, ItemWritten DEF Construct
<1>10. CASE Publish(p, position[p] + 1, "notify")
  <2>1. Write(p, "publish", Sequence(position[p]), Following(p, position[p]), "notify")
    BY <1>3, <1>10 DEF Publish
  <2>. QED BY <1>1, <1>2, <2>1, HandWritten
<1>. QED BY <1>4, <1>5, <1>6, <1>7, <1>8, <1>9, <1>10 DEF MPMCPush, MPSCPush

(* The classes with one.                                                     *)
LEMMA SinglePushKeeps ==
  ASSUME QueueInv, NEW p \in Producers, p \in team, SPMCPush(p) \/ SPSCPush(p)
  PROVE  Kept /\ EndsOK'
<1>1. p \in QueueThreads /\ Edge(p) = Enqueue
  BY Sides
<1>2. class[1] \in {"SPMC", "SPSC"} /\ Alone(QueueView, p)
  BY ViewIs DEF SPMCPush, SPSCPush, Alone
<1>3. Expected(p, position[p]) = position[p] /\ Following(p, position[p]) = position[p] + 1 /\ After(p, position[p]) = position[p]
  BY DEF Expected, Following, After
<1>4. CASE StartPush(p, "slot")
  BY <1>4, StartPushKeeps
<1>5. CASE class[1] = "SPMC" /\ TestSequence(p, position[p], "construct", "failed", "failed")
  <2>1. TestSequence(p, Expected(p, position[p]), "construct", "failed", "failed")
    BY <1>3, <1>5
  <2>. QED BY <1>1, <1>2, <1>5, <2>1, Quiets, TestSequenceKeeps
<1>6. CASE /\ class[1] = "SPSC"
           /\ place[p] = "slot" /\ Only(p, IF position[p] - Load(p, Dequeue) >= Capacity THEN "failed" ELSE "construct")
  <2>1. Load(p, Dequeue) = memory[Dequeue]
    BY OtherFront
  <2>2. CASE position[p] - memory[Dequeue] >= Capacity
    <3>1. Only(p, "failed") /\ place[p] = "slot"
      BY <1>6, <2>1, <2>2
    <3>. QED BY <1>1, <3>1, Quiets, OnlyKeeps
  <2>3. CASE ~(position[p] - memory[Dequeue] >= Capacity)
    <3>1. Only(p, "construct") /\ place[p] = "slot"
      BY <1>6, <2>1, <2>3
    <3>2. position[p] \in Int /\ memory[Dequeue] \in Int /\ Capacity \in Int /\ CellsOK(QueueView)
      BY <1>1, ViewIs, LocationsApart, QueueConstants DEF QueueInv, QueueTypeOK, ViewTypes
    <3>3. position[p] - memory[Dequeue] < Capacity
      BY <2>3, <3>2
    <3>4. Avail(QueueView, p, position[p]) /\ ~OwnsStill(QueueView, p, position[p])
      BY <1>1, <1>6, <3>1, <3>2, <3>3, ViewIs, ChoosesFree
    <3>. QED BY <1>1, <1>2, <3>1, <3>4, ChoiceKeeps
  <2>. QED BY <2>2, <2>3
<1>7. CASE Construct(p, "raise")
  BY <1>1, <1>2, <1>3, <1>7, ItemWritten DEF Construct
<1>8. CASE class[1] = "SPMC" /\ Write(p, "raise", Enqueue, position[p] + 1, "publish")
  BY <1>1, <1>2, <1>8, FrontWritten
<1>9. CASE class[1] = "SPMC" /\ Publish(p, position[p] + 1, "notify")
  <2>1. Write(p, "publish", Sequence(position[p]), Following(p, position[p]), "notify")
    BY <1>3, <1>9 DEF Publish
  <2>. QED BY <1>1, <1>9, <2>1, HandWritten
<1>10. CASE class[1] = "SPSC" /\ Write(p, "raise", Enqueue, position[p] + 1, "notify")
  BY <1>1, <1>10, HandWritten
<1>. QED BY <1>4, <1>5, <1>6, <1>7, <1>8, <1>9, <1>10 DEF SPMCPush, SPSCPush

LEMMA PushKeeps ==
  ASSUME QueueInv, NEW p \in Producers, Push(p)
  PROVE  Kept /\ EndsOK'
<1>1. p \in team /\ p \in QueueThreads
  BY Sides DEF Push
<1>2. CASE MPMCPush(p) \/ MPSCPush(p)
  BY <1>1, <1>2, SharedPushKeeps
<1>3. CASE SPMCPush(p) \/ SPSCPush(p)
  BY <1>1, <1>3, SinglePushKeeps
<1>4. CASE SleepInPush(p)
  BY <1>1, <1>4, SleepInPushKeeps
<1>5. CASE Notify(p, "notEmpty")
  BY <1>1, <1>5, NotifyKeeps
<1>. QED BY <1>2, <1>3, <1>4, <1>5 DEF Push

(* A Pop() that returns false has seen, after the queue was closed, that the *)
(* consumers had come to where the producers were.                           *)
LEMMA EndMoves ==
  ASSUME QueueInv, Kept, NEW c \in Consumers, UNCHANGED <<memory, storeBuffer, closed, enqueuedAtClose>>, closed,
         \A u \in QueueThreads \ {c} : place'[u] = place[u] /\ seenEnqueue'[u] = seenEnqueue[u],
         place'[c] \in {"closedSize", "lockedSize"} => seenEnqueue'[c] = Load(c, Enqueue),
         place'[c] = "ended" => IsEmptyApprox(c) /\ place[c] \in {"closedSize", "lockedSize"}
  PROVE  EndsOK'
<1>1. CellsOK(QueueView) /\ c \in QueueThreads /\ Edge(c) = Dequeue /\ EndsOK /\ EndsAt(c)
  BY Sides DEF QueueInv, EndsOK
<1>2. /\ enqueuedAtClose \in Int /\ enqueuedAtClose <= memory[Enqueue] /\ memory[Enqueue] \in Int
      /\ seenEnqueue[c] \in Int
  BY <1>1, ViewIs, LocationsApart DEF QueueInv, QueueTypeOK, RestOK, ViewTypes, EndsOK
<1>3. place'[c] \in {"closedSize", "lockedSize"} => seenEnqueue'[c] >= enqueuedAtClose
  BY <1>2, OtherFront
<1>4. place'[c] = "ended" => Load(c, Dequeue)' >= enqueuedAtClose
  <2>1. SUFFICES ASSUME place'[c] = "ended" PROVE Load(c, Dequeue)' >= enqueuedAtClose
    OBVIOUS
  <2>2. seenEnqueue[c] >= enqueuedAtClose
    BY <1>1, <2>1 DEF EndsAt
  <2>3. Load(c, Dequeue) \in Int
    BY <1>1, FrontSeen, LoadIs
  <2>4. seenEnqueue[c] <= Load(c, Dequeue)
    BY <1>2, <2>1, <2>3 DEF IsEmptyApprox, SizeApprox
  <2>5. Load(c, Dequeue)' = Load(c, Dequeue)
    BY DEF Load, Pending
  <2>. QED BY <1>2, <2>2, <2>3, <2>4, <2>5
<1>5. EndsAt(c)'
  BY <1>3, <1>4 DEF EndsAt
<1>6. \A u \in Consumers : place'[u] \in EndPlaces => (place'[u] = place[u] /\ seenEnqueue'[u] = seenEnqueue[u]) \/ EndsAt(u)'
  BY <1>5 DEF QueueThreads
<1>. QED BY <1>6, EndsStay

LEMMA SleepInPopKeeps ==
  ASSUME QueueInv, NEW c \in Consumers, c \in team, SleepInPop(c)
  PROVE  Kept /\ EndsOK'
<1>1. c \in QueueThreads /\ QueueThreads = DOMAIN place /\ QueueThreads = DOMAIN seenEnqueue
  BY Sides, ViewIs DEF QueueInv, QueueTypeOK, RestOK, ViewTypes
<1>2. EndsAt(c)
  BY DEF QueueInv, EndsOK
<1>3. CASE place[c] = "failed" /\ closed /\ Only(c, "closed")
  <2>1. Kept
    BY <1>1, <1>3, Quiets, OnlyKeeps DEF EndPlaces
  <2>. QED BY <1>1, <1>3, <2>1, EndMoves DEF Only, Settle, Advance, sharedVars
<1>4. CASE (place[c] = "failed" \/ place[c] = "closedSize") /\ Retry(c, "load")
  BY <1>1, <1>4, Quiets, RetryKeeps DEF EndPlaces
<1>5. CASE LoadSize(c, "closed", "closedSize")
  <2>1. Kept
    BY <1>1, <1>5, Quiets, LoadSizeKeeps DEF EndPlaces
  <2>2. closed
    BY <1>2, <1>5 DEF EndsAt, EndPlaces, LoadSize
  <2>. QED BY <1>1, <1>5, <2>1, <2>2, EndMoves DEF LoadSize, Advance, sharedVars
<1>6. CASE place[c] = "closedSize" /\ IsEmptyApprox(c) /\ Only(c, "ended")
  <2>1. Kept
    BY <1>1, <1>6, Quiets, OnlyKeeps DEF EndPlaces
  <2>2. closed
    BY <1>2, <1>6 DEF EndsAt, EndPlaces
  <2>. QED BY <1>1, <1>6, <2>1, <2>2, EndMoves DEF Only, Settle, Advance, sharedVars
<1>7. CASE Lock(c, "lock", "notEmpty", "locked")
  BY <1>1, <1>7, Quiets, LockKeeps
<1>8. CASE (place[c] = "locked" \/ place[c] = "lockedSize") /\ Only(c, "count")
  BY <1>1, <1>8, Quiets, OnlyKeeps DEF EndPlaces
<1>9. CASE closed /\ LoadSize(c, "locked", "lockedSize")
  <2>1. Kept
    BY <1>1, <1>9, Quiets, LoadSizeKeeps DEF EndPlaces
  <2>. QED BY <1>1, <1>9, <2>1, EndMoves DEF LoadSize, Advance, sharedVars
<1>10. CASE place[c] = "lockedSize" /\ IsEmptyApprox(c) /\ Unlock(c, "notEmpty", "ended")
  <2>1. Kept
    BY <1>1, <1>10, Quiets, UnlockKeeps DEF EndPlaces
  <2>2. closed
    BY <1>2, <1>10 DEF EndsAt, EndPlaces
  <2>. QED BY <1>1, <1>10, <2>1, <2>2, EndMoves DEF Unlock, Settle, Advance, sharedVars
<1>11. CASE Count(c, "notEmpty")
  BY <1>1, <1>11, CountKeeps
<1>12. CASE Wait(c, "notEmpty", ~IsEmptyApprox(c))
  BY <1>1, <1>12, WaitKeeps
<1>13. CASE Uncount(c, "notEmpty", "load")
  BY <1>1, <1>13, Quiets, UncountKeeps
<1>. QED BY <1>3, <1>4, <1>5, <1>6, <1>7, <1>8, <1>9, <1>10, <1>11, <1>12, <1>13 DEF SleepInPop

LEMMA StartPopKeeps ==
  ASSUME QueueInv, NEW c \in Consumers, c \in team, StartPop(c)
  PROVE  Kept /\ EndsOK'
<1>1. c \in QueueThreads /\ Edge(c) = Dequeue
  BY Sides
<1>2. CASE place[c] = "idle" /\ Only(c, "load")
  BY <1>1, <1>2, Quiets, OnlyKeeps
<1>3. CASE LoadPosition(c, "load", Dequeue, "slot")
  BY <1>1, <1>3, Quiets, LoadPositionKeeps
<1>. QED BY <1>2, <1>3 DEF StartPop

LEMMA SharedPopKeeps ==
  ASSUME QueueInv, NEW c \in Consumers, c \in team, MPMCPop(c) \/ SPMCPop(c)
  PROVE  Kept /\ EndsOK'
<1>1. c \in QueueThreads /\ Edge(c) = Dequeue /\ c \notin Producers
  BY Sides
<1>2. class[1] \in {"MPMC", "SPMC"} /\ ~Alone(QueueView, c)
  BY <1>1, ViewIs DEF MPMCPop, SPMCPop, Alone
<1>3. /\ Expected(c, position[c]) = position[c] + 1 /\ Following(c, position[c]) = position[c] + Capacity
      /\ After(c, position[c]) = NoItem
  BY <1>1 DEF Expected, Following, After
<1>4. CASE StartPop(c)
  BY <1>4, StartPopKeeps
<1>5. CASE TestSequence(c, position[c] + 1, "claim", "failed", "load")
  <2>1. TestSequence(c, Expected(c, position[c]), "claim", "failed", "load")
    BY <1>3, <1>5
  <2>. QED BY <1>1, <1>2, <2>1, Quiets, TestSequenceKeeps
<1>6. CASE Claim(c, Dequeue, "take", "slot")
  BY <1>1, <1>2, <1>6, SwapKeeps
<1>7. CASE Destroy(c, "publish")
  BY <1>1, <1>3, <1>7, ItemWritten DEF Destroy
<1>8. CASE Publish(c, position[c] + Capacity, "notify")
  <2>1. Write(c, "publish", Sequence(position[c]), Following(c, position[c]), "notify")
    BY <1>3, <1>8 DEF Publish
  <2>. QED BY <1>1, <1>2, <2>1, HandWritten
<1>. QED BY <1>4, <1>5, <1>6, <1>7, <1>8 DEF MPMCPop, SPMCPop

LEMMA SinglePopKeeps ==
  ASSUME QueueInv, NEW c \in Consumers, c \in team, MPSCPop(c) \/ SPSCPop(c)
  PROVE  Kept /\ EndsOK'
<1>1. c \in QueueThreads /\ Edge(c) = Dequeue /\ c \notin Producers
  BY Sides
<1>2. class[1] \in {"MPSC", "SPSC"} /\ Alone(QueueView, c)
  BY <1>1, ViewIs DEF MPSCPop, SPSCPop, Alone
<1>3. /\ Expected(c, position[c]) = position[c] + 1 /\ Following(c, position[c]) = position[c] + Capacity
      /\ After(c, position[c]) = NoItem
  BY <1>1 DEF Expected, Following, After
<1>4. CASE StartPop(c)
  BY <1>4, StartPopKeeps
<1>5. CASE class[1] = "MPSC" /\ TestSequence(c, position[c] + 1, "raise", "failed", "failed")
  <2>1. TestSequence(c, Expected(c, position[c]), "raise", "failed", "failed")
    BY <1>3, <1>5
  <2>. QED BY <1>1, <1>2, <1>5, <2>1, Quiets, TestSequenceKeeps
<1>6. CASE class[1] = "SPSC" /\ place[c] = "slot" /\ Only(c, IF position[c] = Load(c, Enqueue) THEN "failed" ELSE "take")
  <2>1. Load(c, Enqueue) = memory[Enqueue]
    BY OtherFront
  <2>2. CASE position[c] = memory[Enqueue]
    <3>1. Only(c, "failed") /\ place[c] = "slot"
      BY <1>6, <2>1, <2>2
    <3>. QED BY <1>1, <3>1, Quiets, OnlyKeeps
  <2>3. CASE position[c] # memory[Enqueue]
    <3>1. Only(c, "take") /\ place[c] = "slot"
      BY <1>6, <2>1, <2>3
    <3>2. Avail(QueueView, c, position[c]) /\ ~OwnsStill(QueueView, c, position[c])
      BY <1>1, <1>6, <2>3, <3>1, ViewIs, ChoosesFree DEF QueueInv
    <3>. QED BY <1>1, <1>2, <3>1, <3>2, ChoiceKeeps
  <2>. QED BY <2>2, <2>3
<1>7. CASE class[1] = "MPSC" /\ Write(c, "raise", Dequeue, position[c] + 1, "take")
  BY <1>1, <1>2, <1>7, FrontWritten
<1>8. CASE class[1] = "MPSC" /\ Destroy(c, "publish")
  BY <1>1, <1>3, <1>8, ItemWritten DEF Destroy
<1>9. CASE class[1] = "MPSC" /\ Publish(c, position[c] + Capacity, "notify")
  <2>1. Write(c, "publish", Sequence(position[c]), Following(c, position[c]), "notify")
    BY <1>3, <1>9 DEF Publish
  <2>. QED BY <1>1, <1>9, <2>1, HandWritten
<1>10. CASE class[1] = "SPSC" /\ Destroy(c, "raise")
  BY <1>1, <1>3, <1>10, ItemWritten DEF Destroy
<1>11. CASE class[1] = "SPSC" /\ Write(c, "raise", Dequeue, position[c] + 1, "notify")
  BY <1>1, <1>11, HandWritten
<1>. QED BY <1>4, <1>5, <1>6, <1>7, <1>8, <1>9, <1>10, <1>11 DEF MPSCPop, SPSCPop

LEMMA PopKeeps ==
  ASSUME QueueInv, NEW c \in Consumers, Pop(c)
  PROVE  Kept /\ EndsOK'
<1>1. c \in team /\ c \in QueueThreads
  BY Sides DEF Pop
<1>2. CASE MPMCPop(c) \/ SPMCPop(c)
  BY <1>1, <1>2, SharedPopKeeps
<1>3. CASE MPSCPop(c) \/ SPSCPop(c)
  BY <1>1, <1>3, SinglePopKeeps
<1>4. CASE SleepInPop(c)
  BY <1>1, <1>4, SleepInPopKeeps
<1>5. CASE Notify(c, "notFull")
  BY <1>1, <1>5, NotifyKeeps
<1>. QED BY <1>2, <1>3, <1>4, <1>5 DEF Pop

LEMMA StoreLands ==
  ASSUME QueueInv, NEW t \in QueueThreads, Flush(t)
  PROVE  Kept /\ EndsOK'
<1>1. PICK s : s = QueueView
  OBVIOUS
<1>2. PICK r : r = QueueView'
  OBVIOUS
<1>3. CellsOK(s) /\ ViewTypes(s) /\ RestOK
  BY <1>1 DEF QueueInv, QueueTypeOK
<1>4. /\ s.kind = class[1] /\ s.team = team /\ s.mem = memory /\ s.buf = storeBuffer /\ s.at = place /\ s.pos = position
      /\ r.kind = s.kind /\ r.team = s.team /\ r.mem = memory' /\ r.buf = storeBuffer' /\ r.at = s.at /\ r.pos = s.pos
  BY <1>1, <1>2, ViewIs DEF Flush, sharedVars
<1>5. FlushOnly(s, r, t)
  BY <1>4 DEF Flush, FlushOnly, Flushed, SameQueue
<1>6. s.buf[t] \in Seq(Locations \X Int) /\ s.buf[t] # <<>>
  BY <1>3, <1>4 DEF ViewTypes, Flush
<1>7. /\ Head(s.buf[t]) \in Locations \X Int /\ Tail(s.buf[t]) \in Seq(Locations \X Int)
  BY <1>6
<1>8. ViewTypes(r)
  <2>1. r.mem \in [Locations -> Int] /\ r.buf \in [QueueThreads -> Seq(Locations \X Int)]
    BY <1>3, <1>4, <1>7 DEF ViewTypes, Flush
  <2>2. \A u, w \in r.team : SameSide(u, w) /\ Alone(r, u) => u = w
    BY <1>3, <1>4 DEF ViewTypes, Alone
  <2>3. t \in s.team
    BY <1>3, <1>6 DEF ViewTypes
  <2>4. \A u \in QueueThreads \ r.team : r.at[u] = "idle" /\ r.buf[u] = <<>>
    BY <1>3, <1>4, <2>3 DEF ViewTypes, Flush
  <2>. QED BY <1>3, <1>4, <2>1, <2>2, <2>4 DEF ViewTypes
<1>9. CellsOK(r)
  BY <1>3, <1>5, <1>8, FlushKeeps
<1>10. Grown
  <2>1. \A u \in QueueThreads : s.mem[Edge(u)] <= r.mem[Edge(u)] /\ Seen(s, u, Edge(u)) <= Seen(r, u, Edge(u))
    BY <1>3, <1>5, <1>8, FlushFronts
  <2>. QED BY <1>1, <1>2, <1>4, <2>1 DEF Grown
<1>11. RestOK'
  BY <1>3 DEF RestOK, Flush, sharedVars
<1>12. class'[2] # "plain"
  BY <1>4, <1>6 DEF QueueInv, QueueTypeOK, Flush, sharedVars
<1>13. Kept
  BY <1>2, <1>8, <1>9, <1>10, <1>11, <1>12 DEF Kept, QueueTypeOK
<1>. QED BY <1>13, EndsStay DEF Flush, sharedVars

-----------------------------------------------------------------------------
LEMMA QueueStart ==
  ASSUME QueueInit
  PROVE  QueueInv
<1>1. PICK s : s = QueueView
  OBVIOUS
<1>2. /\ s.kind = class[1] /\ s.team = team /\ s.mem = memory /\ s.buf = storeBuffer /\ s.at = place /\ s.pos = position
  BY <1>1, ViewIs
<1>3. /\ class \in QueueKind \X {"plain", "buffered"} /\ MaxPushes[class[2]] \in Int
      /\ Capacity \in Int /\ Capacity >= 2
  BY QueueConstants DEF QueueInit, QueueKind
<1>4. /\ \A t \in QueueThreads : s.buf[t] = <<>> /\ DOMAIN s.buf[t] = {} /\ s.at[t] = "idle" /\ s.pos[t] = 0
      /\ s.mem[Enqueue] = 0 /\ s.mem[Dequeue] = 0
      /\ \A q \in Int : s.mem[Sequence(q)] = q % Capacity /\ s.mem[Data(q)] = NoItem
  <2>1. \A l \in Locations : memory[l] = CASE l[1] = "Sequence" -> l[2] [] l[1] = "Data" -> NoItem [] OTHER -> 0
    BY DEF QueueInit
  <2>2. \A t \in QueueThreads : s.buf[t] = <<>> /\ s.at[t] = "idle" /\ s.pos[t] = 0
    BY <1>2 DEF QueueInit
  <2>3. DOMAIN <<>> = {}
    OBVIOUS
  <2>4. memory[Enqueue] = 0 /\ memory[Dequeue] = 0
    BY <2>1, LocationsApart DEF Enqueue, Dequeue
  <2>5. \A q \in Int : memory[Sequence(q)] = q % Capacity /\ memory[Data(q)] = NoItem
    BY <2>1, LocationsApart DEF Sequence, Data
  <2>. QED BY <1>2, <2>2, <2>3, <2>4, <2>5
<1>5. ViewTypes(s)
  <2>1. memory \in [Locations -> Int]
    BY DEF QueueInit, Locations, Cells, Enqueue, Dequeue, NoItem
  <2>2. storeBuffer \in [QueueThreads -> Seq(Locations \X Int)] /\ place \in [QueueThreads -> QueuePlaces]
        /\ position \in [QueueThreads -> Int]
    <3>1. <<>> \in Seq(Locations \X Int)
      OBVIOUS
    <3>. QED BY <3>1 DEF QueueInit, QueuePlaces
  <2>3. \A t, u \in s.team : SameSide(t, u) /\ Alone(s, t) => t = u
    <3>1. SUFFICES ASSUME NEW t \in s.team, NEW u \in s.team, SameSide(t, u), Alone(s, t) PROVE t = u
      OBVIOUS
    <3>2. /\ team \subseteq QueueThreads
          /\ class[1] \in {"SPMC", "SPSC"} => \E p \in Producers : team \intersect Producers = {p}
          /\ class[1] \in {"MPSC", "SPSC"} => \E d \in Consumers : team \intersect Consumers = {d}
      BY DEF QueueInit, Teams
    <3>3. t \in team /\ u \in team /\ (t \in Producers \/ t \in Consumers) /\ (u \in Producers \/ u \in Consumers)
      BY <1>2, <3>2 DEF QueueThreads
    <3>4. CASE t \in Producers
      BY <1>2, <3>1, <3>2, <3>3, <3>4 DEF SameSide, Alone
    <3>5. CASE t \notin Producers
      BY <1>2, <3>1, <3>2, <3>3, <3>5 DEF SameSide, Alone
    <3>. QED BY <3>4, <3>5
  <2>. QED BY <1>2, <1>3, <1>4, <2>1, <2>2, <2>3 DEF ViewTypes
<1>6. \A t \in QueueThreads : \A q : ~OwnsNow(s, t, q) /\ ~OwnsStill(s, t, q) /\ ~Owns(s, t, q) /\ ~Touched(s, t, q)
  BY <1>4 DEF OwnsNow, OwnsStill, Owns, Touched, CellPlaces
<1>7. OwnedOnce(s) /\ BuffersOK(s)
  BY <1>4, <1>6 DEF OwnedOnce, BuffersOK
<1>8. \A t \in QueueThreads : s.mem[Edge(t)] = 0 /\ Waits(s, t, Edge(t)) = {} /\ Seen(s, t, Edge(t)) = 0
  BY <1>4 DEF Edge, Waits, Seen
<1>9. ClaimsOK(s)
  BY <1>4, <1>6, <1>8 DEF ClaimsOK
<1>10. FrontsOK(s)
  <2>1. \A t \in QueueThreads : ~Choosing(s, t)
    BY <1>4 DEF Choosing
  <2>2. s.mem[Dequeue] <= s.mem[Enqueue] /\ s.mem[Enqueue] <= s.mem[Dequeue] + Capacity
    BY <1>3, <1>4
  <2>3. ASSUME NEW t \in QueueThreads
        PROVE  \A q \in Int : s.mem[Edge(t)] <= q /\ q < Seen(s, t, Edge(t)) => OwnsStill(s, t, q)
    BY <1>8
  <2>. QED BY <1>8, <2>1, <2>2, <2>3 DEF FrontsOK
<1>11. ItemsWhole(s)
  <2>1. ASSUME NEW t \in QueueThreads, NEW q \in Int, Avail(s, t, q)
        PROVE  t \in Producers
    <3>1. SUFFICES ASSUME t \notin Producers PROVE FALSE
      OBVIOUS
    <3>2. CASE s.kind = "SPSC"
      BY <1>4, <2>1, <3>1, <3>2 DEF Avail
    <3>3. CASE s.kind # "SPSC"
      <4>1. q % Capacity = q + 1
        BY <1>4, <2>1, <3>1, <3>3 DEF Avail, Expected
      <4>2. q % Capacity \in 0 .. Capacity - 1 /\ (q % Capacity) % Capacity = q % Capacity
        BY <1>3
      <4>3. (q + 1) % Capacity = q % Capacity
        BY <4>1, <4>2
      <4>4. q + 1 \in Int
        OBVIOUS
      <4>5. q <= q + 1 => q = q + 1 \/ q + Capacity <= q + 1
        BY <4>3, <4>4, SameCell
      <4>. QED BY <1>3, <4>5
    <3>. QED BY <3>2, <3>3
  <2>2. ASSUME NEW t \in QueueThreads, NEW q \in Int, Avail(s, t, q)
        PROVE  s.mem[Data(q)] = Before(t, q)
    BY <1>4, <2>1, <2>2 DEF Before
  <2>. QED BY <1>6, <2>2 DEF ItemsWhole
<1>12. QueueTypeOK
  <2>1. RestOK
    <3>1. closing = <<>> /\ <<>> \in Seq({"notEmpty", "notFull"})
      BY DEF QueueInit
    <3>2. /\ waiting \in [{"notEmpty", "notFull"} -> Int] /\ seenEnqueue \in [QueueThreads -> Int]
          /\ mutex \in [{"notEmpty", "notFull"} -> QueueThreads \union {Nobody}]
      BY DEF QueueInit
    <3>3. pushes \in Int
      BY <1>3 DEF QueueInit
    <3>4. closed \in BOOLEAN
      BY Zenon DEF QueueInit
    <3>6. enqueuedAtClose \in Int
      BY DEF QueueInit
    <3>5. patient \subseteq QueueThreads
      BY DEF QueueInit
    <3>. QED BY <1>3, <3>1, <3>2, <3>3, <3>4, <3>5, <3>6 DEF RestOK
  <2>2. \A t \in QueueThreads : storeBuffer[t] = <<>>
    BY DEF QueueInit
  <2>. QED BY <1>1, <1>5, <2>1, <2>2 DEF QueueTypeOK
<1>13. EndsOK
  BY Sides DEF EndsOK, EndsAt, EndPlaces, QueueInit
<1>. QED BY <1>1, <1>5, <1>7, <1>9, <1>10, <1>11, <1>12, <1>13 DEF QueueInv, CellsOK

LEMMA QueueStutters ==
  ASSUME QueueInv, UNCHANGED queueVars
  PROVE  QueueInv'
<1>1. QueueView' = QueueView
  BY DEF queueVars, QueueView
<1>2. QueueTypeOK'
  BY <1>1 DEF QueueInv, QueueTypeOK, RestOK, queueVars
<1>3. CellsOK(QueueView')
  BY <1>1 DEF QueueInv
<1>4. EndsOK'
  BY DEF QueueInv, EndsOK, EndsAt, Load, Pending, queueVars
<1>. QED BY <1>2, <1>3, <1>4 DEF QueueInv

(* The invariant of the lock-free queues: positions are owned once, stores   *)
(* wait in an order that keeps an item ahead of its publication, and a cell  *)
(* that a side may take holds what that side expects.  For every class, on   *)
(* sequentially consistent and on x86 memory.                                *)
THEOREM QueueInductive == QueueSpec => []QueueInv
<1>1. QueueInit => QueueInv
  BY QueueStart
<1>2. QueueInv /\ [QueueNext]_queueVars => QueueInv'
  <2>1. SUFFICES ASSUME QueueInv, [QueueNext]_queueVars PROVE QueueInv'
    OBVIOUS
  <2>2. CASE UNCHANGED queueVars
    BY <2>1, <2>2, QueueStutters
  <2>3. ASSUME Kept /\ EndsOK' PROVE QueueInv'
    BY <2>3 DEF Kept, QueueInv
  <2>4. CASE \E p \in Producers : Push(p)
    BY <2>1, <2>3, <2>4, PushKeeps
  <2>5. CASE \E c \in Consumers : Pop(c)
    BY <2>1, <2>3, <2>5, PopKeeps
  <2>6. CASE \E t \in QueueThreads : Flush(t)
    BY <2>1, <2>3, <2>6, StoreLands
  <2>7. CASE Close
    BY <2>1, <2>3, <2>7, CloseKeeps
  <2>8. CASE NotifyAll
    BY <2>1, <2>3, <2>8, NotifyAllKeeps
  <2>. QED BY <2>1, <2>2, <2>4, <2>5, <2>6, <2>7, <2>8 DEF QueueNext
<1>. QED BY <1>1, <1>2, PTL DEF QueueSpec

LEMMA QueueCells ==
  ASSUME QueueInv
  PROVE  CellHandedOver
<1>1. PICK s : s = QueueView
  OBVIOUS
<1>2. /\ s.kind = class[1] /\ s.mem = memory /\ s.buf = storeBuffer /\ s.at = place /\ s.pos = position
      /\ CellsOK(s) /\ ViewTypes(s)
  BY <1>1, ViewIs DEF QueueInv, QueueTypeOK
<1>3. ASSUME NEW t \in InCell, NEW u \in InCell, position[t] % Capacity = position[u] % Capacity
      PROVE  t = u
  <2>1. t \in QueueThreads /\ u \in QueueThreads /\ position[t] \in Int /\ position[u] \in Int
    BY <1>2 DEF InCell, ViewTypes
  <2>2. Owns(s, t, position[t]) /\ Owns(s, u, position[u])
    BY <1>2 DEF Owns, OwnsNow, InCell, CellPlaces
  <2>. QED BY <1>2, <1>3, <2>1, <2>2, OwnedApart
<1>4. ASSUME NEW t \in QueueThreads, place[t] = IF t \in Producers THEN "construct" ELSE "take"
      PROVE  Load(t, Data(position[t])) = Before(t, position[t])
  <2>1. position[t] \in Int
    BY <1>2 DEF ViewTypes
  <2>2. OwnsNow(s, t, position[t]) /\ ~Done(s, t)
    BY <1>2, <1>4 DEF OwnsNow, Done, CellPlaces
  <2>3. Waits(s, t, Data(position[t])) = {} /\ s.mem[Data(position[t])] = Before(t, position[t])
    BY <1>2, <2>1, <2>2, UntouchedData
  <2>4. Seen(s, t, Data(position[t])) = Before(t, position[t])
    BY <2>3 DEF Seen
  <2>. QED BY <1>1, <2>4, LoadIs
<1>5. \A p \in Producers : place[p] = "construct" => Load(p, Data(position[p])) = NoItem
  BY <1>4, Sides DEF Before
<1>6. \A c \in Consumers : place[c] = "take" => Load(c, Data(position[c])) = position[c]
  BY <1>4, Sides DEF Before
<1>7. \A c \in Consumers : place[c] = "ended" => Load(c, Dequeue) >= enqueuedAtClose
  BY DEF QueueInv, EndsOK, EndsAt
<1>. QED BY <1>3, <1>5, <1>6, <1>7 DEF CellHandedOver

(* A cell of a lock-free queue has one thread at a time, a producer finds it *)
(* empty and the consumer of a position finds what was pushed there, so each *)
(* item is taken once and in order; a Pop() that returned false left nothing *)
(* that was in the queue when it was closed.                                 *)
THEOREM CellHandedOverAlways == QueueSpec => []CellHandedOver
  BY QueueInductive, QueueCells, PTL

-----------------------------------------------------------------------------
(* LockFreeQueue: the sleepers.  Bell(t) is what t sleeps on.                *)
Bell(t) == IF t \in Producers THEN "notFull" ELSE "notEmpty"
Bells == {"notEmpty", "notFull"}

(* What there is for those who wait: items, or room for them.                *)
Offer(c) ==
    IF c = "notEmpty" THEN memory[Enqueue] - memory[Dequeue] ELSE memory[Dequeue] + Capacity - memory[Enqueue]

(* The thread has made such an offer, and will look for a sleeper; or it     *)
(* will look for an offer before it sleeps.                                  *)
Past(t) ==
    \/ place[t] \in {"publish", "notify", "wake"}
    \/ place[t] = "construct" /\ ~Alone(QueueView, t)
    \/ place[t] = "take" /\ class[1] # "SPSC"

Looks(t) == place[t] \notin {"idle", "asleep", "ended"} /\ ~Past(t) /\ (t \in Producers => t \in patient)

Movers(c) == {t \in QueueThreads : IF Bell(t) = c THEN Looks(t) ELSE Past(t)}
Ringers == {p \in Producers : Past(p)}

(* Nobody sleeps beside more offers than there are threads to see to them.   *)
WakersOK == ~closed => \A c \in Bells : Sleepers(c) # {} => Offer(c) <= Cardinality(Movers(c))

(* A thread that will sleep by what it has read: a producer that has been    *)
(* there since waits for the mutex.                                          *)
SizesOK ==
    \A t \in QueueThreads : place[t] = "predicateSize" =>
        /\ seenEnqueue[t] <= memory[Enqueue]
        /\ t \in Consumers => memory[Enqueue] - seenEnqueue[t] <= Cardinality(Ringers)

HoldPlaces == {"locked", "lockedSize", "count", "predicate", "predicateSize", "uncount"}
CountPlaces == {"predicate", "predicateSize", "asleep", "woken", "uncount"}

MutexOK == \A t \in QueueThreads : place[t] \in HoldPlaces => mutex[Bell(t)] = t

Counted(c) == {t \in QueueThreads : Bell(t) = c /\ place[t] \in CountPlaces}
WaitingOK == \A c \in Bells : waiting[c] = Cardinality(Counted(c))

PatientOK == \A p \in Producers : place[p] \in HoldPlaces \union CountPlaces \union {"lock"} => p \in patient

(* Close() has still to tell those who may not have heard of it.             *)
ToldOK ==
    /\ closing \in {<<>>, <<"notFull">>, <<"notEmpty", "notFull">>}
    /\ ~closed => closing = <<>>
    /\ closed => \A t \in QueueThreads : place[t] \in {"predicateSize", "asleep"} =>
         closing # <<>> /\ (t \in Consumers => closing = <<"notEmpty", "notFull">>)

(* The positions, and what a published cell says of them.                    *)
BoundsOK ==
    /\ memory[Dequeue] <= memory[Enqueue] /\ memory[Enqueue] <= memory[Dequeue] + Capacity
    /\ class[1] # "SPSC" =>
         /\ \A q \in Int : /\ memory[Sequence(q)] = q + 1 => q < memory[Enqueue]
                           /\ memory[Sequence(q)] = q => q < memory[Dequeue] + Capacity
         /\ \A t \in QueueThreads : Past(t) /\ place[t] \in CellPlaces => position[t] < memory[Edge(t)]

(* Without it a position may wait in a buffer while its thread looks for     *)
(* sleepers, see LockFreeQueue_buffered.                                     *)
EdgesPlain == class[2] = "plain" \/ class[1] = "MPMC"

WakeOK == WakersOK /\ SizesOK /\ MutexOK /\ WaitingOK /\ PatientOK /\ ToldOK /\ BoundsOK /\ EdgesPlain

WakeInv == QueueInv /\ WakeOK

LEMMA ThreadsFinite == IsFiniteSet(QueueThreads) /\ IsFiniteSet(Producers) /\ IsFiniteSet(Consumers)
  BY FS_Union, QueueConstants DEF QueueThreads

LEMMA BellIs ==
  /\ \A p \in Producers : Bell(p) = "notFull" /\ p \in QueueThreads
  /\ \A c \in Consumers : Bell(c) = "notEmpty" /\ c \in QueueThreads /\ c \notin Producers
  /\ \A t \in QueueThreads : Bell(t) \in Bells /\ (t \in Producers \/ t \in Consumers)
  BY QueueConstants DEF Bell, Bells, QueueThreads

LEMMA SleepersAre == \A c \in Bells : Sleepers(c) = {t \in QueueThreads : Bell(t) = c /\ place[t] = "asleep"}
  BY BellIs DEF Sleepers, Bells

(* A set that changes by one element, or not at all.                         *)
LEMMA SetMoves ==
  ASSUME NEW S, NEW T, NEW t, IsFiniteSet(S), \A u : u # t => (u \in S <=> u \in T)
  PROVE  /\ IsFiniteSet(T) /\ Cardinality(S) \in Nat
         /\ Cardinality(T) = Cardinality(S) + (IF t \in T THEN 1 ELSE 0) - (IF t \in S THEN 1 ELSE 0)
<1>1. Cardinality(S) \in Nat
  BY FS_CardinalityType
<1>2. CASE t \in S <=> t \in T
  <2>1. S = T
    BY <1>2
  <2>. QED BY <1>1, <2>1
<1>3. CASE t \in T /\ t \notin S
  <2>1. T = S \union {t}
    BY <1>3
  <2>2. IsFiniteSet(T) /\ Cardinality(T) = Cardinality(S) + 1
    BY <1>3, <2>1, FS_AddElement
  <2>. QED BY <1>1, <1>3, <2>2
<1>4. CASE t \notin T /\ t \in S
  <2>1. T = S \ {t}
    BY <1>4
  <2>2. IsFiniteSet(T) /\ Cardinality(T) = Cardinality(S) - 1
    BY <1>4, <2>1, FS_RemoveElement
  <2>. QED BY <1>1, <1>4, <2>2
<1>. QED BY <1>2, <1>3, <1>4

LEMMA WakeTypes ==
  ASSUME QueueInv
  PROVE  /\ place \in [QueueThreads -> QueuePlaces] /\ position \in [QueueThreads -> Int]
         /\ memory \in [Locations -> Int] /\ memory[Enqueue] \in Int /\ memory[Dequeue] \in Int
         /\ seenEnqueue \in [QueueThreads -> Int] /\ patient \subseteq QueueThreads
         /\ waiting \in [Bells -> Int] /\ mutex \in [Bells -> QueueThreads \union {Nobody}]
         /\ class[1] \in QueueKind /\ closed \in BOOLEAN
         /\ Capacity \in Int /\ Capacity >= 2
         /\ \A c \in Bells : Offer(c) \in Int
<1>1. /\ place \in [QueueThreads -> QueuePlaces] /\ position \in [QueueThreads -> Int]
      /\ memory \in [Locations -> Int] /\ class[1] \in QueueKind
  BY ViewIs DEF QueueInv, QueueTypeOK, ViewTypes
<1>2. memory[Enqueue] \in Int /\ memory[Dequeue] \in Int
  BY <1>1, LocationsApart
<1>3. Capacity \in Int /\ Capacity >= 2
  BY QueueConstants
<1>4. /\ seenEnqueue \in [QueueThreads -> Int] /\ patient \subseteq QueueThreads
      /\ waiting \in [Bells -> Int] /\ mutex \in [Bells -> QueueThreads \union {Nobody}]
  BY DEF QueueInv, QueueTypeOK, RestOK, Bells
<1>5. closed \in BOOLEAN
  BY DEF QueueInv, QueueTypeOK, RestOK
<1>6. \A c \in Bells : Offer(c) \in Int
  BY <1>2, <1>3 DEF Offer
<1>. QED BY <1>1, <1>2, <1>3, <1>4, <1>5, <1>6

(* A thread reads the positions that memory has.                             *)
LEMMA EdgesRead ==
  ASSUME QueueInv, EdgesPlain, NEW t \in QueueThreads
  PROVE  Load(t, Enqueue) = memory[Enqueue] /\ Load(t, Dequeue) = memory[Dequeue]
<1>1. CASE class[2] = "plain"
  <2>1. storeBuffer[t] = <<>>
    BY <1>1 DEF QueueInv, QueueTypeOK
  <2>2. \A l : Pending(t, l) = {}
    BY <2>1 DEF Pending
  <2>. QED BY <2>2 DEF Load
<1>2. CASE class[1] = "MPMC"
  <2>1. ~Alone(QueueView, t) /\ CellsOK(QueueView)
    BY <1>2, ViewIs DEF Alone, QueueInv
  <2>2. Load(t, Edge(t)) = memory[Edge(t)]
    BY <2>1, FrontSeen, LoadIs, ViewIs
  <2>. QED BY <2>2, OtherFront, BellIs, Sides
<1>. QED BY <1>1, <1>2 DEF EdgesPlain

(* One thread moves.                                                         *)
OneMove(t) ==
    /\ class' = class /\ closed' = closed /\ closing' = closing
    /\ \A u \in QueueThreads \ {t} :
         place'[u] = place[u] /\ seenEnqueue'[u] = seenEnqueue[u] /\ (u \in patient' <=> u \in patient)

LEMMA OthersSame ==
  ASSUME NEW t \in QueueThreads, OneMove(t)
  PROVE  \A u \in QueueThreads \ {t} : (Past(u)' <=> Past(u)) /\ (Looks(u)' <=> Looks(u))
<1>1. ASSUME NEW u \in QueueThreads \ {t} PROVE (Past(u)' <=> Past(u)) /\ (Looks(u)' <=> Looks(u))
  <2>1. place'[u] = place[u] /\ class' = class /\ (u \in patient' <=> u \in patient)
    BY DEF OneMove
  <2>2. Alone(QueueView, u)' <=> Alone(QueueView, u)
    BY <2>1, ViewIs DEF Alone
  <2>3. Past(u)' <=> Past(u)
    BY <2>1, <2>2 DEF Past
  <2>. QED BY <2>1, <2>3 DEF Looks
<1>. QED BY <1>1

LEMMA MoversMove ==
  ASSUME NEW t \in QueueThreads, OneMove(t), NEW c \in Bells
  PROVE  /\ Cardinality(Movers(c)) \in Nat /\ Cardinality(Ringers) \in Nat /\ Cardinality(Counted(c)) \in Nat
         /\ Cardinality(Movers(c))' = Cardinality(Movers(c)) + (IF t \in Movers(c)' THEN 1 ELSE 0)
                                                              - (IF t \in Movers(c) THEN 1 ELSE 0)
         /\ Cardinality(Ringers)' = Cardinality(Ringers) + (IF t \in Ringers' THEN 1 ELSE 0)
                                                         - (IF t \in Ringers THEN 1 ELSE 0)
         /\ Cardinality(Counted(c))' = Cardinality(Counted(c)) + (IF t \in Counted(c)' THEN 1 ELSE 0)
                                                               - (IF t \in Counted(c) THEN 1 ELSE 0)
<1>1. \A u \in QueueThreads \ {t} : (Past(u)' <=> Past(u)) /\ (Looks(u)' <=> Looks(u)) /\ place'[u] = place[u]
  BY OthersSame DEF OneMove
<1>2. IsFiniteSet(Movers(c)) /\ IsFiniteSet(Ringers) /\ IsFiniteSet(Counted(c))
  <2>1. Movers(c) \subseteq QueueThreads /\ Ringers \subseteq Producers /\ Counted(c) \subseteq QueueThreads
    BY DEF Movers, Ringers, Counted
  <2>. QED BY <2>1, ThreadsFinite, FS_Subset
<1>3. \A u : u # t => (u \in Movers(c) <=> u \in Movers(c)')
  BY <1>1 DEF Movers
<1>4. \A u : u # t => (u \in Ringers <=> u \in Ringers')
  BY <1>1, BellIs DEF Ringers
<1>5. \A u : u # t => (u \in Counted(c) <=> u \in Counted(c)')
  BY <1>1 DEF Counted
<1>6. /\ Cardinality(Movers(c)) \in Nat
      /\ Cardinality(Movers(c)') = Cardinality(Movers(c)) + (IF t \in Movers(c)' THEN 1 ELSE 0)
                                                           - (IF t \in Movers(c) THEN 1 ELSE 0)
  BY <1>2, <1>3, SetMoves
<1>7. /\ Cardinality(Ringers) \in Nat
      /\ Cardinality(Ringers') = Cardinality(Ringers) + (IF t \in Ringers' THEN 1 ELSE 0) - (IF t \in Ringers THEN 1 ELSE 0)
  BY <1>2, <1>4, SetMoves
<1>8. /\ Cardinality(Counted(c)) \in Nat
      /\ Cardinality(Counted(c)') = Cardinality(Counted(c)) + (IF t \in Counted(c)' THEN 1 ELSE 0)
                                                             - (IF t \in Counted(c) THEN 1 ELSE 0)
  BY <1>2, <1>5, SetMoves
<1>. QED BY <1>6, <1>7, <1>8

-----------------------------------------------------------------------------
(* What a move of t has to do with each part.                                *)
LEMMA WakeParts ==
  ASSUME WakeInv
  PROVE  /\ QueueInv /\ WakersOK /\ SizesOK /\ MutexOK /\ WaitingOK /\ PatientOK /\ ToldOK /\ BoundsOK /\ EdgesPlain
         /\ CellsOK(QueueView)
  BY DEF WakeInv, WakeOK, QueueInv

LEMMA SleepersStay ==
  ASSUME WakeInv, QueueInv', NEW t \in QueueThreads, OneMove(t), place'[t] # "asleep",
         \A c \in Bells : \/ closed
                          \/ Sleepers(c) = {}
                          \/ Offer(c)' + (IF t \in Movers(c) THEN 1 ELSE 0) <= Offer(c) + (IF t \in Movers(c)' THEN 1 ELSE 0)
  PROVE  WakersOK'
<1>1. closed' = closed /\ \A u \in QueueThreads \ {t} : place'[u] = place[u]
  BY DEF OneMove
<1>2. SUFFICES ASSUME ~closed, NEW c \in Bells, Sleepers(c)' # {} PROVE Offer(c)' <= Cardinality(Movers(c))'
  BY <1>1 DEF WakersOK
<1>3. Sleepers(c) # {}
  <2>1. PICK u \in QueueThreads : place'[u] = "asleep" /\ Bell(u) = c
    <3>1. Sleepers(c)' = {u \in QueueThreads : Bell(u) = c /\ place'[u] = "asleep"}
      BY BellIs DEF Sleepers, Bells
    <3>. QED BY <1>2, <3>1
  <2>2. u # t /\ place[u] = "asleep"
    BY <1>1, <2>1
  <2>. QED BY <2>1, <2>2, SleepersAre
<1>4. Offer(c) <= Cardinality(Movers(c))
  BY <1>2, <1>3, WakeParts DEF WakersOK
<1>5. Offer(c)' + (IF t \in Movers(c) THEN 1 ELSE 0) <= Offer(c) + (IF t \in Movers(c)' THEN 1 ELSE 0)
  BY <1>2, <1>3
<1>6. /\ Cardinality(Movers(c)) \in Nat
      /\ Cardinality(Movers(c))' = Cardinality(Movers(c)) + (IF t \in Movers(c)' THEN 1 ELSE 0)
                                                           - (IF t \in Movers(c) THEN 1 ELSE 0)
  BY MoversMove
<1>7. Offer(c) \in Int /\ Offer(c)' \in Int
  <2>1. QueueInv
    BY WakeParts
  <2>2. memory'[Enqueue] \in Int /\ memory'[Dequeue] \in Int /\ Capacity \in Int
    BY ViewIs, LocationsApart, QueueConstants DEF QueueInv, QueueTypeOK, ViewTypes
  <2>3. Offer(c)' \in Int
    BY <2>2 DEF Offer
  <2>. QED BY <2>1, <2>3, WakeTypes
<1>. QED BY <1>4, <1>5, <1>6, <1>7

LEMMA SizesStay ==
  ASSUME WakeInv, QueueInv', NEW t \in QueueThreads, OneMove(t), memory[Enqueue] <= memory'[Enqueue],
         place'[t] = "predicateSize" => seenEnqueue'[t] = memory'[Enqueue],
         \/ \A u \in Consumers : place[u] # "predicateSize"
         \/ memory'[Enqueue] + (IF t \in Ringers THEN 1 ELSE 0) <= memory[Enqueue] + (IF t \in Ringers' THEN 1 ELSE 0)
  PROVE  SizesOK'
<1>1. SUFFICES ASSUME NEW u \in QueueThreads, place'[u] = "predicateSize"
               PROVE  /\ seenEnqueue'[u] <= memory'[Enqueue]
                      /\ u \in Consumers => memory'[Enqueue] - seenEnqueue'[u] <= Cardinality(Ringers)'
  BY DEF SizesOK
<1>2. memory[Enqueue] \in Int /\ memory'[Enqueue] \in Int /\ seenEnqueue \in [QueueThreads -> Int]
  <2>1. memory'[Enqueue] \in Int
    BY ViewIs, LocationsApart DEF QueueInv, QueueTypeOK, ViewTypes
  <2>. QED BY <2>1, WakeParts, WakeTypes
<1>3. PICK c \in Bells : TRUE
  BY DEF Bells
<1>4. /\ Cardinality(Ringers) \in Nat
      /\ Cardinality(Ringers)' = Cardinality(Ringers) + (IF t \in Ringers' THEN 1 ELSE 0) - (IF t \in Ringers THEN 1 ELSE 0)
  BY <1>3, MoversMove
<1>5. Cardinality(Ringers)' \in Nat
  <2>1. Ringers' \subseteq Producers
    BY DEF Ringers
  <2>2. IsFiniteSet(Ringers')
    BY <2>1, ThreadsFinite, FS_Subset
  <2>. QED BY <2>2, FS_CardinalityType
<1>6. CASE u = t
  BY <1>1, <1>2, <1>5, <1>6
<1>7. CASE u # t
  <2>1. place[u] = "predicateSize" /\ seenEnqueue'[u] = seenEnqueue[u]
    BY <1>1, <1>7 DEF OneMove
  <2>2. seenEnqueue[u] <= memory[Enqueue] /\ (u \in Consumers => memory[Enqueue] - seenEnqueue[u] <= Cardinality(Ringers))
    BY <2>1, WakeParts DEF SizesOK
  <2>3. seenEnqueue[u] \in Int
    BY <1>2
  <2>. QED BY <1>2, <1>4, <2>1, <2>2, <2>3
<1>. QED BY <1>6, <1>7

LEMMA MutexStays ==
  ASSUME WakeInv, NEW t \in QueueThreads, OneMove(t),
         \A u \in QueueThreads \ {t} : mutex[Bell(u)] = u => mutex'[Bell(u)] = u,
         place'[t] \in HoldPlaces => mutex'[Bell(t)] = t
  PROVE  MutexOK'
<1>1. ASSUME NEW u \in QueueThreads, place'[u] \in HoldPlaces PROVE mutex'[Bell(u)] = u
  <2>1. CASE u = t
    BY <1>1, <2>1
  <2>2. CASE u # t
    <3>1. place[u] \in HoldPlaces
      BY <1>1, <2>2 DEF OneMove
    <3>. QED BY <2>2, <3>1, WakeParts DEF MutexOK
  <2>. QED BY <2>1, <2>2
<1>. QED BY <1>1 DEF MutexOK, Bell

LEMMA WaitingStays ==
  ASSUME WakeInv, NEW t \in QueueThreads, OneMove(t),
         \A c \in Bells : waiting'[c] = waiting[c] + (IF t \in Counted(c)' THEN 1 ELSE 0) - (IF t \in Counted(c) THEN 1 ELSE 0)
  PROVE  WaitingOK'
<1>1. ASSUME NEW c \in Bells PROVE waiting'[c] = Cardinality(Counted(c))'
  <2>1. waiting[c] = Cardinality(Counted(c))
    BY WakeParts DEF WaitingOK
  <2>2. /\ Cardinality(Counted(c)) \in Nat
        /\ Cardinality(Counted(c))' = Cardinality(Counted(c)) + (IF t \in Counted(c)' THEN 1 ELSE 0)
                                                               - (IF t \in Counted(c) THEN 1 ELSE 0)
    BY MoversMove
  <2>. QED BY <2>1, <2>2
<1>. QED BY <1>1 DEF WaitingOK

LEMMA PatientStays ==
  ASSUME WakeInv, NEW t \in QueueThreads, OneMove(t),
         t \in Producers /\ place'[t] \in HoldPlaces \union CountPlaces \union {"lock"} => t \in patient'
  PROVE  PatientOK'
<1>1. ASSUME NEW p \in Producers, place'[p] \in HoldPlaces \union CountPlaces \union {"lock"} PROVE p \in patient'
  <2>1. CASE p = t
    BY <1>1, <2>1
  <2>2. CASE p # t
    <3>1. p \in QueueThreads \ {t}
      BY <2>2, BellIs
    <3>2. place[p] = place'[p] /\ (p \in patient' <=> p \in patient)
      BY <3>1 DEF OneMove
    <3>. QED BY <1>1, <3>2, WakeParts DEF PatientOK
  <2>. QED BY <2>1, <2>2
<1>. QED BY <1>1 DEF PatientOK

LEMMA ToldStays ==
  ASSUME WakeInv, NEW t \in QueueThreads, OneMove(t),
         closed /\ place'[t] \in {"predicateSize", "asleep"} => place[t] \in {"predicateSize", "asleep"}
  PROVE  ToldOK'
<1>1. ToldOK /\ closed' = closed /\ closing' = closing
  BY WakeParts DEF OneMove
<1>2. ASSUME closed, NEW u \in QueueThreads, place'[u] \in {"predicateSize", "asleep"}
      PROVE  closing # <<>> /\ (u \in Consumers => closing = <<"notEmpty", "notFull">>)
  <2>1. place[u] \in {"predicateSize", "asleep"}
    BY <1>2 DEF OneMove
  <2>. QED BY <1>1, <1>2, <2>1 DEF ToldOK
<1>. QED BY <1>1, <1>2 DEF ToldOK

LEMMA BoundsStay ==
  ASSUME WakeInv, QueueInv', NEW t \in QueueThreads, OneMove(t),
         memory'[Enqueue] = memory[Enqueue], memory'[Dequeue] = memory[Dequeue],
         class[1] # "SPSC" => \A q \in Int : memory'[Sequence(q)] = memory[Sequence(q)],
         \A u \in QueueThreads \ {t} : position'[u] = position[u],
         Past(t)' /\ place'[t] \in CellPlaces => Past(t) /\ place[t] \in CellPlaces /\ position'[t] = position[t]
  PROVE  BoundsOK'
<1>1. BoundsOK /\ class' = class
  BY WakeParts DEF OneMove
<1>2. ASSUME class[1] # "SPSC", NEW u \in QueueThreads, Past(u)', place'[u] \in CellPlaces
      PROVE  position'[u] < memory'[Edge(u)]
  <2>1. Past(u) /\ place[u] \in CellPlaces /\ position'[u] = position[u]
    <3>1. CASE u = t
      BY <1>2, <3>1
    <3>2. CASE u # t
      BY <1>2, <3>2, OthersSame DEF OneMove
    <3>. QED BY <3>1, <3>2
  <2>2. position[u] < memory[Edge(u)]
    BY <1>1, <1>2, <2>1 DEF BoundsOK
  <2>. QED BY <2>1, <2>2 DEF Edge
<1>3. memory'[Dequeue] <= memory'[Enqueue] /\ memory'[Enqueue] <= memory'[Dequeue] + Capacity
  BY <1>1 DEF BoundsOK
<1>4. class[1] # "SPSC" => \A q \in Int : /\ memory'[Sequence(q)] = q + 1 => q < memory'[Enqueue]
                                          /\ memory'[Sequence(q)] = q => q < memory'[Dequeue] + Capacity
  BY <1>1 DEF BoundsOK
<1>5. class'[1] # "SPSC" => \A q \in Int : /\ memory'[Sequence(q)] = q + 1 => q < memory'[Enqueue]
                                           /\ memory'[Sequence(q)] = q => q < memory'[Dequeue] + Capacity
  BY <1>1, <1>4
<1>6. class'[1] # "SPSC" => \A u \in QueueThreads : Past(u)' /\ place'[u] \in CellPlaces => position'[u] < memory'[Edge(u)]
  BY <1>1, <1>2
<1>. QED BY <1>3, <1>5, <1>6 DEF BoundsOK, Edge

-----------------------------------------------------------------------------
(* A thread that offers nothing and takes nothing.                           *)
LEMMA PastIs ==
  ASSUME NEW t \in QueueThreads, class' = class
  PROVE  /\ Past(t) <=> \/ place[t] \in {"publish", "notify", "wake"}
                        \/ place[t] = "construct" /\ ~Alone(QueueView, t)
                        \/ place[t] = "take" /\ class[1] # "SPSC"
         /\ Past(t)' <=> \/ place'[t] \in {"publish", "notify", "wake"}
                         \/ place'[t] = "construct" /\ ~Alone(QueueView, t)
                         \/ place'[t] = "take" /\ class[1] # "SPSC"
<1>1. Alone(QueueView, t)' <=> Alone(QueueView, t)
  BY ViewIs DEF Alone
<1>. QED BY <1>1 DEF Past

LEMMA MembersAre ==
  ASSUME NEW t \in QueueThreads, NEW c \in Bells
  PROVE  /\ t \in Movers(c) <=> IF Bell(t) = c THEN Looks(t) ELSE Past(t)
         /\ t \in Movers(c)' <=> IF Bell(t) = c THEN Looks(t)' ELSE Past(t)'
         /\ t \in Ringers <=> t \in Producers /\ Past(t)
         /\ t \in Ringers' <=> t \in Producers /\ Past(t)'
         /\ t \in Counted(c) <=> Bell(t) = c /\ place[t] \in CountPlaces
         /\ t \in Counted(c)' <=> Bell(t) = c /\ place'[t] \in CountPlaces
  BY DEF Movers, Ringers, Counted, Bell

LEMMA OffersSame ==
  ASSUME memory'[Enqueue] = memory[Enqueue], memory'[Dequeue] = memory[Dequeue]
  PROVE  \A c \in Bells : Offer(c)' = Offer(c)
  BY DEF Offer

LEMMA Steady ==
  ASSUME WakeInv, QueueInv', NEW t \in QueueThreads, OneMove(t), BoundsOK',
         memory'[Enqueue] = memory[Enqueue], memory'[Dequeue] = memory[Dequeue], place'[t] # "asleep",
         place'[t] = "predicateSize" => seenEnqueue'[t] = memory[Enqueue] /\ ~closed,
         MutexOK', WaitingOK',
         t \in Producers /\ place'[t] \in HoldPlaces \union CountPlaces \union {"lock"} => t \in patient',
         closed \/ (Looks(t) => Looks(t)') \/ Sleepers(Bell(t)) = {},
         Past(t) => Past(t)'
  PROVE  WakeOK'
<1>1. QueueInv /\ \A c \in Bells : Offer(c)' = Offer(c) /\ Offer(c) \in Int
  BY WakeParts, WakeTypes, OffersSame
<1>2. memory[Enqueue] \in Int
  BY <1>1, WakeTypes
<1>3. \A c \in Bells : \/ closed
                       \/ Sleepers(c) = {}
                       \/ Offer(c)' + (IF t \in Movers(c) THEN 1 ELSE 0) <= Offer(c) + (IF t \in Movers(c)' THEN 1 ELSE 0)
  <2>1. SUFFICES ASSUME NEW c \in Bells, ~closed, Sleepers(c) # {}, t \in Movers(c) PROVE t \in Movers(c)'
    BY <1>1
  <2>. QED BY <2>1, MembersAre
<1>4. WakersOK'
  BY <1>3, SleepersStay
<1>5. SizesOK'
  <2>1. t \in Ringers => t \in Ringers'
    BY BellIs DEF Ringers
  <2>2. memory'[Enqueue] + (IF t \in Ringers THEN 1 ELSE 0) <= memory[Enqueue] + (IF t \in Ringers' THEN 1 ELSE 0)
    BY <1>2, <2>1
  <2>. QED BY <1>2, <2>2, SizesStay
<1>6. PatientOK'
  BY PatientStays
<1>7. ToldOK'
  BY ToldStays
<1>8. EdgesPlain'
  BY WakeParts DEF EdgesPlain, OneMove
<1>. QED BY <1>4, <1>5, <1>6, <1>7, <1>8 DEF WakeOK

(* What is not counted stays so.                                             *)
LEMMA SameCounts ==
  ASSUME WakeInv, NEW t \in QueueThreads, OneMove(t), waiting' = waiting,
         place'[t] \in CountPlaces <=> place[t] \in CountPlaces
  PROVE  WaitingOK'
<1>1. QueueInv /\ \A c \in Bells : waiting[c] \in Int
  BY WakeParts, WakeTypes
<1>. QED BY <1>1, MembersAre, WaitingStays

LEMMA SameMutex ==
  ASSUME WakeInv, NEW t \in QueueThreads, OneMove(t), mutex' = mutex,
         place'[t] \in HoldPlaces => place[t] \in HoldPlaces
  PROVE  MutexOK'
<1>1. place'[t] \in HoldPlaces => mutex'[Bell(t)] = t
  BY WakeParts DEF MutexOK
<1>. QED BY <1>1, MutexStays

(* A step that only moves t.                                                 *)
LEMMA OnlyIs ==
  ASSUME QueueInv, NEW t \in QueueThreads, NEW next, Only(t, next)
  PROVE  /\ OneMove(t) /\ place'[t] = next /\ memory' = memory /\ mutex' = mutex /\ waiting' = waiting
         /\ storeBuffer' = storeBuffer
         /\ t \in patient' <=> t \in patient /\ next \notin {"notify", "idle", "ended"}
         /\ \A u \in QueueThreads \ {t} : position'[u] = position[u]
         /\ next \notin {"failed", "notify", "idle"} => position' = position
<1>1. place \in [QueueThreads -> QueuePlaces] /\ seenEnqueue \in [QueueThreads -> Int] /\ position \in [QueueThreads -> Int]
  BY WakeTypes
<1>2. /\ place' = [place EXCEPT ![t] = next]
      /\ position' = IF next \in {"failed", "notify", "idle"} THEN [position EXCEPT ![t] = 0] ELSE position
      /\ seenEnqueue' = [seenEnqueue EXCEPT ![t] = 0]
      /\ patient' = IF next \in {"notify", "idle", "ended"} THEN patient \ {t} ELSE patient
      /\ UNCHANGED <<class, team, closed, enqueuedAtClose, closing, pushes, memory, storeBuffer, waiting, mutex>>
  BY DEF Only, Settle, Advance, sharedVars
<1>3. OneMove(t)
  BY <1>1, <1>2 DEF OneMove
<1>. QED BY <1>1, <1>2, <1>3

LEMMA OnlyWakes ==
  ASSUME WakeInv, QueueInv', NEW t \in QueueThreads, NEW next, Only(t, next),
         next \notin {"asleep", "predicateSize", "lock", "publish", "notify"},
         next \in HoldPlaces => place[t] \in HoldPlaces,
         next \in CountPlaces <=> place[t] \in CountPlaces,
         closed \/ t \in Producers \ patient \/ next \notin {"idle", "ended"},
         next \in {"construct", "take"} => ~Past(t)',
         next = "wake" <=> place[t] = "notify",
         place[t] \notin {"construct", "take", "publish", "wake"}
  PROVE  WakeOK'
<1>1. QueueInv
  BY WakeParts
<1>2. /\ OneMove(t) /\ place'[t] = next /\ memory' = memory /\ mutex' = mutex /\ waiting' = waiting
      /\ t \in patient' <=> t \in patient /\ next \notin {"notify", "idle", "ended"}
      /\ \A u \in QueueThreads \ {t} : position'[u] = position[u]
      /\ class' = class
  BY <1>1, OnlyIs DEF OneMove
<1>3. Past(t) <=> place[t] = "notify"
  BY <1>2, PastIs
<1>4. Past(t)' <=> next = "wake"
  BY <1>2, PastIs
<1>5. BoundsOK'
  <2>1. ~(Past(t)' /\ place'[t] \in CellPlaces)
    BY <1>2, <1>4 DEF CellPlaces
  <2>. QED BY <1>2, <2>1, BoundsStay
<1>6. MutexOK' /\ WaitingOK'
  BY <1>2, SameMutex, SameCounts
<1>7. t \in Producers /\ place'[t] \in HoldPlaces \union CountPlaces \union {"lock"} => t \in patient'
  BY <1>2, WakeParts DEF PatientOK, HoldPlaces, CountPlaces
<1>8. closed \/ (Looks(t) => Looks(t)')
  BY <1>2, <1>3, <1>4 DEF Looks
<1>. QED BY <1>2, <1>3, <1>4, <1>5, <1>6, <1>7, <1>8, Steady

(* A step that takes t from one of these places to another, and touches      *)
(* neither memory nor the counters.                                          *)
LEMMA MoveWakes ==
  ASSUME WakeInv, QueueInv', NEW t \in QueueThreads, OneMove(t), memory' = memory, MutexOK', WaitingOK',
         \A u \in QueueThreads \ {t} : position'[u] = position[u],
         place[t] \notin {"construct", "take", "publish", "wake", "notify"},
         place'[t] \notin {"construct", "take", "publish", "wake", "notify", "idle", "asleep", "ended"},
         place'[t] = "predicateSize" => seenEnqueue'[t] = memory[Enqueue] /\ ~closed,
         t \in patient => t \in patient',
         t \in Producers /\ place'[t] \in HoldPlaces \union CountPlaces \union {"lock"} =>
           t \in patient' \/ place[t] \in HoldPlaces \union CountPlaces \union {"lock"}
  PROVE  WakeOK'
<1>1. class' = class
  BY DEF OneMove
<1>2. ~Past(t) /\ ~Past(t)'
  BY <1>1, PastIs
<1>3. BoundsOK'
  BY <1>2, BoundsStay
<1>4. t \in Producers /\ place'[t] \in HoldPlaces \union CountPlaces \union {"lock"} => t \in patient'
  BY WakeParts DEF PatientOK
<1>5. Looks(t) => Looks(t)'
  BY <1>2 DEF Looks
<1>. QED BY <1>2, <1>3, <1>4, <1>5, Steady

LEMMA LoadPositionWakes ==
  ASSUME WakeInv, QueueInv', NEW t \in QueueThreads, NEW from, NEW l, NEW next, LoadPosition(t, from, l, next),
         from \in {"enter", "reload", "load"}, next \in {"slot", "again"}
  PROVE  WakeOK'
<1>1. QueueInv /\ place \in [QueueThreads -> QueuePlaces] /\ position \in [QueueThreads -> Int]
  BY WakeParts, WakeTypes
<1>2. /\ OneMove(t) /\ place[t] = from /\ place'[t] = next /\ memory' = memory /\ patient' = patient
      /\ mutex' = mutex /\ waiting' = waiting /\ \A u \in QueueThreads \ {t} : position'[u] = position[u]
  BY <1>1 DEF LoadPosition, Advance, sharedVars, OneMove
<1>3. place[t] \notin HoldPlaces \union CountPlaces /\ place'[t] \notin HoldPlaces \union CountPlaces \union {"lock"}
  BY <1>2 DEF HoldPlaces, CountPlaces
<1>4. MutexOK' /\ WaitingOK'
  BY <1>2, <1>3, SameMutex, SameCounts
<1>. QED BY <1>2, <1>3, <1>4, MoveWakes

LEMMA RetryWakes ==
  ASSUME WakeInv, QueueInv', NEW t \in QueueThreads, NEW again, Retry(t, again), again \in {"enter", "load"},
         place[t] \in {"failed", "closedSize"}
  PROVE  WakeOK'
<1>1. QueueInv /\ place \in [QueueThreads -> QueuePlaces]
  BY WakeParts, WakeTypes
<1>2. place[t] \notin HoldPlaces \union CountPlaces /\ again \notin HoldPlaces \union CountPlaces /\ "lock" \notin HoldPlaces \union CountPlaces
  BY DEF HoldPlaces, CountPlaces
<1>3. CASE Only(t, again)
  BY <1>2, <1>3, OnlyWakes
<1>4. CASE /\ Advance(t, "lock")
           /\ patient' = patient \union {t}
           /\ UNCHANGED <<sharedVars, memory, storeBuffer, waiting, mutex, position, seenEnqueue>>
  <2>1. /\ OneMove(t) /\ place'[t] = "lock" /\ memory' = memory /\ t \in patient'
        /\ mutex' = mutex /\ waiting' = waiting /\ position' = position
    BY <1>1, <1>4 DEF Advance, sharedVars, OneMove
  <2>2. MutexOK' /\ WaitingOK'
    BY <1>2, <2>1, SameMutex, SameCounts
  <2>. QED BY <2>1, <2>2, MoveWakes
<1>. QED BY <1>3, <1>4 DEF Retry

LEMMA LockWakes ==
  ASSUME WakeInv, QueueInv', NEW t \in QueueThreads, NEW from, NEW next, Lock(t, from, Bell(t), next),
         (from = "lock" /\ next = "locked") \/ (from = "woken" /\ next = "predicate")
  PROVE  WakeOK'
<1>1. /\ QueueInv /\ place \in [QueueThreads -> QueuePlaces] /\ mutex \in [Bells -> QueueThreads \union {Nobody}]
      /\ Bell(t) \in Bells /\ Nobody \notin QueueThreads
  BY WakeParts, WakeTypes, BellIs, QueueConstants DEF QueueThreads
<1>2. /\ OneMove(t) /\ place[t] = from /\ place'[t] = next /\ memory' = memory /\ patient' = patient
      /\ mutex[Bell(t)] = Nobody /\ mutex' = [mutex EXCEPT ![Bell(t)] = t] /\ waiting' = waiting /\ position' = position
  BY <1>1 DEF Lock, Advance, sharedVars, OneMove
<1>3. place[t] \in CountPlaces <=> place'[t] \in CountPlaces
  BY <1>2 DEF CountPlaces
<1>4. WaitingOK'
  BY <1>2, <1>3, SameCounts
<1>5. MutexOK'
  <2>1. \A u \in QueueThreads \ {t} : mutex[Bell(u)] = u => mutex'[Bell(u)] = u
    BY <1>1, <1>2, BellIs
  <2>2. mutex'[Bell(t)] = t
    BY <1>1, <1>2
  <2>. QED BY <1>2, <2>1, <2>2, MutexStays
<1>6. place[t] \in HoldPlaces \union CountPlaces \union {"lock"}
  BY <1>2 DEF CountPlaces
<1>. QED BY <1>2, <1>4, <1>5, <1>6, MoveWakes

LEMMA ReleaseMutex ==
  ASSUME WakeInv, NEW t \in QueueThreads, OneMove(t), mutex' = [mutex EXCEPT ![Bell(t)] = Nobody],
         place[t] \in HoldPlaces, place'[t] \notin HoldPlaces
  PROVE  MutexOK'
<1>1. QueueInv /\ mutex \in [Bells -> QueueThreads \union {Nobody}]
  BY WakeParts, WakeTypes
<1>2. mutex[Bell(t)] = t
  BY WakeParts DEF MutexOK
<1>3. \A u \in QueueThreads \ {t} : mutex[Bell(u)] = u => mutex'[Bell(u)] = u
  BY <1>1, <1>2, BellIs
<1>. QED BY <1>3, MutexStays

LEMMA CountWakes ==
  ASSUME WakeInv, QueueInv', NEW t \in QueueThreads, Count(t, Bell(t))
  PROVE  WakeOK'
<1>1. QueueInv /\ place \in [QueueThreads -> QueuePlaces] /\ waiting \in [Bells -> Int] /\ Bell(t) \in Bells
  BY WakeParts, WakeTypes, BellIs
<1>2. /\ OneMove(t) /\ place[t] = "count" /\ place'[t] = "predicate" /\ memory' = memory /\ patient' = patient
      /\ mutex' = mutex /\ waiting' = [waiting EXCEPT ![Bell(t)] = @ + 1] /\ position' = position
  BY <1>1 DEF Count, Advance, sharedVars, OneMove
<1>3. place[t] \notin CountPlaces /\ place'[t] \in CountPlaces /\ place[t] \in HoldPlaces
  BY <1>2 DEF CountPlaces, HoldPlaces
<1>4. WaitingOK'
  <2>1. ASSUME NEW c \in Bells
        PROVE  waiting'[c] = waiting[c] + (IF t \in Counted(c)' THEN 1 ELSE 0) - (IF t \in Counted(c) THEN 1 ELSE 0)
    <3>1. waiting[c] \in Int /\ waiting'[c] = IF c = Bell(t) THEN waiting[c] + 1 ELSE waiting[c]
      BY <1>1, <1>2
    <3>2. t \notin Counted(c) /\ (t \in Counted(c)' <=> Bell(t) = c)
      BY <1>3, MembersAre
    <3>. QED BY <3>1, <3>2
  <2>. QED BY <1>2, <2>1, WaitingStays
<1>5. MutexOK'
  BY <1>2, <1>3, SameMutex
<1>. QED BY <1>2, <1>3, <1>4, <1>5, MoveWakes

LEMMA UncountWakes ==
  ASSUME WakeInv, QueueInv', NEW t \in QueueThreads, NEW next, Uncount(t, Bell(t), next), next \in {"enter", "load"}
  PROVE  WakeOK'
<1>1. QueueInv /\ place \in [QueueThreads -> QueuePlaces] /\ waiting \in [Bells -> Int] /\ Bell(t) \in Bells
  BY WakeParts, WakeTypes, BellIs
<1>2. /\ OneMove(t) /\ place[t] = "uncount" /\ place'[t] = next /\ memory' = memory /\ patient' = patient
      /\ mutex' = [mutex EXCEPT ![Bell(t)] = Nobody] /\ waiting' = [waiting EXCEPT ![Bell(t)] = @ - 1]
      /\ position' = position
  BY <1>1 DEF Uncount, Advance, sharedVars, OneMove
<1>3. /\ place[t] \in CountPlaces /\ place[t] \in HoldPlaces /\ place'[t] \notin CountPlaces
      /\ place'[t] \notin HoldPlaces
  BY <1>2 DEF CountPlaces, HoldPlaces
<1>4. WaitingOK'
  <2>1. ASSUME NEW c \in Bells
        PROVE  waiting'[c] = waiting[c] + (IF t \in Counted(c)' THEN 1 ELSE 0) - (IF t \in Counted(c) THEN 1 ELSE 0)
    <3>1. waiting[c] \in Int /\ waiting'[c] = IF c = Bell(t) THEN waiting[c] - 1 ELSE waiting[c]
      BY <1>1, <1>2
    <3>2. t \notin Counted(c)' /\ (t \in Counted(c) <=> Bell(t) = c)
      BY <1>3, MembersAre
    <3>. QED BY <3>1, <3>2
  <2>. QED BY <1>2, <2>1, WaitingStays
<1>5. MutexOK'
  BY <1>2, <1>3, ReleaseMutex
<1>. QED BY <1>2, <1>3, <1>4, <1>5, MoveWakes

LEMMA LoadSizeWakes ==
  ASSUME WakeInv, QueueInv', NEW t \in QueueThreads, NEW from, NEW next, LoadSize(t, from, next),
         \/ from = "predicate" /\ next = "predicateSize" /\ ~closed
         \/ from = "closed" /\ next = "closedSize" /\ t \in Consumers
         \/ from = "locked" /\ next = "lockedSize" /\ t \in Consumers
  PROVE  WakeOK'
<1>1. /\ QueueInv /\ place \in [QueueThreads -> QueuePlaces] /\ seenEnqueue \in [QueueThreads -> Int]
      /\ Load(t, Enqueue) = memory[Enqueue]
  BY WakeParts, WakeTypes, EdgesRead
<1>2. /\ OneMove(t) /\ place[t] = from /\ place'[t] = next /\ memory' = memory /\ patient' = patient
      /\ mutex' = mutex /\ waiting' = waiting /\ position' = position /\ seenEnqueue'[t] = memory[Enqueue]
  BY <1>1 DEF LoadSize, Advance, sharedVars, OneMove
<1>3. /\ place'[t] \in CountPlaces <=> place[t] \in CountPlaces
      /\ place'[t] \in HoldPlaces => place[t] \in HoldPlaces
      /\ t \in Producers => place[t] \in HoldPlaces
  BY <1>2, BellIs DEF CountPlaces, HoldPlaces
<1>4. MutexOK' /\ WaitingOK'
  BY <1>2, <1>3, SameMutex, SameCounts
<1>. QED BY <1>2, <1>3, <1>4, MoveWakes

-----------------------------------------------------------------------------
(* The mutex is given back, by a thread that leaves or that sleeps.          *)
LEMMA UnlockIs ==
  ASSUME QueueInv, NEW t \in QueueThreads, NEW next, Unlock(t, Bell(t), next)
  PROVE  /\ OneMove(t) /\ place'[t] = next /\ memory' = memory /\ waiting' = waiting
         /\ mutex' = [mutex EXCEPT ![Bell(t)] = Nobody]
         /\ t \in patient' <=> t \in patient /\ next \notin {"notify", "idle", "ended"}
         /\ \A u \in QueueThreads \ {t} : position'[u] = position[u]
<1>1. place \in [QueueThreads -> QueuePlaces] /\ seenEnqueue \in [QueueThreads -> Int] /\ position \in [QueueThreads -> Int]
  BY WakeTypes
<1>2. /\ place' = [place EXCEPT ![t] = next]
      /\ position' = IF next \in {"failed", "notify", "idle"} THEN [position EXCEPT ![t] = 0] ELSE position
      /\ seenEnqueue' = [seenEnqueue EXCEPT ![t] = 0]
      /\ patient' = IF next \in {"notify", "idle", "ended"} THEN patient \ {t} ELSE patient
      /\ mutex' = [mutex EXCEPT ![Bell(t)] = Nobody]
      /\ UNCHANGED <<class, team, closed, enqueuedAtClose, closing, pushes, memory, storeBuffer, waiting>>
  BY DEF Unlock, Settle, Advance, sharedVars
<1>3. OneMove(t)
  BY <1>1, <1>2 DEF OneMove
<1>. QED BY <1>1, <1>2, <1>3

LEMMA LeaveWakes ==
  ASSUME WakeInv, QueueInv', NEW t \in QueueThreads, NEW next, Unlock(t, Bell(t), next), closed,
         place[t] \in {"locked", "lockedSize"}, next \in {"idle", "ended"}
  PROVE  WakeOK'
<1>1. /\ OneMove(t) /\ place'[t] = next /\ memory' = memory /\ waiting' = waiting
      /\ mutex' = [mutex EXCEPT ![Bell(t)] = Nobody] /\ \A u \in QueueThreads \ {t} : position'[u] = position[u]
      /\ class' = class
  BY WakeParts, UnlockIs DEF OneMove
<1>2. /\ place[t] \in HoldPlaces /\ place[t] \notin CountPlaces /\ place'[t] \notin HoldPlaces \union CountPlaces \union {"lock"}
  BY <1>1 DEF HoldPlaces, CountPlaces
<1>3. ~Past(t) /\ ~Past(t)'
  BY <1>1, PastIs
<1>4. BoundsOK'
  BY <1>1, <1>3, BoundsStay
<1>5. MutexOK' /\ WaitingOK'
  BY <1>1, <1>2, ReleaseMutex, SameCounts
<1>. QED BY <1>1, <1>2, <1>3, <1>4, <1>5, Steady

(* Who sleeps has seen no more on offer than others will still see to.       *)
LEMMA SleepWakes ==
  ASSUME WakeInv, QueueInv', NEW t \in QueueThreads, Unlock(t, Bell(t), "asleep"), place[t] = "predicateSize",
         IF t \in Producers THEN IsFullApprox(t) ELSE IsEmptyApprox(t)
  PROVE  WakeOK'
<1>1. /\ OneMove(t) /\ place'[t] = "asleep" /\ memory' = memory /\ waiting' = waiting
      /\ mutex' = [mutex EXCEPT ![Bell(t)] = Nobody] /\ (t \in patient' <=> t \in patient)
      /\ \A u \in QueueThreads \ {t} : position'[u] = position[u]
      /\ class' = class
  BY WakeParts, UnlockIs DEF OneMove
<1>2. /\ QueueInv /\ memory[Enqueue] \in Int /\ memory[Dequeue] \in Int /\ Capacity \in Int /\ Capacity >= 2
      /\ seenEnqueue[t] \in Int /\ Load(t, Dequeue) = memory[Dequeue] /\ closed \in BOOLEAN
      /\ \A c \in Bells : Offer(c) \in Int
  BY WakeParts, WakeTypes, EdgesRead
<1>3. ~Past(t) /\ ~Past(t)'
  BY <1>1, PastIs
<1>4. /\ place[t] \in HoldPlaces \intersect CountPlaces /\ place'[t] \in CountPlaces \ HoldPlaces
  BY <1>1 DEF HoldPlaces, CountPlaces
<1>5. \A c \in Bells : Offer(c)' = Offer(c)
  BY <1>1, OffersSame
<1>6. \A c \in Bells : /\ Cardinality(Movers(c)) \in Nat
                       /\ Cardinality(Movers(c))' = Cardinality(Movers(c)) + (IF t \in Movers(c)' THEN 1 ELSE 0)
                                                                            - (IF t \in Movers(c) THEN 1 ELSE 0)
  BY <1>1, MoversMove
<1>7. IsFiniteSet(Movers(Bell(t))') /\ Cardinality(Movers(Bell(t))') \in Nat
  <2>1. Movers(Bell(t))' \subseteq QueueThreads
    BY DEF Movers
  <2>2. IsFiniteSet(Movers(Bell(t))')
    BY <2>1, ThreadsFinite, FS_Subset
  <2>. QED BY <2>2, FS_CardinalityType
<1>8. Offer(Bell(t)) <= Cardinality(Movers(Bell(t))')
  <2>1. CASE t \in Producers
    <3>1. Bell(t) = "notFull" /\ seenEnqueue[t] <= memory[Enqueue]
      BY <2>1, WakeParts DEF Bell, SizesOK
    <3>2. seenEnqueue[t] - memory[Dequeue] >= Capacity
      BY <1>2, <2>1 DEF IsFullApprox, SizeApprox
    <3>3. Offer(Bell(t)) = memory[Dequeue] + Capacity - memory[Enqueue]
      BY <3>1 DEF Offer
    <3>. QED BY <1>2, <1>7, <3>1, <3>2, <3>3
  <2>2. CASE t \notin Producers
    <3>1. t \in Consumers /\ Bell(t) = "notEmpty"
      BY <2>2, BellIs DEF Bell
    <3>2. memory[Enqueue] - seenEnqueue[t] <= Cardinality(Ringers)
      BY <3>1, WakeParts DEF SizesOK
    <3>3. seenEnqueue[t] <= memory[Dequeue]
      BY <1>2, <2>2 DEF IsEmptyApprox, SizeApprox
    <3>4. Ringers \subseteq Movers(Bell(t))'
      <4>1. \A p \in Producers : Past(p) => Past(p)'
        BY <1>1, <1>3, OthersSame, BellIs
      <4>. QED BY <3>1, <4>1, BellIs DEF Ringers, Movers, Bell
    <3>5. Cardinality(Ringers) <= Cardinality(Movers(Bell(t))')
      BY <1>7, <3>4, FS_Subset
    <3>6. Cardinality(Ringers) \in Nat
      BY <1>1, MoversMove, BellIs
    <3>7. Offer(Bell(t)) = memory[Enqueue] - memory[Dequeue]
      BY <3>1 DEF Offer
    <3>. QED BY <1>2, <1>7, <3>2, <3>3, <3>5, <3>6, <3>7
  <2>. QED BY <2>1, <2>2
<1>9. WakersOK'
  <2>1. SUFFICES ASSUME ~closed, NEW c \in Bells, Sleepers(c)' # {} PROVE Offer(c)' <= Cardinality(Movers(c))'
    BY <1>1 DEF WakersOK, OneMove
  <2>2. CASE c = Bell(t)
    BY <1>5, <1>8, <2>2
  <2>3. CASE c # Bell(t)
    <3>1. PICK u \in QueueThreads : place'[u] = "asleep" /\ Bell(u) = c
      <4>1. Sleepers(c)' = {u \in QueueThreads : Bell(u) = c /\ place'[u] = "asleep"}
        BY BellIs DEF Sleepers, Bells
      <4>. QED BY <2>1, <4>1
    <3>2. place[u] = "asleep"
      BY <1>1, <2>3, <3>1 DEF OneMove
    <3>3. Sleepers(c) # {}
      BY <3>1, <3>2, SleepersAre
    <3>4. Offer(c) <= Cardinality(Movers(c))
      BY <2>1, <3>3, WakeParts DEF WakersOK
    <3>5. t \notin Movers(c) /\ t \notin Movers(c)'
      BY <1>3, <2>3, MembersAre
    <3>. QED BY <1>2, <1>5, <1>6, <3>4, <3>5
  <2>. QED BY <2>2, <2>3
<1>10. SizesOK'
  <2>1. t \notin Ringers /\ t \notin Ringers'
    BY <1>3 DEF Ringers
  <2>. QED BY <1>1, <1>2, <2>1, SizesStay
<1>11. BoundsOK'
  BY <1>1, <1>3, BoundsStay
<1>12. MutexOK' /\ WaitingOK'
  BY <1>1, <1>4, ReleaseMutex, SameCounts
<1>13. PatientOK'
  BY <1>1, <1>4, WakeParts, PatientStays DEF PatientOK
<1>14. ToldOK'
  BY <1>1, ToldStays
<1>15. EdgesPlain'
  BY <1>1, WakeParts DEF EdgesPlain
<1>. QED BY <1>9, <1>10, <1>11, <1>12, <1>13, <1>14, <1>15 DEF WakeOK

(* A notification that finds nobody to wake: t has seen to its offer.        *)
LEMMA NobodyToWake ==
  ASSUME WakeInv, QueueInv', NEW t \in QueueThreads, NEW c \in Bells, c # Bell(t), OneMove(t),
         place[t] \in {"notify", "wake"}, place'[t] = "idle", memory' = memory, mutex' = mutex, waiting' = waiting,
         \A u \in QueueThreads \ {t} : position'[u] = position[u],
         Sleepers(c) = {}, \A u \in QueueThreads : Bell(u) = c => place[u] # "predicateSize"
  PROVE  WakeOK'
<1>1. QueueInv /\ memory[Enqueue] \in Int /\ class' = class /\ \A b \in Bells : Offer(b) \in Int /\ Offer(b)' = Offer(b)
  BY WakeParts, WakeTypes, OffersSame DEF OneMove
<1>2. Past(t) /\ ~Past(t)'
  BY <1>1, PastIs
<1>3. ~Looks(t) /\ ~Looks(t)'
  BY <1>2 DEF Looks
<1>4. \A b \in Bells : b = c \/ b = Bell(t)
  BY BellIs DEF Bells
<1>5. WakersOK'
  <2>1. \A b \in Bells : \/ closed
                         \/ Sleepers(b) = {}
                         \/ Offer(b)' + (IF t \in Movers(b) THEN 1 ELSE 0) <= Offer(b) + (IF t \in Movers(b)' THEN 1 ELSE 0)
    <3>1. t \notin Movers(Bell(t))
      BY <1>3, MembersAre, BellIs
    <3>. QED BY <1>1, <1>4, <3>1
  <2>. QED BY <2>1, SleepersStay
<1>6. SizesOK'
  <2>1. CASE t \in Producers
    <3>1. \A u \in Consumers : place[u] # "predicateSize"
      BY <1>4, <2>1, BellIs
    <3>. QED BY <1>1, <3>1, SizesStay
  <2>2. CASE t \notin Producers
    <3>1. t \notin Ringers /\ t \notin Ringers'
      BY <2>2 DEF Ringers
    <3>. QED BY <1>1, <3>1, SizesStay
  <2>. QED BY <2>1, <2>2
<1>7. BoundsOK'
  BY <1>2, BoundsStay
<1>8. /\ place[t] \notin CountPlaces /\ place'[t] \notin HoldPlaces \union CountPlaces \union {"lock"}
  BY DEF HoldPlaces, CountPlaces
<1>9. MutexOK' /\ WaitingOK'
  BY <1>8, SameMutex, SameCounts
<1>10. PatientOK' /\ ToldOK'
  BY <1>8, PatientStays, ToldStays
<1>11. EdgesPlain'
  BY <1>1, WakeParts DEF EdgesPlain
<1>. QED BY <1>5, <1>6, <1>7, <1>9, <1>10, <1>11 DEF WakeOK

LEMMA TestWaitingWakes ==
  ASSUME WakeInv, QueueInv', NEW t \in QueueThreads, NEW c \in Bells, c # Bell(t), TestWaiting(t, c)
  PROVE  WakeOK'
<1>1. QueueInv /\ place[t] = "notify" /\ "notify" \notin HoldPlaces \union CountPlaces
      /\ "wake" \notin HoldPlaces \union CountPlaces
  BY WakeParts DEF TestWaiting, HoldPlaces, CountPlaces
<1>2. CASE waiting[c] = 0 /\ Only(t, "idle")
  <2>1. /\ OneMove(t) /\ place'[t] = "idle" /\ memory' = memory /\ mutex' = mutex /\ waiting' = waiting
        /\ \A u \in QueueThreads \ {t} : position'[u] = position[u]
    BY <1>1, <1>2, OnlyIs
  <2>2. Counted(c) = {}
    <3>1. Cardinality(Counted(c)) = 0
      BY <1>2, WakeParts DEF WaitingOK
    <3>2. IsFiniteSet(Counted(c))
      <4>1. Counted(c) \subseteq QueueThreads
        BY DEF Counted
      <4>. QED BY <4>1, ThreadsFinite, FS_Subset
    <3>. QED BY <3>1, <3>2, FS_EmptySet
  <2>3. Sleepers(c) = {} /\ \A u \in QueueThreads : Bell(u) = c => place[u] # "predicateSize"
    BY <2>2, SleepersAre DEF Counted, CountPlaces
  <2>. QED BY <1>1, <2>1, <2>3, NobodyToWake
<1>3. CASE Only(t, "wake")
  BY <1>1, <1>3, OnlyWakes
<1>. QED BY <1>2, <1>3 DEF TestWaiting

(* The mutex is free: nobody of that bell is between its test and its sleep. *)
LEMMA FreeMutex ==
  ASSUME WakeInv, NEW c \in Bells, mutex[c] = Nobody
  PROVE  \A u \in QueueThreads : Bell(u) = c => place[u] \notin HoldPlaces
  BY WakeParts, QueueConstants DEF MutexOK, QueueThreads

LEMMA NotifyOneWakes ==
  ASSUME WakeInv, QueueInv', NEW t \in QueueThreads, NEW c \in Bells, c # Bell(t), NotifyOne(t, c)
  PROVE  WakeOK'
<1>1. /\ QueueInv /\ place \in [QueueThreads -> QueuePlaces] /\ place[t] = "wake" /\ mutex[c] = Nobody
      /\ UNCHANGED <<sharedVars, memory, storeBuffer, waiting, mutex, position, seenEnqueue, patient>>
  BY WakeParts, WakeTypes DEF NotifyOne
<1>2. /\ class' = class /\ closed' = closed /\ closing' = closing
  BY <1>1 DEF sharedVars
<1>3. \A u \in QueueThreads : Bell(u) = c => place[u] \notin HoldPlaces /\ place[u] # "predicateSize"
  BY <1>1, FreeMutex DEF HoldPlaces
<1>4. CASE Sleepers(c) = {} /\ Advance(t, "idle")
  <2>1. OneMove(t) /\ place'[t] = "idle"
    BY <1>1, <1>2, <1>4 DEF Advance, OneMove
  <2>. QED BY <1>1, <1>3, <1>4, <2>1, NobodyToWake
<1>5. ASSUME NEW s \in Sleepers(c), place' = [place EXCEPT ![t] = "idle", ![s] = "woken"] PROVE WakeOK'
  <2>1. s \in QueueThreads /\ Bell(s) = c /\ place[s] = "asleep" /\ s # t
    BY <1>1, SleepersAre
  <2>2. place'[t] = "idle" /\ place'[s] = "woken" /\ \A u \in QueueThreads \ {t, s} : place'[u] = place[u]
    BY <1>1, <1>5, <2>1
  <2>3. \A u \in QueueThreads \ {t, s} : (Past(u)' <=> Past(u)) /\ (Looks(u)' <=> Looks(u))
    BY <1>1, <1>2, <2>2, PastIs DEF Looks
  <2>4. /\ Past(t) /\ ~Past(t)' /\ ~Looks(t) /\ ~Looks(t)'
        /\ ~Past(s) /\ ~Past(s)' /\ ~Looks(s)
    BY <1>1, <1>2, <2>1, <2>2, PastIs DEF Looks
  <2>5. s \in Producers => s \in patient
    BY <2>1, WakeParts DEF PatientOK, CountPlaces
  <2>6. Looks(s)'
    BY <1>1, <2>2, <2>4, <2>5 DEF Looks
  <2>7. \A b \in Bells : b = c \/ b = Bell(t)
    BY BellIs DEF Bells
  <2>8. \A b \in Bells : Offer(b) \in Int /\ Offer(b)' = Offer(b)
    BY <1>1, WakeTypes, OffersSame
  <2>9. \A b \in Bells : Cardinality(Movers(b)') = Cardinality(Movers(b))
    <3>1. Movers(Bell(t))' = Movers(Bell(t))
      BY <2>1, <2>3, <2>4 DEF Movers, Bell
    <3>2. Cardinality(Movers(c)') = Cardinality(Movers(c))
      <4> DEFINE M == Movers(c) \union {s}
      <4>1. s \notin Movers(c) /\ t \in Movers(c) /\ t \in M /\ t \notin Movers(c)' /\ s \in M
        BY <2>1, <2>4, MembersAre
      <4>2. IsFiniteSet(Movers(c))
        <5>1. Movers(c) \subseteq QueueThreads
          BY DEF Movers
        <5>. QED BY <5>1, ThreadsFinite, FS_Subset
      <4>3. IsFiniteSet(M) /\ Cardinality(M) = Cardinality(Movers(c)) + 1 /\ Cardinality(Movers(c)) \in Nat
        BY <4>1, <4>2, FS_AddElement, FS_CardinalityType
      <4>4. \A u : u # t => (u \in M <=> u \in Movers(c)')
        <5>1. s \in Movers(c)'
          BY <2>1, <2>6, MembersAre
        <5>2. \A u \in QueueThreads \ {t, s} : u \in Movers(c) <=> u \in Movers(c)'
          BY <2>3, MembersAre
        <5>3. Movers(c) \subseteq QueueThreads /\ Movers(c)' \subseteq QueueThreads
          BY DEF Movers
        <5>. QED BY <4>1, <5>1, <5>2, <5>3
      <4>. HIDE DEF M
      <4>5. Cardinality(Movers(c)') = Cardinality(M) + (IF t \in Movers(c)' THEN 1 ELSE 0) - (IF t \in M THEN 1 ELSE 0)
        BY <4>3, <4>4, SetMoves
      <4>. QED BY <4>1, <4>3, <4>5
    <3>. QED BY <2>7, <3>1, <3>2
  <2>10. WakersOK'
    <3>1. SUFFICES ASSUME ~closed, NEW b \in Bells, Sleepers(b)' # {} PROVE Offer(b)' <= Cardinality(Movers(b)')
      BY <1>2 DEF WakersOK
    <3>2. Sleepers(b) # {}
      <4>1. Sleepers(b)' = {u \in QueueThreads : Bell(u) = b /\ place'[u] = "asleep"}
        BY BellIs DEF Sleepers, Bells
      <4>2. \A u \in QueueThreads : place'[u] = "asleep" => place[u] = "asleep"
        BY <2>2
      <4>. QED BY <3>1, <4>1, <4>2, SleepersAre
    <3>3. Offer(b) <= Cardinality(Movers(b))
      BY <3>1, <3>2, WakeParts DEF WakersOK
    <3>. QED BY <2>8, <2>9, <3>3
  <2>11. SizesOK'
    <3>1. SUFFICES ASSUME NEW u \in QueueThreads, place'[u] = "predicateSize"
                   PROVE  /\ seenEnqueue'[u] <= memory'[Enqueue]
                          /\ u \in Consumers => memory'[Enqueue] - seenEnqueue'[u] <= Cardinality(Ringers)'
      BY DEF SizesOK
    <3>2. place[u] = "predicateSize"
      BY <2>2, <3>1
    <3>3. u \in Consumers => Ringers' = Ringers
      <4>1. SUFFICES ASSUME u \in Consumers PROVE Ringers' = Ringers
        OBVIOUS
      <4>2. t \notin Producers
        BY <1>3, <2>7, <3>2, <4>1, BellIs
      <4>. QED BY <2>3, <2>4, <4>2, BellIs DEF Ringers
    <3>. QED BY <1>1, <3>2, <3>3, WakeParts DEF SizesOK
  <2>12. MutexOK'
    <3>1. \A u \in QueueThreads : place'[u] \in HoldPlaces => place[u] = place'[u]
      BY <2>2 DEF HoldPlaces
    <3>. QED BY <1>1, <3>1, WakeParts DEF MutexOK, Bell
  <2>13. WaitingOK'
    <3>1. \A u \in QueueThreads : place'[u] \in CountPlaces <=> place[u] \in CountPlaces
      BY <1>1, <2>1, <2>2 DEF CountPlaces
    <3>2. \A b \in Bells : Counted(b)' = Counted(b)
      BY <3>1 DEF Counted, Bell
    <3>. QED BY <1>1, <3>2, WakeParts DEF WaitingOK
  <2>14. PatientOK'
    <3>1. ASSUME NEW p \in Producers, place'[p] \in HoldPlaces \union CountPlaces \union {"lock"} PROVE p \in patient'
      <4>1. CASE p = s
        BY <1>1, <2>5, <3>1, <4>1
      <4>2. CASE p # s
        <5>1. p # t
          BY <2>2, <3>1 DEF HoldPlaces, CountPlaces
        <5>2. p \in QueueThreads
          BY BellIs
        <5>3. place'[p] = place[p]
          BY <2>2, <4>2, <5>1, <5>2
        <5>. QED BY <1>1, <3>1, <5>3, WakeParts DEF PatientOK
      <4>. QED BY <4>1, <4>2
    <3>. QED BY <3>1 DEF PatientOK
  <2>15. ToldOK'
    <3>1. \A u \in QueueThreads : place'[u] \in {"predicateSize", "asleep"} => place'[u] = place[u]
      BY <2>2
    <3>2. ToldOK
      BY WakeParts
    <3>3. ASSUME closed, NEW u \in QueueThreads, place'[u] \in {"predicateSize", "asleep"}
          PROVE  closing # <<>> /\ (u \in Consumers => closing = <<"notEmpty", "notFull">>)
      BY <3>1, <3>2, <3>3 DEF ToldOK
    <3>. QED BY <1>2, <3>2, <3>3 DEF ToldOK
  <2>16. BoundsOK'
    <3>1. BoundsOK
      BY WakeParts
    <3>2. ASSUME class[1] # "SPSC", NEW u \in QueueThreads, Past(u)', place'[u] \in CellPlaces
          PROVE  position'[u] < memory'[Edge(u)]
      <4>1. u # t /\ u # s
        BY <2>4, <3>2
      <4>2. Past(u) /\ place[u] \in CellPlaces
        BY <2>2, <2>3, <3>2, <4>1
      <4>3. position[u] < memory[Edge(u)]
        BY <3>1, <3>2, <4>2 DEF BoundsOK
      <4>. QED BY <1>1, <4>3
    <3>3. class'[1] # "SPSC" => \A u \in QueueThreads : Past(u)' /\ place'[u] \in CellPlaces => position'[u] < memory'[Edge(u)]
      BY <1>2, <3>2
    <3>4. class'[1] # "SPSC" => \A q \in Int : /\ memory'[Sequence(q)] = q + 1 => q < memory'[Enqueue]
                                               /\ memory'[Sequence(q)] = q => q < memory'[Dequeue] + Capacity
      BY <1>1, <1>2, <3>1 DEF BoundsOK
    <3>5. memory'[Dequeue] <= memory'[Enqueue] /\ memory'[Enqueue] <= memory'[Dequeue] + Capacity
      BY <1>1, <3>1 DEF BoundsOK
    <3>. QED BY <3>3, <3>4, <3>5 DEF BoundsOK, Edge
  <2>17. EdgesPlain'
    BY <1>2, WakeParts DEF EdgesPlain
  <2>. QED BY <2>10, <2>11, <2>12, <2>13, <2>14, <2>15, <2>16, <2>17 DEF WakeOK
<1>. QED BY <1>4, <1>5 DEF NotifyOne

(* Where no thread has moved.                                                *)
LEMMA NobodyMoves ==
  ASSUME place' = place, class' = class, patient' = patient
  PROVE  /\ \A t \in QueueThreads : Past(t)' <=> Past(t)
         /\ \A c \in Bells : Movers(c)' = Movers(c) /\ Counted(c)' = Counted(c) /\ Sleepers(c)' = Sleepers(c)
         /\ Ringers' = Ringers
<1>1. \A t \in QueueThreads : (Past(t)' <=> Past(t)) /\ (Looks(t)' <=> Looks(t))
  BY PastIs DEF Looks
<1>. QED BY <1>1, BellIs DEF Movers, Counted, Sleepers, Ringers, Bell

LEMMA CloseWakes ==
  ASSUME WakeInv, Close
  PROVE  WakeOK'
<1>1. /\ place' = place /\ class' = class /\ patient' = patient /\ memory' = memory /\ closed' = TRUE
      /\ closing' = <<"notEmpty", "notFull">> /\ seenEnqueue' = seenEnqueue /\ waiting' = waiting /\ mutex' = mutex
      /\ position' = position
  BY DEF Close
<1>2. /\ \A t \in QueueThreads : Past(t)' <=> Past(t)
      /\ \A c \in Bells : Movers(c)' = Movers(c) /\ Counted(c)' = Counted(c) /\ Sleepers(c)' = Sleepers(c)
      /\ Ringers' = Ringers
  BY <1>1, NobodyMoves
<1>3. WakersOK' /\ MutexOK' /\ PatientOK' /\ EdgesPlain'
  BY <1>1, WakeParts DEF WakersOK, MutexOK, PatientOK, EdgesPlain, Bell
<1>4. SizesOK'
  BY <1>1, <1>2, WakeParts DEF SizesOK
<1>5. WaitingOK'
  BY <1>1, <1>2, WakeParts DEF WaitingOK
<1>6. ToldOK'
  BY <1>1 DEF ToldOK
<1>7. BoundsOK'
  <2>1. BoundsOK
    BY WakeParts
  <2>2. class'[1] # "SPSC" => \A u \in QueueThreads : Past(u)' /\ place'[u] \in CellPlaces => position'[u] < memory'[Edge(u)]
    BY <1>1, <1>2, <2>1 DEF BoundsOK
  <2>. QED BY <1>1, <2>1, <2>2 DEF BoundsOK, Edge
<1>. QED BY <1>3, <1>4, <1>5, <1>6, <1>7 DEF WakeOK

LEMMA NotifyAllWakes ==
  ASSUME WakeInv, NotifyAll
  PROVE  WakeOK'
<1>1. PICK h : h = Head(closing)
  OBVIOUS
<1>2. /\ closing # <<>> /\ mutex[h] = Nobody /\ closing' = Tail(closing)
      /\ place' = [t \in QueueThreads |-> IF t \in Sleepers(h) THEN "woken" ELSE place[t]]
      /\ class' = class /\ patient' = patient /\ memory' = memory /\ closed' = closed
      /\ seenEnqueue' = seenEnqueue /\ waiting' = waiting /\ mutex' = mutex /\ position' = position
  BY <1>1 DEF NotifyAll
<1>3. ToldOK /\ closed
  BY <1>2, WakeParts, WakeTypes DEF ToldOK
<1>4. h \in Bells /\ \/ closing = <<"notFull">> /\ h = "notFull" /\ closing' = <<>>
                     \/ closing = <<"notEmpty", "notFull">> /\ h = "notEmpty" /\ closing' = <<"notFull">>
  <2>1. CASE closing = <<"notFull">>
    <3>1. Head(closing) = "notFull" /\ Tail(closing) = <<>>
      BY <2>1
    <3>. QED BY <1>1, <1>2, <2>1, <3>1 DEF Bells
  <2>2. CASE closing = <<"notEmpty", "notFull">>
    <3>1. Head(closing) = "notEmpty"
      BY <2>2
    <3>2. Tail(closing) = <<"notFull">>
      BY <2>2
    <3>. QED BY <1>1, <1>2, <2>2, <3>1, <3>2 DEF Bells
  <2>. QED BY <1>2, <1>3, <2>1, <2>2 DEF ToldOK
<1>5. /\ QueueInv /\ \A u \in QueueThreads : Bell(u) = h => place[u] \notin HoldPlaces
      /\ place \in [QueueThreads -> QueuePlaces]
  BY <1>2, <1>4, FreeMutex, WakeParts, WakeTypes
<1>6. \A u \in QueueThreads : /\ Bell(u) = h /\ place[u] = "asleep" => place'[u] = "woken"
                              /\ ~(Bell(u) = h /\ place[u] = "asleep") => place'[u] = place[u]
  BY <1>2, <1>4, SleepersAre
<1>7. \A u \in QueueThreads : Past(u)' <=> Past(u)
  BY <1>2, <1>6, PastIs
<1>8. WakersOK'
  BY <1>2, <1>3 DEF WakersOK
<1>9. SizesOK'
  <2>1. Ringers' = Ringers
    BY <1>7, BellIs DEF Ringers
  <2>2. \A u \in QueueThreads : place'[u] = "predicateSize" => place[u] = "predicateSize"
    BY <1>6
  <2>. QED BY <1>2, <2>1, <2>2, WakeParts DEF SizesOK
<1>10. MutexOK'
  <2>1. \A u \in QueueThreads : place'[u] \in HoldPlaces => place[u] \in HoldPlaces
    BY <1>6 DEF HoldPlaces
  <2>. QED BY <1>2, <2>1, WakeParts DEF MutexOK, Bell
<1>11. \A u \in QueueThreads : place'[u] \in CountPlaces <=> place[u] \in CountPlaces
  BY <1>6 DEF CountPlaces
<1>12. WaitingOK'
  <2>1. \A b \in Bells : Counted(b)' = Counted(b)
    BY <1>11 DEF Counted, Bell
  <2>. QED BY <1>2, <2>1, WakeParts DEF WaitingOK
<1>13. PatientOK'
  <2>1. \A p \in Producers : place'[p] \in HoldPlaces \union CountPlaces \union {"lock"} =>
                               place[p] \in HoldPlaces \union CountPlaces \union {"lock"}
    BY <1>6, BellIs DEF CountPlaces
  <2>. QED BY <1>2, <2>1, WakeParts DEF PatientOK
<1>14. ToldOK'
  <2>1. \A u \in QueueThreads : place'[u] \in {"predicateSize", "asleep"} =>
          place[u] \in {"predicateSize", "asleep"} /\ Bell(u) # h
    BY <1>5, <1>6 DEF HoldPlaces
  <2>2. ASSUME NEW u \in QueueThreads, place'[u] \in {"predicateSize", "asleep"}
        PROVE  closing' # <<>> /\ (u \in Consumers => closing' = <<"notEmpty", "notFull">>)
    <3>1. closing # <<>> /\ (u \in Consumers => closing = <<"notEmpty", "notFull">>) /\ Bell(u) # h
      BY <1>3, <2>1, <2>2 DEF ToldOK
    <3>2. u \notin Consumers
      BY <1>4, <3>1, BellIs
    <3>3. Bell(u) = "notFull"
      BY <3>2, BellIs
    <3>. QED BY <1>4, <3>1, <3>2, <3>3
  <2>3. closing' \in {<<>>, <<"notFull">>, <<"notEmpty", "notFull">>}
    BY <1>4
  <2>. QED BY <1>2, <1>3, <2>2, <2>3 DEF ToldOK
<1>15. BoundsOK'
  <2>1. BoundsOK
    BY WakeParts
  <2>2. \A u \in QueueThreads : place'[u] \in CellPlaces => place[u] \in CellPlaces
    BY <1>6 DEF CellPlaces
  <2>3. class'[1] # "SPSC" => \A u \in QueueThreads : Past(u)' /\ place'[u] \in CellPlaces => position'[u] < memory'[Edge(u)]
    BY <1>2, <1>7, <2>1, <2>2 DEF BoundsOK
  <2>. QED BY <1>2, <2>1, <2>3 DEF BoundsOK, Edge
<1>16. EdgesPlain'
  BY <1>2, WakeParts DEF EdgesPlain
<1>. QED BY <1>8, <1>9, <1>10, <1>12, <1>13, <1>14, <1>15, <1>16 DEF WakeOK

-----------------------------------------------------------------------------
(* A position moves on.                                                      *)
LEMMA PositionMoves ==
  ASSUME WakeInv, QueueInv', NEW t \in QueueThreads, OneMove(t), mutex' = mutex, waiting' = waiting,
         memory' = [memory EXCEPT ![Edge(t)] = @ + 1], position[t] = memory[Edge(t)],
         place[t] \in {"claim", "raise"}, place'[t] \in {"construct", "take", "publish", "notify"}, Past(t)',
         class[1] # "SPSC" => /\ memory[Sequence(position[t])] = Expected(t, position[t])
                              /\ position'[t] = position[t],
         \A u \in QueueThreads \ {t} : position'[u] = position[u]
  PROVE  WakeOK'
<1>1. /\ QueueInv /\ memory \in [Locations -> Int] /\ class' = class /\ memory[Enqueue] \in Int /\ memory[Dequeue] \in Int
      /\ Capacity \in Int /\ Capacity >= 2 /\ position \in [QueueThreads -> Int] /\ BoundsOK
      /\ Enqueue \in Locations /\ Dequeue \in Locations /\ Enqueue # Dequeue
  BY WakeParts, WakeTypes, LocationsApart DEF OneMove
<1>2. ~Past(t) /\ ~Looks(t)'
  BY <1>1, PastIs DEF Looks
<1>3. /\ t \in Producers => memory'[Enqueue] = memory[Enqueue] + 1 /\ memory'[Dequeue] = memory[Dequeue]
      /\ t \notin Producers => memory'[Enqueue] = memory[Enqueue] /\ memory'[Dequeue] = memory[Dequeue] + 1
  BY <1>1 DEF Edge
<1>4. WakersOK'
  <2>1. ASSUME NEW c \in Bells
        PROVE  Offer(c)' + (IF t \in Movers(c) THEN 1 ELSE 0) <= Offer(c) + (IF t \in Movers(c)' THEN 1 ELSE 0)
    <3>1. CASE c = Bell(t)
      <4>1. Offer(c)' = Offer(c) - 1 /\ Offer(c) \in Int
        BY <1>1, <1>3, <3>1 DEF Offer, Bell
      <4>. QED BY <4>1
    <3>2. CASE c # Bell(t)
      <4>1. Offer(c)' = Offer(c) + 1 /\ Offer(c) \in Int
        BY <1>1, <1>3, <3>2 DEF Offer, Bell, Bells
      <4>2. t \notin Movers(c) /\ t \in Movers(c)'
        BY <1>2, <3>2, MembersAre
      <4>. QED BY <4>1, <4>2
    <3>. QED BY <3>1, <3>2
  <2>. QED BY <2>1, SleepersStay
<1>5. SizesOK'
  <2>1. t \in Ringers' <=> t \in Producers
    BY DEF Ringers
  <2>2. t \notin Ringers
    BY <1>2 DEF Ringers
  <2>3. memory[Enqueue] <= memory'[Enqueue]
    BY <1>1, <1>3
  <2>4. memory'[Enqueue] + (IF t \in Ringers THEN 1 ELSE 0) <= memory[Enqueue] + (IF t \in Ringers' THEN 1 ELSE 0)
    BY <1>1, <1>3, <2>1, <2>2
  <2>. QED BY <2>3, <2>4, SizesStay
<1>6. place[t] \notin CountPlaces /\ place'[t] \notin HoldPlaces \union CountPlaces \union {"lock"}
  BY DEF HoldPlaces, CountPlaces
<1>7. MutexOK' /\ WaitingOK' /\ PatientOK' /\ ToldOK'
  BY <1>6, SameMutex, SameCounts, PatientStays, ToldStays
<1>8. EdgesPlain'
  BY <1>1, WakeParts DEF EdgesPlain
<1>9. BoundsOK'
  <2>1. CASE class[1] = "SPSC"
    <3>1. FrontsOK(QueueView')
      BY DEF QueueInv, CellsOK
    <3>2. memory'[Dequeue] <= memory'[Enqueue] /\ memory'[Enqueue] <= memory'[Dequeue] + Capacity
      BY <1>1, <2>1, <3>1, ViewIs DEF FrontsOK
    <3>. QED BY <1>1, <2>1, <3>2 DEF BoundsOK
  <2>2. CASE class[1] # "SPSC"
    <3>1. position[t] \in Int /\ \A q \in Int : memory'[Sequence(q)] = memory[Sequence(q)]
      BY <1>1, LocationsApart DEF Edge
    <3>2. IF t \in Producers THEN position[t] < memory[Dequeue] + Capacity ELSE position[t] < memory[Enqueue]
      BY <1>1, <2>2, <3>1 DEF BoundsOK, Expected
    <3>3. memory'[Dequeue] <= memory'[Enqueue] /\ memory'[Enqueue] <= memory'[Dequeue] + Capacity
      <4>1. memory[Dequeue] <= memory[Enqueue] /\ memory[Enqueue] <= memory[Dequeue] + Capacity
        BY <1>1 DEF BoundsOK
      <4>2. position[t] = IF t \in Producers THEN memory[Enqueue] ELSE memory[Dequeue]
        BY DEF Edge
      <4>. QED BY <1>1, <1>3, <3>2, <4>1, <4>2
    <3>4. memory[Enqueue] <= memory'[Enqueue] /\ memory[Dequeue] <= memory'[Dequeue]
          /\ memory'[Enqueue] \in Int /\ memory'[Dequeue] \in Int
      BY <1>1, <1>3
    <3>5. ASSUME NEW q \in Int
          PROVE  /\ memory'[Sequence(q)] = q + 1 => q < memory'[Enqueue]
                 /\ memory'[Sequence(q)] = q => q < memory'[Dequeue] + Capacity
      <4>1. /\ memory[Sequence(q)] = q + 1 => q < memory[Enqueue]
            /\ memory[Sequence(q)] = q => q < memory[Dequeue] + Capacity
        BY <1>1, <2>2 DEF BoundsOK
      <4>. QED BY <1>1, <3>1, <3>4, <4>1
    <3>6. ASSUME NEW u \in QueueThreads, Past(u)', place'[u] \in CellPlaces PROVE position'[u] < memory'[Edge(u)]
      <4>1. CASE u = t
        <5>1. memory'[Edge(t)] = memory[Edge(t)] + 1
          BY <1>1 DEF Edge
        <5>. QED BY <2>2, <3>1, <4>1, <5>1
      <4>2. CASE u # t
        <5>1. Past(u) /\ place[u] \in CellPlaces /\ position'[u] = position[u] /\ position[u] \in Int
          BY <1>1, <3>6, <4>2, OthersSame DEF OneMove
        <5>2. position[u] < memory[Edge(u)]
          BY <1>1, <2>2, <5>1 DEF BoundsOK
        <5>. QED BY <1>1, <3>4, <5>1, <5>2 DEF Edge
      <4>. QED BY <4>1, <4>2
    <3>. QED BY <1>1, <3>3, <3>5, <3>6 DEF BoundsOK, Edge
  <2>. QED BY <2>1, <2>2
<1>. QED BY <1>4, <1>5, <1>7, <1>8, <1>9 DEF WakeOK

LEMMA ClaimWakes ==
  ASSUME WakeInv, QueueInv', NEW t \in QueueThreads, ~Alone(QueueView, t), NEW next, NEW onFailure,
         Claim(t, Edge(t), next, onFailure), next = IF t \in Producers THEN "construct" ELSE "take",
         onFailure \in {"again", "slot"}
  PROVE  WakeOK'
<1>1. QueueInv /\ place \in [QueueThreads -> QueuePlaces] /\ position \in [QueueThreads -> Int]
  BY WakeParts, WakeTypes
<1>2. place[t] = "claim" /\ UNCHANGED <<sharedVars, storeBuffer, waiting, mutex, seenEnqueue, patient>>
  BY DEF Claim
<1>3. CASE memory[Edge(t)] = position[t]
  <2>1. memory' = [memory EXCEPT ![Edge(t)] = @ + 1] /\ place' = [place EXCEPT ![t] = next] /\ position' = position
    BY <1>3 DEF Claim, Advance
  <2>2. OneMove(t) /\ place'[t] = next
    BY <1>1, <1>2, <2>1 DEF OneMove, sharedVars
  <2>3. class[1] # "SPSC" /\ class' = class
    BY <1>2, ViewIs DEF Alone, sharedVars
  <2>4. Past(t)'
    BY <2>2, <2>3, PastIs
  <2>5. memory[Sequence(position[t])] = Expected(t, position[t])
    BY <1>1, <1>2, <1>3, ViewIs DEF QueueInv, CellsOK, ClaimsOK
  <2>. QED BY <1>2, <1>3, <2>1, <2>2, <2>3, <2>4, <2>5, PositionMoves
<1>4. CASE memory[Edge(t)] # position[t]
  <2>1. memory' = memory /\ place' = [place EXCEPT ![t] = onFailure] /\ position' = [position EXCEPT ![t] = memory[Edge(t)]]
    BY <1>4 DEF Claim, Advance
  <2>2. OneMove(t) /\ place'[t] = onFailure /\ \A u \in QueueThreads \ {t} : position'[u] = position[u]
    BY <1>1, <1>2, <2>1 DEF OneMove, sharedVars
  <2>3. place[t] \notin HoldPlaces \union CountPlaces /\ place'[t] \notin HoldPlaces \union CountPlaces \union {"lock"}
    BY <1>2, <2>2 DEF HoldPlaces, CountPlaces
  <2>4. MutexOK' /\ WaitingOK'
    BY <1>2, <2>2, <2>3, SameMutex, SameCounts
  <2>. QED BY <1>2, <2>1, <2>2, <2>3, <2>4, MoveWakes
<1>. QED BY <1>3, <1>4

(* The stores.                                                               *)
LEMMA WriteIs ==
  ASSUME QueueInv, NEW t \in QueueThreads, NEW from, NEW l, NEW v, NEW next, Write(t, from, l, v, next)
  PROVE  /\ OneMove(t) /\ place[t] = from /\ place'[t] = next /\ mutex' = mutex /\ waiting' = waiting
         /\ t \in patient' <=> t \in patient /\ next \notin {"notify", "idle", "ended"}
         /\ \A u \in QueueThreads \ {t} : position'[u] = position[u]
         /\ next \notin {"failed", "notify", "idle"} => position' = position
         /\ class[2] = "plain" => memory' = [memory EXCEPT ![l] = v]
         /\ class[2] # "plain" => memory' = memory
<1>1. place \in [QueueThreads -> QueuePlaces] /\ seenEnqueue \in [QueueThreads -> Int] /\ position \in [QueueThreads -> Int]
  BY WakeTypes
<1>2. /\ place[t] = from /\ Store(t, l, v) /\ place' = [place EXCEPT ![t] = next]
      /\ position' = IF next \in {"failed", "notify", "idle"} THEN [position EXCEPT ![t] = 0] ELSE position
      /\ seenEnqueue' = [seenEnqueue EXCEPT ![t] = 0]
      /\ patient' = IF next \in {"notify", "idle", "ended"} THEN patient \ {t} ELSE patient
      /\ UNCHANGED <<class, team, closed, enqueuedAtClose, closing, pushes, waiting, mutex>>
  BY DEF Write, Settle, Advance, sharedVars
<1>3. OneMove(t)
  BY <1>1, <1>2 DEF OneMove
<1>4. class[2] \in {"plain", "buffered"}
  BY DEF QueueInv, QueueTypeOK, RestOK
<1>5. /\ class[2] = "plain" => memory' = [memory EXCEPT ![l] = v]
      /\ class[2] # "plain" => memory' = memory
  BY <1>2, <1>4 DEF Store
<1>. QED BY <1>1, <1>2, <1>3, <1>5

LEMMA ItemWakes ==
  ASSUME WakeInv, QueueInv', NEW t \in QueueThreads, NEW from, NEW v, NEW next, Write(t, from, Data(position[t]), v, next),
         from = IF t \in Producers THEN "construct" ELSE "take",
         next = IF (IF t \in Producers THEN Alone(QueueView, t) ELSE class[1] = "SPSC") THEN "raise" ELSE "publish"
  PROVE  WakeOK'
<1>1. QueueInv /\ memory \in [Locations -> Int] /\ position[t] \in Int
  BY WakeParts, WakeTypes
<1>2. /\ OneMove(t) /\ place[t] = from /\ place'[t] = next /\ mutex' = mutex /\ waiting' = waiting
      /\ t \in patient' <=> t \in patient
      /\ position' = position /\ class' = class
      /\ class[2] = "plain" => memory' = [memory EXCEPT ![Data(position[t])] = v]
      /\ class[2] # "plain" => memory' = memory
  BY <1>1, WriteIs DEF OneMove
<1>3. /\ memory'[Enqueue] = memory[Enqueue] /\ memory'[Dequeue] = memory[Dequeue]
      /\ \A q \in Int : memory'[Sequence(q)] = memory[Sequence(q)]
  BY <1>1, <1>2, LocationsApart
<1>4. Past(t)' <=> Past(t)
  BY <1>2, PastIs
<1>5. Looks(t)' <=> Looks(t)
  BY <1>2, <1>4 DEF Looks
<1>6. BoundsOK'
  BY <1>2, <1>3, <1>4, BoundsStay DEF CellPlaces
<1>7. /\ place[t] \notin CountPlaces /\ place'[t] \notin HoldPlaces \union CountPlaces \union {"lock"}
      /\ place'[t] \notin {"asleep", "predicateSize"}
  BY <1>2 DEF HoldPlaces, CountPlaces
<1>8. MutexOK' /\ WaitingOK'
  BY <1>2, <1>7, SameMutex, SameCounts
<1>. QED BY <1>2, <1>3, <1>4, <1>5, <1>6, <1>7, <1>8, Steady

(* What a side publishes of a position it has passed bounds the other side.  *)
LEMMA PublishedBounds ==
  ASSUME QueueInv, BoundsOK, class[1] # "SPSC", NEW t \in QueueThreads, NEW k \in Int, k < memory[Edge(t)],
         memory' = [memory EXCEPT ![Sequence(k)] = Following(t, k)]
  PROVE  /\ memory'[Enqueue] = memory[Enqueue] /\ memory'[Dequeue] = memory[Dequeue]
         /\ \A q \in Int : /\ memory'[Sequence(q)] = q + 1 => q < memory'[Enqueue]
                           /\ memory'[Sequence(q)] = q => q < memory'[Dequeue] + Capacity
<1>1. /\ memory \in [Locations -> Int] /\ memory[Enqueue] \in Int /\ memory[Dequeue] \in Int
      /\ Capacity \in Int /\ Capacity >= 2
  BY WakeTypes
<1>2. memory'[Enqueue] = memory[Enqueue] /\ memory'[Dequeue] = memory[Dequeue]
  BY <1>1, LocationsApart
<1>3. ASSUME NEW q \in Int
      PROVE  /\ memory'[Sequence(q)] = q + 1 => q < memory[Enqueue]
             /\ memory'[Sequence(q)] = q => q < memory[Dequeue] + Capacity
  <2>1. CASE Sequence(q) = Sequence(k)
    <3>1. memory'[Sequence(q)] = Following(t, k)
      BY <1>1, <2>1, LocationsApart
    <3>2. q % Capacity = k % Capacity
      BY <2>1, LocationsApart
    <3>3. (q <= k => q = k \/ q + Capacity <= k) /\ (k <= q => k = q \/ k + Capacity <= q)
      BY <3>2, SameCell
    <3>4. CASE t \in Producers
      BY <1>1, <3>1, <3>3, <3>4 DEF Following, Edge
    <3>5. CASE t \notin Producers
      BY <1>1, <3>1, <3>3, <3>5 DEF Following, Edge
    <3>. QED BY <3>4, <3>5
  <2>2. CASE Sequence(q) # Sequence(k)
    <3>1. memory'[Sequence(q)] = memory[Sequence(q)]
      BY <1>1, <2>2, LocationsApart
    <3>. QED BY <3>1 DEF BoundsOK
  <2>. QED BY <2>1, <2>2
<1>. QED BY <1>2, <1>3

LEMMA PublishWakes ==
  ASSUME WakeInv, QueueInv', NEW t \in QueueThreads, class[1] # "SPSC",
         Write(t, "publish", Sequence(position[t]), Following(t, position[t]), "notify")
  PROVE  WakeOK'
<1>1. QueueInv /\ memory \in [Locations -> Int] /\ position[t] \in Int /\ BoundsOK
  BY WakeParts, WakeTypes
<1>2. /\ OneMove(t) /\ place[t] = "publish" /\ place'[t] = "notify" /\ mutex' = mutex /\ waiting' = waiting
      /\ \A u \in QueueThreads \ {t} : position'[u] = position[u]
      /\ class' = class
      /\ class[2] = "plain" => memory' = [memory EXCEPT ![Sequence(position[t])] = Following(t, position[t])]
      /\ class[2] # "plain" => memory' = memory
  BY <1>1, WriteIs DEF OneMove
<1>3. Past(t)' /\ Past(t)
  BY <1>2, PastIs
<1>4. position[t] < memory[Edge(t)]
  BY <1>1, <1>2, <1>3 DEF BoundsOK, CellPlaces
<1>5. /\ memory'[Enqueue] = memory[Enqueue] /\ memory'[Dequeue] = memory[Dequeue]
      /\ \A q \in Int : /\ memory'[Sequence(q)] = q + 1 => q < memory'[Enqueue]
                        /\ memory'[Sequence(q)] = q => q < memory'[Dequeue] + Capacity
  <2>1. CASE class[2] = "plain"
    BY <1>1, <1>2, <1>4, <2>1, PublishedBounds
  <2>2. CASE class[2] # "plain"
    BY <1>1, <1>2, <2>2 DEF BoundsOK
  <2>. QED BY <2>1, <2>2
<1>6. BoundsOK'
  <2>1. memory'[Dequeue] <= memory'[Enqueue] /\ memory'[Enqueue] <= memory'[Dequeue] + Capacity
    BY <1>1, <1>5 DEF BoundsOK
  <2>2. ASSUME NEW u \in QueueThreads, Past(u)', place'[u] \in CellPlaces PROVE position'[u] < memory'[Edge(u)]
    <3>1. u # t
      BY <1>2, <2>2 DEF CellPlaces
    <3>2. Past(u) /\ place[u] \in CellPlaces /\ position'[u] = position[u]
      BY <1>2, <2>2, <3>1, OthersSame DEF OneMove
    <3>3. position[u] < memory[Edge(u)]
      BY <1>1, <3>2 DEF BoundsOK
    <3>. QED BY <1>5, <3>2, <3>3 DEF Edge
  <2>. QED BY <1>2, <1>5, <2>1, <2>2 DEF BoundsOK, Edge
<1>7. /\ place[t] \notin CountPlaces /\ place'[t] \notin HoldPlaces \union CountPlaces \union {"lock"}
  BY <1>2 DEF HoldPlaces, CountPlaces
<1>8. MutexOK' /\ WaitingOK'
  BY <1>2, <1>7, SameMutex, SameCounts
<1>9. ~Looks(t)
  BY <1>3 DEF Looks
<1>. QED BY <1>2, <1>3, <1>5, <1>6, <1>7, <1>8, <1>9, Steady

LEMMA RaiseWakes ==
  ASSUME WakeInv, QueueInv', NEW t \in QueueThreads, Alone(QueueView, t), NEW next,
         Write(t, "raise", Edge(t), position[t] + 1, next),
         next = IF class[1] = "SPSC" THEN "notify" ELSE IF t \in Producers THEN "publish" ELSE "take"
  PROVE  WakeOK'
<1>1. QueueInv /\ memory \in [Locations -> Int] /\ position[t] \in Int /\ CellsOK(QueueView) /\ Edge(t) \in Locations
  BY WakeParts, WakeTypes, LocationsApart DEF Edge
<1>2. /\ OneMove(t) /\ place[t] = "raise" /\ place'[t] = next /\ mutex' = mutex /\ waiting' = waiting
      /\ \A u \in QueueThreads \ {t} : position'[u] = position[u]
      /\ class' = class /\ (next # "notify" => position' = position)
      /\ class[2] = "plain" => memory' = [memory EXCEPT ![Edge(t)] = position[t] + 1]
  BY <1>1, WriteIs DEF OneMove
<1>3. class[2] = "plain"
  BY WakeParts, ViewIs DEF EdgesPlain, Alone
<1>4. Past(t)'
  BY <1>2, PastIs
<1>5. position[t] = memory[Edge(t)]
  <2>1. Choosing(QueueView, t)
    BY <1>2, ViewIs DEF Choosing
  <2>2. position[t] = Seen(QueueView, t, Edge(t))
    BY <1>1, <2>1, ViewIs DEF CellsOK, FrontsOK
  <2>3. Seen(QueueView, t, Edge(t)) = memory[Edge(t)]
    BY WakeParts, EdgesRead, LoadIs DEF Edge
  <2>. QED BY <2>2, <2>3
<1>6. memory' = [memory EXCEPT ![Edge(t)] = @ + 1]
  BY <1>2, <1>3, <1>5
<1>7. class[1] # "SPSC" => memory[Sequence(position[t])] = Expected(t, position[t])
  <2>1. OwnsNow(QueueView, t, position[t])
    BY <1>2, ViewIs DEF OwnsNow, CellPlaces
  <2>2. Avail(QueueView, t, position[t])
    BY <1>1, <2>1 DEF CellsOK, OwnedOnce, Owns
  <2>. QED BY <2>2, ViewIs DEF Avail
<1>. QED BY <1>2, <1>4, <1>5, <1>6, <1>7, PositionMoves

(* A store leaves its buffer.                                                *)
LEMMA FlushWakes ==
  ASSUME WakeInv, NEW t \in QueueThreads, Flush(t)
  PROVE  WakeOK'
<1>1. QueueInv /\ CellsOK(QueueView) /\ ViewTypes(QueueView) /\ BoundsOK /\ memory \in [Locations -> Int]
  BY WakeParts, WakeTypes DEF CellsOK
<1>2. /\ storeBuffer[t] # <<>>
      /\ memory' = [memory EXCEPT ![Head(storeBuffer[t])[1]] = Head(storeBuffer[t])[2]]
      /\ place' = place /\ class' = class /\ patient' = patient /\ closed' = closed /\ closing' = closing
      /\ seenEnqueue' = seenEnqueue /\ waiting' = waiting /\ mutex' = mutex /\ position' = position
  BY DEF Flush, sharedVars
<1>3. class[1] = "MPMC"
  BY <1>1, <1>2, WakeParts DEF EdgesPlain, QueueInv, QueueTypeOK
<1>4. ~Alone(QueueView, t)
  BY <1>3, ViewIs DEF Alone
<1>5. storeBuffer[t] \in Seq(Locations \X Int)
  BY <1>1, ViewIs DEF ViewTypes
<1>6. 1 \in DOMAIN storeBuffer[t] /\ Head(storeBuffer[t]) = storeBuffer[t][1]
  BY <1>2, <1>5
<1>7. PICK k \in Int : storeBuffer[t][1] = Hand(QueueView, t, k) \/ storeBuffer[t][1] = DataStore(t, k)
  <2>1. BuffersOK(QueueView)
    BY <1>1 DEF CellsOK
  <2>. QED BY <1>4, <1>6, <2>1, ViewIs DEF BuffersOK
<1>8. /\ memory'[Enqueue] = memory[Enqueue] /\ memory'[Dequeue] = memory[Dequeue]
      /\ \A q \in Int : /\ memory'[Sequence(q)] = q + 1 => q < memory'[Enqueue]
                        /\ memory'[Sequence(q)] = q => q < memory'[Dequeue] + Capacity
  <2>1. CASE storeBuffer[t][1] = Hand(QueueView, t, k)
    <3>1. Hand(QueueView, t, k) = <<Sequence(k), Following(t, k)>>
      BY <1>3, ViewIs DEF Hand
    <3>2. memory' = [memory EXCEPT ![Sequence(k)] = Following(t, k)]
      <4>1. Head(storeBuffer[t])[1] = Sequence(k) /\ Head(storeBuffer[t])[2] = Following(t, k)
        <5>1. Head(storeBuffer[t]) = <<Sequence(k), Following(t, k)>>
          BY <1>6, <2>1, <3>1
        <5>. QED BY <5>1
      <4>. QED BY <1>2, <4>1
    <3>3. Owns(QueueView, t, k)
      BY <1>6, <2>1, ViewIs DEF Owns, OwnsStill
    <3>4. k < memory[Edge(t)]
      BY <1>1, <1>4, <3>3, ViewIs DEF CellsOK, ClaimsOK
    <3>5. class[1] # "SPSC"
      BY <1>3
    <3>. QED BY <1>1, <3>2, <3>4, <3>5, PublishedBounds
  <2>2. CASE storeBuffer[t][1] = DataStore(t, k)
    <3>1. memory' = [memory EXCEPT ![Data(k)] = After(t, k)]
      <4>1. Head(storeBuffer[t])[1] = Data(k) /\ Head(storeBuffer[t])[2] = After(t, k)
        <5>1. Head(storeBuffer[t]) = <<Data(k), After(t, k)>>
          BY <1>6, <2>2 DEF DataStore
        <5>. QED BY <5>1
      <4>. QED BY <1>2, <4>1
    <3>2. /\ memory'[Enqueue] = memory[Enqueue] /\ memory'[Dequeue] = memory[Dequeue]
          /\ \A q \in Int : memory'[Sequence(q)] = memory[Sequence(q)]
      BY <1>1, <3>1, LocationsApart
    <3>. QED BY <1>1, <1>3, <3>2 DEF BoundsOK
  <2>. QED BY <1>7, <2>1, <2>2
<1>9. /\ \A u \in QueueThreads : Past(u)' <=> Past(u)
      /\ \A c \in Bells : Movers(c)' = Movers(c) /\ Counted(c)' = Counted(c) /\ Sleepers(c)' = Sleepers(c)
      /\ Ringers' = Ringers
  BY <1>2, NobodyMoves
<1>10. WakersOK'
  <2>1. \A c \in Bells : Offer(c)' = Offer(c)
    BY <1>8, OffersSame
  <2>. QED BY <1>2, <1>9, <2>1, WakeParts DEF WakersOK
<1>11. SizesOK'
  BY <1>2, <1>8, <1>9, WakeParts DEF SizesOK
<1>12. WaitingOK'
  BY <1>2, <1>9, WakeParts DEF WaitingOK
<1>13. MutexOK' /\ PatientOK' /\ EdgesPlain' /\ ToldOK'
  BY <1>2, WakeParts DEF MutexOK, PatientOK, EdgesPlain, ToldOK, Bell
<1>14. BoundsOK'
  <2>1. memory'[Dequeue] <= memory'[Enqueue] /\ memory'[Enqueue] <= memory'[Dequeue] + Capacity
    BY <1>1, <1>8 DEF BoundsOK
  <2>2. ASSUME NEW u \in QueueThreads, Past(u)', place'[u] \in CellPlaces PROVE position'[u] < memory'[Edge(u)]
    <3>1. position[u] < memory[Edge(u)]
      BY <1>1, <1>2, <1>3, <1>9, <2>2 DEF BoundsOK
    <3>. QED BY <1>2, <1>8, <3>1 DEF Edge
  <2>. QED BY <1>2, <1>8, <2>1, <2>2 DEF BoundsOK, Edge
<1>. QED BY <1>10, <1>11, <1>12, <1>13, <1>14 DEF WakeOK

-----------------------------------------------------------------------------
(* The loops around them.                                                    *)
LEMMA WaitWakes ==
  ASSUME WakeInv, QueueInv', NEW t \in QueueThreads, NEW satisfied, Wait(t, Bell(t), satisfied),
         ~satisfied => IF t \in Producers THEN IsFullApprox(t) ELSE IsEmptyApprox(t)
  PROVE  WakeOK'
<1>1. /\ {"uncount", "predicate", "predicateSize"} \subseteq HoldPlaces \intersect CountPlaces
  BY DEF HoldPlaces, CountPlaces
<1>2. CASE place[t] \in {"predicate", "predicateSize"} /\ Only(t, "uncount")
  BY <1>1, <1>2, OnlyWakes
<1>3. CASE ~closed /\ LoadSize(t, "predicate", "predicateSize")
  BY <1>3, LoadSizeWakes
<1>4. CASE place[t] = "predicateSize" /\ ~satisfied /\ Unlock(t, Bell(t), "asleep")
  BY <1>4, SleepWakes
<1>5. CASE Lock(t, "woken", Bell(t), "predicate")
  BY <1>5, LockWakes
<1>. QED BY <1>2, <1>3, <1>4, <1>5 DEF Wait

LEMMA NotifyWakes ==
  ASSUME WakeInv, QueueInv', NEW t \in QueueThreads, NEW c \in Bells, c # Bell(t), Notify(t, c)
  PROVE  WakeOK'
  BY TestWaitingWakes, NotifyOneWakes DEF Notify

LEMMA Apart ==
  /\ {"idle", "enter", "load", "reload", "again", "slot", "claim", "raise", "failed", "closed", "closedSize", "ended",
      "construct", "take", "publish", "notify", "wake", "lock"} \intersect (HoldPlaces \union CountPlaces) = {}
  /\ {"locked", "lockedSize", "count"} \subseteq HoldPlaces \ CountPlaces
  BY DEF HoldPlaces, CountPlaces

LEMMA SleepInPushWakes ==
  ASSUME WakeInv, QueueInv', NEW p \in Producers, SleepInPush(p)
  PROVE  WakeOK'
<1>1. p \in QueueThreads /\ Bell(p) = "notFull"
  BY BellIs
<1>2. CASE place[p] = "failed" /\ (closed \/ p \notin patient) /\ Only(p, "idle")
  BY <1>1, <1>2, Apart, OnlyWakes
<1>3. CASE place[p] = "failed" /\ Retry(p, "enter")
  BY <1>1, <1>3, RetryWakes
<1>4. CASE Lock(p, "lock", "notFull", "locked")
  BY <1>1, <1>4, LockWakes
<1>5. CASE place[p] = "locked" /\ closed /\ Unlock(p, "notFull", "idle")
  BY <1>1, <1>5, LeaveWakes
<1>6. CASE place[p] = "locked" /\ Only(p, "count")
  BY <1>1, <1>6, Apart, OnlyWakes
<1>7. CASE Count(p, "notFull")
  BY <1>1, <1>7, CountWakes
<1>8. CASE Wait(p, "notFull", ~IsFullApprox(p))
  BY <1>1, <1>8, WaitWakes
<1>9. CASE Uncount(p, "notFull", "enter")
  BY <1>1, <1>9, UncountWakes
<1>. QED BY <1>2, <1>3, <1>4, <1>5, <1>6, <1>7, <1>8, <1>9 DEF SleepInPush

LEMMA StartPushWakes ==
  ASSUME WakeInv, QueueInv', NEW p \in Producers, NEW next \in {"slot", "again"}, StartPush(p, next)
  PROVE  WakeOK'
<1>1. p \in QueueThreads
  BY BellIs
<1>2. CASE /\ place[p] = "idle" /\ pushes > 0
           /\ pushes' = pushes - 1
           /\ Advance(p, "enter")
           /\ UNCHANGED <<class, team, memory, storeBuffer, closed, enqueuedAtClose, closing, waiting, mutex,
                          position, seenEnqueue, patient>>
  <2>1. place \in [QueueThreads -> QueuePlaces]
    BY WakeParts, WakeTypes
  <2>2. OneMove(p) /\ place'[p] = "enter"
    BY <1>1, <1>2, <2>1 DEF OneMove, Advance
  <2>3. MutexOK' /\ WaitingOK'
    BY <1>1, <1>2, <2>2, Apart, SameMutex, SameCounts
  <2>. QED BY <1>1, <1>2, <2>2, <2>3, Apart, MoveWakes
<1>3. CASE place[p] = "enter" /\ closed /\ Only(p, "idle")
  BY <1>1, <1>3, Apart, OnlyWakes
<1>4. CASE LoadPosition(p, "enter", Enqueue, next)
  BY <1>1, <1>4, LoadPositionWakes
<1>. QED BY <1>2, <1>3, <1>4 DEF StartPush

LEMMA TestSequenceWakes ==
  ASSUME WakeInv, QueueInv', NEW t \in QueueThreads, NEW ready, NEW onEqual, NEW onLess, NEW onMore,
         TestSequence(t, ready, onEqual, onLess, onMore),
         onLess \in {"failed", "reload", "load"}, onMore \in {"failed", "reload", "load"},
         IF Alone(QueueView, t) THEN onEqual = IF t \in Producers THEN "construct" ELSE "raise" ELSE onEqual = "claim"
  PROVE  WakeOK'
<1>1. PICK next \in {onEqual, onLess, onMore} : Only(t, next)
  BY DEF TestSequence
<1>2. place[t] = "slot"
  BY DEF TestSequence
<1>3. next \in {"construct", "take"} => ~Past(t)'
  <2>1. QueueInv
    BY WakeParts
  <2>2. place'[t] = next /\ class' = class
    BY <1>1, <2>1, OnlyIs DEF OneMove
  <2>. QED BY <1>1, <2>2, PastIs
<1>4. next \in {"failed", "reload", "load", "construct", "raise", "claim"}
  BY <1>1
<1>. QED BY <1>1, <1>2, <1>3, <1>4, Apart, OnlyWakes

LEMMA PushWakes ==
  ASSUME WakeInv, QueueInv', NEW p \in Producers, Push(p)
  PROVE  WakeOK'
<1>1. p \in QueueThreads /\ Bell(p) = "notFull" /\ Edge(p) = Enqueue /\ "notEmpty" \in Bells
  BY BellIs, Sides DEF Bells
<1>2. Following(p, position[p]) = position[p] + 1
  BY DEF Following
<1>3. CASE SleepInPush(p)
  BY <1>3, SleepInPushWakes
<1>4. CASE Notify(p, "notEmpty")
  BY <1>1, <1>4, NotifyWakes
<1>5. CASE MPMCPush(p) \/ MPSCPush(p)
  <2>1. class[1] \in {"MPMC", "MPSC"} /\ ~Alone(QueueView, p)
    BY <1>5, ViewIs DEF MPMCPush, MPSCPush, Alone
  <2>2. CASE StartPush(p, "slot") \/ StartPush(p, "again")
    BY <2>2, StartPushWakes
  <2>3. CASE TestSequence(p, position[p], "claim", "failed", "reload")
    BY <1>1, <2>1, <2>3, TestSequenceWakes
  <2>4. CASE LoadPosition(p, "reload", Enqueue, "again")
    BY <1>1, <2>4, LoadPositionWakes
  <2>5. CASE TestClosedAgain(p)
    <3>1. PICK next \in {"idle", "slot"} : Only(p, next) /\ place[p] = "again" /\ (next = "idle" => closed)
      BY <2>5 DEF TestClosedAgain
    <3>. QED BY <1>1, <3>1, Apart, OnlyWakes
  <2>6. CASE Claim(p, Enqueue, "construct", "again")
    BY <1>1, <2>1, <2>6, ClaimWakes
  <2>7. CASE Construct(p, "publish")
    BY <1>1, <2>1, <2>7, ItemWakes DEF Construct
  <2>8. CASE Publish(p, position[p] + 1, "notify")
    <3>1. Write(p, "publish", Sequence(position[p]), Following(p, position[p]), "notify")
      BY <1>2, <2>8 DEF Publish
    <3>. QED BY <1>1, <2>1, <3>1, PublishWakes
  <2>. QED BY <1>5, <2>2, <2>3, <2>4, <2>5, <2>6, <2>7, <2>8 DEF MPMCPush, MPSCPush
<1>6. CASE SPMCPush(p) \/ SPSCPush(p)
  <2>1. class[1] \in {"SPMC", "SPSC"} /\ Alone(QueueView, p)
    BY <1>6, ViewIs DEF SPMCPush, SPSCPush, Alone
  <2>2. CASE StartPush(p, "slot")
    BY <2>2, StartPushWakes
  <2>3. CASE TestSequence(p, position[p], "construct", "failed", "failed")
    BY <1>1, <2>1, <2>3, TestSequenceWakes
  <2>4. CASE place[p] = "slot" /\ Only(p, IF position[p] - Load(p, Dequeue) >= Capacity THEN "failed" ELSE "construct")
    <3>1. PICK next \in {"failed", "construct"} : Only(p, next) /\ place[p] = "slot"
      BY <2>4
    <3>2. next \in {"construct", "take"} => ~Past(p)'
      <4>1. QueueInv
        BY WakeParts
      <4>2. place'[p] = next /\ class' = class
        BY <1>1, <3>1, <4>1, OnlyIs DEF OneMove
      <4>. QED BY <1>1, <2>1, <3>1, <4>2, PastIs
    <3>. QED BY <1>1, <3>1, <3>2, Apart, OnlyWakes
  <2>5. CASE Construct(p, "raise")
    BY <1>1, <2>1, <2>5, ItemWakes DEF Construct
  <2>6. CASE class[1] = "SPMC" /\ Write(p, "raise", Enqueue, position[p] + 1, "publish")
    BY <1>1, <2>1, <2>6, RaiseWakes
  <2>7. CASE class[1] = "SPMC" /\ Publish(p, position[p] + 1, "notify")
    <3>1. Write(p, "publish", Sequence(position[p]), Following(p, position[p]), "notify")
      BY <1>2, <2>7 DEF Publish
    <3>. QED BY <1>1, <2>7, <3>1, PublishWakes
  <2>8. CASE class[1] = "SPSC" /\ Write(p, "raise", Enqueue, position[p] + 1, "notify")
    BY <1>1, <2>1, <2>8, RaiseWakes
  <2>. QED BY <1>6, <2>2, <2>3, <2>4, <2>5, <2>6, <2>7, <2>8 DEF SPMCPush, SPSCPush
<1>. QED BY <1>3, <1>4, <1>5, <1>6 DEF Push

LEMMA SleepInPopWakes ==
  ASSUME WakeInv, QueueInv', NEW c \in Consumers, SleepInPop(c)
  PROVE  WakeOK'
<1>1. c \in QueueThreads /\ Bell(c) = "notEmpty" /\ c \notin Producers
  BY BellIs
<1>2. EndsAt(c)
  BY WakeParts DEF QueueInv, EndsOK
<1>3. CASE place[c] = "failed" /\ closed /\ Only(c, "closed")
  BY <1>1, <1>3, Apart, OnlyWakes
<1>4. CASE (place[c] = "failed" \/ place[c] = "closedSize") /\ Retry(c, "load")
  BY <1>1, <1>4, RetryWakes
<1>5. CASE LoadSize(c, "closed", "closedSize")
  BY <1>1, <1>5, LoadSizeWakes
<1>6. CASE place[c] = "closedSize" /\ Only(c, "ended")
  <2>1. closed
    BY <1>2, <1>6 DEF EndsAt, EndPlaces
  <2>. QED BY <1>1, <1>6, <2>1, Apart, OnlyWakes
<1>7. CASE Lock(c, "lock", "notEmpty", "locked")
  BY <1>1, <1>7, LockWakes
<1>8. CASE (place[c] = "locked" \/ place[c] = "lockedSize") /\ Only(c, "count")
  BY <1>1, <1>8, Apart, OnlyWakes
<1>9. CASE LoadSize(c, "locked", "lockedSize")
  BY <1>1, <1>9, LoadSizeWakes
<1>10. CASE place[c] = "lockedSize" /\ Unlock(c, "notEmpty", "ended")
  <2>1. closed
    BY <1>2, <1>10 DEF EndsAt, EndPlaces
  <2>. QED BY <1>1, <1>10, <2>1, LeaveWakes
<1>11. CASE Count(c, "notEmpty")
  BY <1>1, <1>11, CountWakes
<1>12. CASE Wait(c, "notEmpty", ~IsEmptyApprox(c))
  BY <1>1, <1>12, WaitWakes
<1>13. CASE Uncount(c, "notEmpty", "load")
  BY <1>1, <1>13, UncountWakes
<1>. QED BY <1>3, <1>4, <1>5, <1>6, <1>7, <1>8, <1>9, <1>10, <1>11, <1>12, <1>13 DEF SleepInPop

LEMMA PopWakes ==
  ASSUME WakeInv, QueueInv', NEW c \in Consumers, Pop(c)
  PROVE  WakeOK'
<1>1. c \in QueueThreads /\ Bell(c) = "notEmpty" /\ c \notin Producers /\ Edge(c) = Dequeue /\ "notFull" \in Bells
  BY BellIs, Sides DEF Bells
<1>2. Following(c, position[c]) = position[c] + Capacity
  BY <1>1 DEF Following
<1>3. CASE SleepInPop(c)
  BY <1>3, SleepInPopWakes
<1>4. CASE Notify(c, "notFull")
  BY <1>1, <1>4, NotifyWakes
<1>5. CASE StartPop(c)
  <2>1. CASE place[c] = "idle" /\ Only(c, "load")
    BY <1>1, <2>1, Apart, OnlyWakes
  <2>2. CASE LoadPosition(c, "load", Dequeue, "slot")
    BY <1>1, <2>2, LoadPositionWakes
  <2>. QED BY <1>5, <2>1, <2>2 DEF StartPop
<1>6. CASE MPMCPop(c) \/ SPMCPop(c)
  <2>1. class[1] \in {"MPMC", "SPMC"} /\ ~Alone(QueueView, c)
    BY <1>1, <1>6, ViewIs DEF MPMCPop, SPMCPop, Alone
  <2>2. CASE TestSequence(c, position[c] + 1, "claim", "failed", "load")
    BY <1>1, <2>1, <2>2, TestSequenceWakes
  <2>3. CASE Claim(c, Dequeue, "take", "slot")
    BY <1>1, <2>1, <2>3, ClaimWakes
  <2>4. CASE Destroy(c, "publish")
    BY <1>1, <2>1, <2>4, ItemWakes DEF Destroy
  <2>5. CASE Publish(c, position[c] + Capacity, "notify")
    <3>1. Write(c, "publish", Sequence(position[c]), Following(c, position[c]), "notify")
      BY <1>2, <2>5 DEF Publish
    <3>. QED BY <1>1, <2>1, <3>1, PublishWakes
  <2>. QED BY <1>5, <1>6, <2>2, <2>3, <2>4, <2>5 DEF MPMCPop, SPMCPop
<1>7. CASE MPSCPop(c) \/ SPSCPop(c)
  <2>1. class[1] \in {"MPSC", "SPSC"} /\ Alone(QueueView, c)
    BY <1>1, <1>7, ViewIs DEF MPSCPop, SPSCPop, Alone
  <2>2. CASE TestSequence(c, position[c] + 1, "raise", "failed", "failed")
    BY <1>1, <2>1, <2>2, TestSequenceWakes
  <2>3. CASE class[1] = "SPSC" /\ place[c] = "slot" /\ Only(c, IF position[c] = Load(c, Enqueue) THEN "failed" ELSE "take")
    <3>1. PICK next \in {"failed", "take"} : Only(c, next) /\ place[c] = "slot"
      BY <2>3
    <3>2. next \in {"construct", "take"} => ~Past(c)'
      <4>1. QueueInv
        BY WakeParts
      <4>2. place'[c] = next /\ class' = class
        BY <1>1, <3>1, <4>1, OnlyIs DEF OneMove
      <4>. QED BY <1>1, <2>3, <3>1, <4>2, PastIs
    <3>. QED BY <1>1, <3>1, <3>2, Apart, OnlyWakes
  <2>4. CASE class[1] = "MPSC" /\ Write(c, "raise", Dequeue, position[c] + 1, "take")
    BY <1>1, <2>1, <2>4, RaiseWakes
  <2>5. CASE class[1] = "MPSC" /\ Destroy(c, "publish")
    BY <1>1, <2>5, ItemWakes DEF Destroy
  <2>6. CASE class[1] = "MPSC" /\ Publish(c, position[c] + Capacity, "notify")
    <3>1. Write(c, "publish", Sequence(position[c]), Following(c, position[c]), "notify")
      BY <1>2, <2>6 DEF Publish
    <3>. QED BY <1>1, <2>6, <3>1, PublishWakes
  <2>7. CASE class[1] = "SPSC" /\ Destroy(c, "raise")
    BY <1>1, <2>7, ItemWakes DEF Destroy
  <2>8. CASE class[1] = "SPSC" /\ Write(c, "raise", Dequeue, position[c] + 1, "notify")
    BY <1>1, <2>1, <2>8, RaiseWakes
  <2>. QED BY <1>5, <1>7, <2>2, <2>3, <2>4, <2>5, <2>6, <2>7, <2>8 DEF MPSCPop, SPSCPop
<1>. QED BY <1>3, <1>4, <1>6, <1>7 DEF Pop

-----------------------------------------------------------------------------
LEMMA WakeStart ==
  ASSUME QueueInit, EdgesPlain
  PROVE  WakeOK
<1>1. /\ QueueInv /\ \A t \in QueueThreads : place[t] = "idle" /\ ~Past(t)
      /\ memory[Enqueue] = 0 /\ memory[Dequeue] = 0 /\ Capacity \in Int /\ Capacity >= 2
  <2>1. \A t \in QueueThreads : place[t] = "idle"
    BY DEF QueueInit
  <2>2. memory[Enqueue] = 0 /\ memory[Dequeue] = 0
    BY LocationsApart DEF QueueInit, Enqueue, Dequeue
  <2>. QED BY <2>1, <2>2, QueueStart, QueueConstants DEF Past
<1>2. \A c \in Bells : Sleepers(c) = {} /\ Counted(c) = {}
  BY <1>1, SleepersAre DEF Counted, CountPlaces
<1>3. WakersOK /\ SizesOK
  BY <1>1, <1>2 DEF WakersOK, SizesOK
<1>4. MutexOK /\ PatientOK
  BY <1>1, BellIs, Apart DEF MutexOK, PatientOK
<1>5. WaitingOK
  BY <1>2, FS_EmptySet DEF WaitingOK, Bells, QueueInit
<1>6. ToldOK
  BY DEF ToldOK, QueueInit
<1>7. BoundsOK
  <2>1. ASSUME NEW q \in Int
        PROVE  /\ memory[Sequence(q)] = q + 1 => q < memory[Enqueue]
               /\ memory[Sequence(q)] = q => q < memory[Dequeue] + Capacity
    <3>1. memory[Sequence(q)] = q % Capacity
      BY LocationsApart DEF QueueInit, Sequence
    <3>2. q % Capacity \in 0 .. Capacity - 1 /\ (q % Capacity) % Capacity = q % Capacity
      BY <1>1
    <3>3. memory[Sequence(q)] # q + 1
      <4>1. SUFFICES ASSUME q % Capacity = q + 1 PROVE FALSE
        BY <3>1
      <4>2. q + 1 \in Int /\ (q + 1) % Capacity = q % Capacity
        BY <3>2, <4>1
      <4>3. q <= q + 1 => q = q + 1 \/ q + Capacity <= q + 1
        BY <4>2, SameCell
      <4>. QED BY <1>1, <4>3
    <3>. QED BY <1>1, <3>1, <3>2, <3>3
  <2>. QED BY <1>1, <2>1 DEF BoundsOK
<1>. QED BY <1>3, <1>4, <1>5, <1>6, <1>7 DEF WakeOK

(* The builds whose positions do not wait in a store buffer: any class on    *)
(* sequentially consistent memory, and on x86 the one that moves both of its *)
(* positions by compare and swap.                                            *)
PromptBuilds == ({"MPMC", "MPSC", "SPMC", "SPSC"} \X {"plain"}) \union {<<"MPMC", "buffered">>}

(* The invariant of the sleepers: beside as many items, or as much room, as  *)
(* there are threads that have still to look for someone to wake, or to look *)
(* for the item or the room themselves.                                      *)
THEOREM WakeInductive == ASSUME Builds \subseteq PromptBuilds PROVE QueueSpec => []WakeInv
<1>1. QueueInit => WakeInv
  <2>1. QueueInit => EdgesPlain
    BY DEF QueueInit, EdgesPlain, PromptBuilds
  <2>. QED BY <2>1, QueueStart, WakeStart DEF WakeInv
<1>2. QueueInv' /\ WakeInv /\ [QueueNext]_queueVars => WakeInv'
  <2>1. SUFFICES ASSUME QueueInv', WakeInv, [QueueNext]_queueVars PROVE WakeOK'
    BY DEF WakeInv
  <2>2. CASE UNCHANGED queueVars
    <3>1. place' = place /\ class' = class /\ patient' = patient /\ UNCHANGED queueVars
      BY <2>2 DEF queueVars
    <3>2. /\ \A t \in QueueThreads : Past(t)' <=> Past(t)
          /\ \A c \in Bells : Movers(c)' = Movers(c) /\ Counted(c)' = Counted(c) /\ Sleepers(c)' = Sleepers(c)
          /\ Ringers' = Ringers
      BY <3>1, NobodyMoves
    <3>3. WakersOK' /\ SizesOK' /\ WaitingOK'
      BY <2>1, <2>2, <3>2, WakeParts DEF WakersOK, SizesOK, WaitingOK, Offer, queueVars
    <3>4. MutexOK' /\ PatientOK' /\ EdgesPlain' /\ ToldOK'
      BY <2>1, <2>2, WakeParts DEF MutexOK, PatientOK, EdgesPlain, ToldOK, Bell, queueVars
    <3>5. BoundsOK'
      BY <2>1, <2>2, <3>2, WakeParts DEF BoundsOK, Edge, queueVars
    <3>. QED BY <3>3, <3>4, <3>5 DEF WakeOK
  <2>3. CASE \E p \in Producers : Push(p)
    BY <2>1, <2>3, PushWakes
  <2>4. CASE \E c \in Consumers : Pop(c)
    BY <2>1, <2>4, PopWakes
  <2>5. CASE \E t \in QueueThreads : Flush(t)
    BY <2>1, <2>5, FlushWakes
  <2>6. CASE Close
    BY <2>1, <2>6, CloseWakes
  <2>7. CASE NotifyAll
    BY <2>1, <2>7, NotifyAllWakes
  <2>. QED BY <2>1, <2>2, <2>3, <2>4, <2>5, <2>6, <2>7 DEF QueueNext
<1>. QED BY <1>1, <1>2, QueueInductive, PTL DEF QueueSpec

LEMMA NobodyLeft ==
  ASSUME WakeInv
  PROVE  NobodySleepsForGood
<1>1. SUFFICES ASSUME AtRest
               PROVE  /\ closed => \A t \in QueueThreads : place[t] # "asleep"
                      /\ Sleepers("notEmpty") # {} => memory[Enqueue] = memory[Dequeue]
                      /\ Sleepers("notFull") # {} => memory[Enqueue] - memory[Dequeue] = Capacity
  BY DEF NobodySleepsForGood
<1>2. closing = <<>> /\ \A t \in QueueThreads : place[t] \in {"idle", "asleep", "ended"}
  BY <1>1 DEF AtRest
<1>3. closed => \A t \in QueueThreads : place[t] # "asleep"
  BY <1>2, WakeParts DEF ToldOK
<1>4. /\ \A c \in Bells : Movers(c) = {} /\ Cardinality(Movers(c)) = 0
      /\ memory[Enqueue] \in Int /\ memory[Dequeue] \in Int /\ Capacity \in Int
      /\ memory[Dequeue] <= memory[Enqueue] /\ memory[Enqueue] <= memory[Dequeue] + Capacity
  <2>1. \A t \in QueueThreads : ~Past(t) /\ ~Looks(t)
    BY <1>2 DEF Past, Looks
  <2>2. \A c \in Bells : Movers(c) = {}
    BY <2>1 DEF Movers
  <2>. QED BY <2>2, FS_EmptySet, WakeParts, WakeTypes DEF BoundsOK
<1>5. ASSUME NEW c \in Bells, Sleepers(c) # {} PROVE Offer(c) <= 0
  <2>1. PICK u \in QueueThreads : place[u] = "asleep"
    BY <1>5, SleepersAre
  <2>2. ~closed
    BY <1>3, <2>1
  <2>. QED BY <1>4, <1>5, <2>2, WakeParts DEF WakersOK
<1>6. Sleepers("notEmpty") # {} => memory[Enqueue] = memory[Dequeue]
  <2>1. SUFFICES ASSUME Sleepers("notEmpty") # {} PROVE memory[Enqueue] = memory[Dequeue]
    OBVIOUS
  <2>2. Offer("notEmpty") <= 0
    BY <1>5, <2>1 DEF Bells
  <2>. QED BY <1>4, <2>2 DEF Offer
<1>7. Sleepers("notFull") # {} => memory[Enqueue] - memory[Dequeue] = Capacity
  <2>1. SUFFICES ASSUME Sleepers("notFull") # {} PROVE memory[Enqueue] - memory[Dequeue] = Capacity
    OBVIOUS
  <2>2. Offer("notFull") <= 0
    BY <1>5, <2>1 DEF Bells
  <2>. QED BY <1>4, <2>2 DEF Offer
<1>. QED BY <1>3, <1>6, <1>7

(* No wake-up of a lock-free queue is lost, although the counter of waiting  *)
(* threads is tested outside the mutex: when every thread is asleep or out   *)
(* of the queue, a sleeping consumer has nothing to take and a sleeping      *)
(* producer no room, and nobody sleeps in a closed queue.  For the builds in *)
(* which a position is in memory before its thread looks for sleepers; that  *)
(* it fails in the others is shown by LockFreeQueue_buffered.                *)
THEOREM NobodySleepsForGoodAlways ==
  ASSUME Builds \subseteq PromptBuilds PROVE QueueSpec => []NobodySleepsForGood
  BY WakeInductive, NobodyLeft, PTL
=============================================================================
