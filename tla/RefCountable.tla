---------------------------- MODULE RefCountable ----------------------------
(* RefCountable, TSharedPtr and TWeakPtr (UtilCore/Memory): an object and    *)
(* its control block.  The strong pointers together hold one weak reference, *)
(* which the object's destructor gives back.                                 *)
EXTENDS Integers, FiniteSets

CONSTANTS
    Holders,     \* threads, each with at most one strong and one weak pointer
    MaxRefs      \* bound: copies made in a run

ASSUME RefCountableConstants == MaxRefs \in Nat /\ IsFiniteSet(Holders) /\ Holders # {}

VARIABLES
    refCount,    \* the control block
    weakCount,
    object,      \* "alive", or how often it was deleted
    block,       \* the same for the control block
    strong,      \* threads with a TSharedPtr
    weak,        \* threads with a TWeakPtr
    oldCount,    \* of each thread: the count Lock() has read
    refPc,       \* of each thread: where it is
    copies       \* bound: copies made

refVars == <<refCount, weakCount, object, block, strong, weak, oldCount, refPc, copies>>

RefInit ==
    /\ refCount = 1 /\ weakCount = 1
    /\ object = 0 /\ block = 0
    /\ strong = {CHOOSE t \in Holders : TRUE}
    /\ weak = {}
    /\ oldCount = [t \in Holders |-> 0]
    /\ refPc = [t \in Holders |-> "idle"]
    /\ copies = 0

GoesTo(t, place) == refPc' = [refPc EXCEPT ![t] = place]

-----------------------------------------------------------------------------
(* A copy of a TSharedPtr, handed to another thread; a TWeakPtr of it.       *)
CopyStrong(t, u) ==
    /\ refPc[t] = "idle" /\ t \in strong /\ u \notin strong /\ refPc[u] = "idle" /\ copies < MaxRefs
    /\ refCount' = refCount + 1
    /\ strong' = strong \union {u}
    /\ copies' = copies + 1
    /\ UNCHANGED <<weakCount, object, block, weak, oldCount, refPc>>

MakeWeak(t, u) ==
    /\ refPc[t] = "idle" /\ t \in strong /\ u \notin weak /\ refPc[u] = "idle" /\ copies < MaxRefs
    /\ weakCount' = weakCount + 1
    /\ weak' = weak \union {u}
    /\ copies' = copies + 1
    /\ UNCHANGED <<refCount, object, block, strong, oldCount, refPc>>

(* ReleaseRef(): the decrement, then the destructor of the object.           *)
ReleaseRef(t) ==
    /\ refPc[t] = "idle" /\ t \in strong
    /\ refCount' = refCount - 1
    /\ strong' = strong \ {t}
    /\ GoesTo(t, IF refCount' = 0 THEN "delete" ELSE "idle")
    /\ UNCHANGED <<weakCount, object, block, weak, oldCount, copies>>

DeleteObject(t) ==
    /\ refPc[t] = "delete"
    /\ object' = object + 1
    /\ GoesTo(t, "dropBlock")
    /\ UNCHANGED <<refCount, weakCount, block, strong, weak, oldCount, copies>>

(* ReleaseWeakRef().                                                         *)
ReleaseWeakRef(t) ==
    /\ \/ refPc[t] = "dropBlock" /\ UNCHANGED weak
       \/ refPc[t] = "idle" /\ t \in weak /\ weak' = weak \ {t}
    /\ weakCount' = weakCount - 1
    /\ GoesTo(t, IF weakCount' = 0 THEN "deleteBlock" ELSE "idle")
    /\ UNCHANGED <<refCount, object, block, strong, oldCount, copies>>

DeleteBlock(t) ==
    /\ refPc[t] = "deleteBlock"
    /\ block' = block + 1
    /\ GoesTo(t, "idle")
    /\ UNCHANGED <<refCount, weakCount, object, strong, weak, oldCount, copies>>

(* TWeakPtr::Lock(): a load, then exchanges until one works or it reads 0.   *)
LockLoad(t) ==
    /\ refPc[t] = "idle" /\ t \in weak /\ t \notin strong /\ copies < MaxRefs
    /\ oldCount' = [oldCount EXCEPT ![t] = refCount]
    /\ GoesTo(t, "lock")
    /\ copies' = copies + 1
    /\ UNCHANGED <<refCount, weakCount, object, block, strong, weak>>

LockGivesUp(t) ==
    /\ refPc[t] = "lock" /\ oldCount[t] = 0
    /\ GoesTo(t, "idle")
    /\ UNCHANGED <<refCount, weakCount, object, block, strong, weak, oldCount, copies>>

(* Mutant: a copy like any other, whatever the count was.                    *)
LockCopies(t) ==
    /\ refPc[t] = "lock" /\ oldCount[t] # 0
    /\ refCount' = refCount + 1
    /\ strong' = strong \union {t}
    /\ GoesTo(t, "idle")
    /\ UNCHANGED <<weakCount, object, block, weak, oldCount, copies>>

LockExchange(t) ==
    /\ refPc[t] = "lock" /\ oldCount[t] # 0
    /\ IF refCount = oldCount[t]
         THEN /\ refCount' = refCount + 1
              /\ strong' = strong \union {t}
              /\ GoesTo(t, "idle")
              /\ UNCHANGED oldCount
         ELSE /\ oldCount' = [oldCount EXCEPT ![t] = refCount]
              /\ UNCHANGED <<refCount, strong, refPc>>
    /\ UNCHANGED <<weakCount, object, block, weak, copies>>

RefNext ==
    \E t \in Holders :
      \/ (\E u \in Holders \ {t} : CopyStrong(t, u)) \/ (\E u \in Holders : MakeWeak(t, u))
      \/ ReleaseRef(t) \/ DeleteObject(t) \/ ReleaseWeakRef(t) \/ DeleteBlock(t)
      \/ LockLoad(t) \/ LockGivesUp(t) \/ LockExchange(t)

RefSpec == RefInit /\ [][RefNext]_refVars

-----------------------------------------------------------------------------
(* Nobody holds a pointer to what is deleted, what is deleted is deleted     *)
(* once, and what nobody points to is deleted.                               *)
LivesWhileHeld ==
    /\ strong # {} => object = 0
    /\ strong \union weak # {} \/ (\E t \in Holders : refPc[t] = "lock") => block = 0
    /\ object <= 1 /\ block <= 1
    /\ (\A t \in Holders : refPc[t] = "idle") => (object = 1 <=> strong = {}) /\ (block = 1 <=> strong \union weak = {})

=============================================================================
