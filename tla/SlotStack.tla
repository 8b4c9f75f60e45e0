----------------------------- MODULE SlotStack -----------------------------
(* CLockFreeSlotStack (UtilCore/Containers/Stack): the free slots of a       *)
(* buffer pool as a linked stack of indices.  The head packs an index and a  *)
(* version that every successful exchange advances, because Pop() reads the  *)
(* link of a slot that others may take, use and return before its exchange.  *)
EXTENDS Integers, Sequences

CONSTANTS
    SlotUsers,    \* threads
    SlotCount,    \* _capacity
    MaxVersion    \* bound: successful exchanges in a run (the code wraps at 2^32)

ASSUME SlotStackConstants == SlotCount \in Nat \ {0} /\ MaxVersion \in Nat

SlotIds   == 0..SlotCount - 1
NullIndex == SlotCount

VARIABLES
    head,       \* _head: version and index
    nextFree,   \* _nextFree
    taken,      \* of each thread: the slots it has popped and not returned
    oldHead,    \* of each thread: its copy of the head
    link,       \* of each thread: the index it will put into the head
    stackPc,    \* of each thread: where it is
    freeSlots   \* history: the slots in the order they are to be popped

slotVars == <<head, nextFree, taken, oldHead, link, stackPc, freeSlots>>

SlotInit ==
    /\ head = [version |-> 0, index |-> 0]
    /\ nextFree = [s \in SlotIds |-> s + 1]
    /\ taken = [t \in SlotUsers |-> {}]
    /\ oldHead = [t \in SlotUsers |-> [version |-> 0, index |-> NullIndex]]
    /\ link = [t \in SlotUsers |-> NullIndex]
    /\ stackPc = [t \in SlotUsers |-> "idle"]
    /\ freeSlots = [i \in 1..SlotCount |-> i - 1]

StepTo(t, place) == stackPc' = [stackPc EXCEPT ![t] = place]
LoadHead(t) == oldHead' = [oldHead EXCEPT ![t] = head]

(* Mutant: the index alone is compared.                                      *)
ExchangeIndex(t, index, retry) ==
    IF head.index = oldHead[t].index
      THEN /\ head' = [version |-> head.version + 1, index |-> index]
           /\ StepTo(t, "idle")
           /\ UNCHANGED oldHead
      ELSE LoadHead(t) /\ StepTo(t, retry) /\ UNCHANGED head

(* compare_exchange_weak: on failure the head is loaded again.               *)
Exchange(t, index, retry) ==
    IF head = oldHead[t]
      THEN /\ head' = [version |-> head.version + 1, index |-> index]
           /\ StepTo(t, "idle")
           /\ UNCHANGED oldHead
      ELSE LoadHead(t) /\ StepTo(t, retry) /\ UNCHANGED head

-----------------------------------------------------------------------------
PopBegin(t) ==
    /\ stackPc[t] = "idle" /\ head.version < MaxVersion
    /\ LoadHead(t)
    /\ StepTo(t, "popRead")
    /\ UNCHANGED <<head, nextFree, taken, link, freeSlots>>

PopEmpty(t) ==
    /\ stackPc[t] = "popRead" /\ oldHead[t].index = NullIndex
    /\ StepTo(t, "idle")
    /\ UNCHANGED <<head, nextFree, taken, oldHead, link, freeSlots>>

PopReadNext(t) ==
    /\ stackPc[t] = "popRead" /\ oldHead[t].index # NullIndex
    /\ link' = [link EXCEPT ![t] = nextFree[oldHead[t].index]]
    /\ StepTo(t, "popSwap")
    /\ UNCHANGED <<head, nextFree, taken, oldHead, freeSlots>>

PopExchange(t) ==
    /\ stackPc[t] = "popSwap"
    /\ Exchange(t, link[t], "popRead")
    /\ IF stackPc'[t] = "idle"
         THEN taken' = [taken EXCEPT ![t] = @ \union {head.index}] /\ freeSlots' = Tail(freeSlots)
         ELSE UNCHANGED <<taken, freeSlots>>
    /\ UNCHANGED <<nextFree, link>>

PushBegin(t, s) ==
    /\ stackPc[t] = "idle" /\ s \in taken[t] /\ head.version < MaxVersion
    /\ LoadHead(t)
    /\ link' = [link EXCEPT ![t] = s]
    /\ StepTo(t, "pushLink")
    /\ UNCHANGED <<head, nextFree, taken, freeSlots>>

PushLink(t) ==
    /\ stackPc[t] = "pushLink"
    /\ nextFree' = [nextFree EXCEPT ![link[t]] = oldHead[t].index]
    /\ StepTo(t, "pushSwap")
    /\ UNCHANGED <<head, taken, oldHead, link, freeSlots>>

PushExchange(t) ==
    /\ stackPc[t] = "pushSwap"
    /\ Exchange(t, link[t], "pushLink")
    /\ IF stackPc'[t] = "idle"
         THEN taken' = [taken EXCEPT ![t] = @ \ {link[t]}] /\ freeSlots' = <<link[t]>> \o freeSlots
         ELSE UNCHANGED <<taken, freeSlots>>
    /\ UNCHANGED <<nextFree, link>>

SlotNext ==
    \E t \in SlotUsers :
      \/ PopBegin(t) \/ PopEmpty(t) \/ PopReadNext(t) \/ PopExchange(t)
      \/ (\E s \in SlotIds : PushBegin(t, s)) \/ PushLink(t) \/ PushExchange(t)

SlotSpec == SlotInit /\ [][SlotNext]_slotVars

-----------------------------------------------------------------------------
(* The slots one meets from the head are those that were returned, the last  *)
(* first, and every slot is in one place: on the free list once, or with one *)
(* thread.  A slot handed to two threads is one buffer under two receives.   *)
EverySlotOnce ==
    /\ head.index = IF freeSlots = <<>> THEN NullIndex ELSE freeSlots[1]
    /\ \A i \in DOMAIN freeSlots :
         nextFree[freeSlots[i]] = IF i < Len(freeSlots) THEN freeSlots[i + 1] ELSE NullIndex
    /\ \A i, j \in DOMAIN freeSlots : freeSlots[i] = freeSlots[j] => i = j
    /\ \A s \in SlotIds : (\E i \in DOMAIN freeSlots : freeSlots[i] = s) <=> ~ \E t \in SlotUsers : s \in taken[t]
    /\ \A t, u \in SlotUsers : taken[t] \intersect taken[u] # {} => t = u

=============================================================================
