------------------------- MODULE DoubleBufferQueue -------------------------
(* CDoubleBufferQueue (UtilCore/Containers/Queue): producers append to the   *)
(* buffer the write index names; the one consumer flips the index, waits     *)
(* until nobody is counted in the old buffer, and takes it whole, without    *)
(* its lock.                                                                 *)
EXTENDS Integers, FiniteSets, Sequences

CONSTANTS
    Writers,     \* producer threads
    MaxWrites    \* bound: items each of them writes

ASSUME DoubleBufferConstants == MaxWrites \in Nat /\ IsFiniteSet(Writers)

VARIABLES
    buffer,       \* m_buffer
    writeIdx,     \* m_writeIdx
    inFlight,     \* m_inFlight
    bufferStop,   \* m_stopped
    idx,          \* of each producer: idx
    writerPc,     \* of each producer: where it is
    written,      \* of each producer: items it has written
    swapPc,       \* the consumer: where it is
    oldIdx,       \* the consumer: oldIdx
    swapped       \* history: items the consumer has taken

bufferVars == <<buffer, writeIdx, inFlight, bufferStop, idx, writerPc, written, swapPc, oldIdx, swapped>>

BufferInit ==
    /\ buffer = [b \in {0, 1} |-> <<>>]
    /\ writeIdx = 0
    /\ inFlight = [b \in {0, 1} |-> 0]
    /\ bufferStop = FALSE
    /\ idx = [p \in Writers |-> 0]
    /\ writerPc = [p \in Writers |-> "idle"]
    /\ written = [p \in Writers |-> 0]
    /\ swapPc = "idle" /\ oldIdx = 0
    /\ swapped = <<>>

WriterTo(p, place) == writerPc' = [writerPc EXCEPT ![p] = place]

(* EmplaceInternal(): load the index, be counted, test it again, append.     *)
LoadIdx(p) ==
    /\ \/ writerPc[p] = "idle" /\ written[p] < MaxWrites /\ ~bufferStop
       \/ writerPc[p] = "again" /\ ~bufferStop
    /\ idx' = [idx EXCEPT ![p] = writeIdx]
    /\ WriterTo(p, "enter")
    /\ UNCHANGED <<buffer, writeIdx, inFlight, bufferStop, written, swapPc, oldIdx, swapped>>

PushRefused(p) ==
    /\ writerPc[p] = "again" /\ bufferStop
    /\ WriterTo(p, "idle")
    /\ UNCHANGED <<buffer, writeIdx, inFlight, bufferStop, idx, written, swapPc, oldIdx, swapped>>

EnterBuffer(p) ==
    /\ writerPc[p] = "enter"
    /\ inFlight' = [inFlight EXCEPT ![idx[p]] = @ + 1]
    /\ WriterTo(p, "test")
    /\ UNCHANGED <<buffer, writeIdx, bufferStop, idx, written, swapPc, oldIdx, swapped>>

(* Mutant: the index is not loaded again once the producer is counted.       *)
TrustIdx(p) ==
    /\ writerPc[p] = "test"
    /\ WriterTo(p, "write")
    /\ UNCHANGED <<buffer, writeIdx, inFlight, bufferStop, idx, written, swapPc, oldIdx, swapped>>

TestIdx(p) ==
    /\ writerPc[p] = "test"
    /\ WriterTo(p, IF writeIdx = idx[p] THEN "write" ELSE "leave")
    /\ UNCHANGED <<buffer, writeIdx, inFlight, bufferStop, idx, written, swapPc, oldIdx, swapped>>

WriteItem(p) ==
    /\ writerPc[p] = "write"
    /\ written' = [written EXCEPT ![p] = @ + 1]
    /\ buffer' = [buffer EXCEPT ![idx[p]] = Append(@, <<p, written'[p]>>)]
    /\ WriterTo(p, "done")
    /\ UNCHANGED <<writeIdx, inFlight, bufferStop, idx, swapPc, oldIdx, swapped>>

LeaveBuffer(p) ==
    /\ writerPc[p] \in {"leave", "done"}
    /\ inFlight' = [inFlight EXCEPT ![idx[p]] = @ - 1]
    /\ WriterTo(p, IF writerPc[p] = "done" THEN "idle" ELSE "again")
    /\ UNCHANGED <<buffer, writeIdx, bufferStop, idx, written, swapPc, oldIdx, swapped>>

(* SwapInto().                                                               *)
FlipIdx ==
    /\ swapPc = "idle"
    /\ oldIdx' = writeIdx
    /\ writeIdx' = 1 - writeIdx
    /\ swapPc' = "wait"
    /\ UNCHANGED <<buffer, inFlight, bufferStop, idx, writerPc, written, swapped>>

AwaitWriters ==
    /\ swapPc = "wait" /\ inFlight[oldIdx] = 0
    /\ swapPc' = "swap"
    /\ UNCHANGED <<buffer, writeIdx, inFlight, bufferStop, idx, writerPc, written, oldIdx, swapped>>

TakeBuffer ==
    /\ swapPc = "swap"
    /\ swapped' = swapped \o buffer[oldIdx]
    /\ buffer' = [buffer EXCEPT ![oldIdx] = <<>>]
    /\ swapPc' = "idle"
    /\ UNCHANGED <<writeIdx, inFlight, bufferStop, idx, writerPc, written, oldIdx>>

StopBuffer ==
    /\ ~bufferStop
    /\ bufferStop' = TRUE
    /\ UNCHANGED <<buffer, writeIdx, inFlight, idx, writerPc, written, swapPc, oldIdx, swapped>>

BufferNext ==
    \/ \E p \in Writers : LoadIdx(p) \/ PushRefused(p) \/ EnterBuffer(p) \/ TestIdx(p) \/ WriteItem(p) \/ LeaveBuffer(p)
    \/ FlipIdx \/ AwaitWriters \/ TakeBuffer \/ StopBuffer

BufferSpec == BufferInit /\ [][BufferNext]_bufferVars

-----------------------------------------------------------------------------
(* The consumer takes a buffer nobody appends to, and what a producer wrote  *)
(* comes out once, in its order, with nothing skipped.                       *)
BufferTakenWhole ==
    /\ swapPc = "swap" => ~ \E p \in Writers : writerPc[p] = "write" /\ idx[p] = oldIdx
    /\ \A i, j \in DOMAIN swapped : swapped[i] = swapped[j] => i = j
    /\ \A i \in DOMAIN swapped : \A n \in 1..swapped[i][2] - 1 :
         \E j \in 1..i - 1 : swapped[j] = <<swapped[i][1], n>>

=============================================================================
