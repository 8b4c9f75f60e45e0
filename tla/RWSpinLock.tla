----------------------------- MODULE RWSpinLock -----------------------------
(* RWSpinLock (UtilCore/Thread/SpinLock.inl): a reader-writer lock in one    *)
(* atomic word of three fields.  WriteLock() announces the writer before it  *)
(* waits, and readers keep out while a writer is announced; a reader adds    *)
(* itself first, and takes itself back when it finds a writer.               *)
(*                                                                           *)
(* A step is one access to the word.  A thread holds the lock at most once:  *)
(* the lock is not recursive.                                                *)
EXTENDS Integers, FiniteSets

CONSTANT Lockers

(* Fewer threads than the smaller field, READER_COUNT_MASK, can count: the   *)
(* overflow branches, which terminate the process, are not reached.          *)
ASSUME LockersAssumption == IsFiniteSet(Lockers) /\ Cardinality(Lockers) <= 32767

VARIABLES
    word,      \* _state: WRITE_LOCKED, READER_COUNT and WRITER_WAITING
    pc,        \* where the thread is
    expected   \* the word it has loaded for its compare_exchange

lockVars == <<word, pc, expected>>

Words == [locked : BOOLEAN, readers : Nat, writers : Nat]
Unlocked == [locked |-> FALSE, readers |-> 0, writers |-> 0]

LockInit ==
    /\ word = Unlocked
    /\ pc = [t \in Lockers |-> "idle"]
    /\ expected = [t \in Lockers |-> Unlocked]

Goto(t, label) == pc' = [pc EXCEPT ![t] = label]

(* Mutants: readers do not mind waiting writers, writers do not mind readers.*)
NoWriterInside == ~word.locked
FreeOfWriters(w) == ~w.locked

NoWriter == word.writers = 0 /\ ~word.locked
Free(w) == w.readers = 0 /\ ~w.locked

-----------------------------------------------------------------------------
ReadLock(t) ==
    /\ pc[t] = "idle"
    /\ Goto(t, "readWait")
    /\ UNCHANGED <<word, expected>>

(* SpinWait is left once a load finds no writer.                             *)
ReadSpin(t) ==
    /\ pc[t] = "readWait"
    /\ NoWriter
    /\ Goto(t, "readAdd")
    /\ UNCHANGED <<word, expected>>

ReadAdd(t) ==
    /\ pc[t] \in {"readAdd", "tryReadAdd"}
    /\ word' = [word EXCEPT !.readers = @ + 1]
    /\ \/ NoWriter /\ Goto(t, "reading")
       \/ ~NoWriter /\ pc[t] = "readAdd" /\ Goto(t, "readUndo")
       \/ ~NoWriter /\ pc[t] = "tryReadAdd" /\ Goto(t, "tryReadUndo")
    /\ UNCHANGED expected

ReadUndo(t) ==
    /\ pc[t] \in {"readUndo", "tryReadUndo"}
    /\ word' = [word EXCEPT !.readers = @ - 1]
    /\ Goto(t, IF pc[t] = "readUndo" THEN "readWait" ELSE "idle")
    /\ UNCHANGED expected

(* TryReadLock(): a load that finds a writer ends the call without a step.   *)
TryReadLock(t) ==
    /\ pc[t] = "idle"
    /\ NoWriter
    /\ Goto(t, "tryReadAdd")
    /\ UNCHANGED <<word, expected>>

ReadUnlock(t) ==
    /\ pc[t] = "reading"
    /\ word' = [word EXCEPT !.readers = @ - 1]
    /\ Goto(t, "idle")
    /\ UNCHANGED expected

WriteLock(t) ==
    /\ pc[t] = "idle"
    /\ word' = [word EXCEPT !.writers = @ + 1]
    /\ Goto(t, "writeWait")
    /\ UNCHANGED expected

(* The load of the spin loop; it goes round while the lock is not free.      *)
WriteSpin(t) ==
    /\ pc[t] = "writeWait"
    /\ Free(word)
    /\ expected' = [expected EXCEPT ![t] = word]
    /\ Goto(t, "writeCas")
    /\ UNCHANGED word

WriteCas(t) ==
    /\ pc[t] = "writeCas"
    /\ IF word = expected[t]
       THEN word' = [word EXCEPT !.locked = TRUE] /\ Goto(t, "writing")
       ELSE UNCHANGED word /\ Goto(t, "writeWait")
    /\ UNCHANGED expected

(* TryWriteLock() does not ask whether another writer waits.                 *)
TryWriteLock(t) ==
    /\ pc[t] = "idle"
    /\ Free(word)
    /\ expected' = [expected EXCEPT ![t] = word]
    /\ Goto(t, "tryWriteCas")
    /\ UNCHANGED word

TryWriteCas(t) ==
    /\ pc[t] = "tryWriteCas"
    /\ IF word = expected[t]
       THEN /\ word' = [word EXCEPT !.writers = @ + 1, !.locked = TRUE]
            /\ Goto(t, "writing")
       ELSE UNCHANGED word /\ Goto(t, "idle")
    /\ UNCHANGED expected

(* Mutant: the announcement is withdrawn, the bit stays.                     *)
WriteUnlockKeepsBit(t) ==
    /\ pc[t] = "writing"
    /\ word' = [word EXCEPT !.writers = @ - 1]
    /\ Goto(t, "idle")
    /\ UNCHANGED expected

WriteUnlock(t) ==
    /\ pc[t] = "writing"
    /\ word' = [word EXCEPT !.writers = @ - 1, !.locked = FALSE]
    /\ Goto(t, "idle")
    /\ UNCHANGED expected

-----------------------------------------------------------------------------
(* What a thread that has entered the lock goes on to do, its release too.   *)
LockProgress(t) ==
    \/ ReadSpin(t) \/ ReadAdd(t) \/ ReadUndo(t) \/ ReadUnlock(t)
    \/ WriteSpin(t) \/ WriteCas(t) \/ TryWriteCas(t) \/ WriteUnlock(t)

LockNext ==
    \E t \in Lockers :
        \/ LockProgress(t)
        \/ ReadLock(t) \/ TryReadLock(t) \/ WriteLock(t) \/ TryWriteLock(t)

LockSpec == LockInit /\ [][LockNext]_lockVars

(* A spinning thread is scheduled (SpinWait yields), and a holder releases.  *)
LockFairSpec == LockSpec /\ \A t \in Lockers : WF_lockVars(LockProgress(t))

-----------------------------------------------------------------------------
Labels ==
    {"idle", "readWait", "readAdd", "readUndo", "tryReadAdd", "tryReadUndo",
     "reading", "writeWait", "writeCas", "tryWriteCas", "writing"}

LockTypeOK ==
    /\ word \in Words
    /\ pc \in [Lockers -> Labels]
    /\ expected \in [Lockers -> Words]

(* Threads whose READER_ONE is in the word, and whose WRITER_ONE is.         *)
Counted == {t \in Lockers : pc[t] \in {"reading", "readUndo", "tryReadUndo"}}
Announced == {t \in Lockers : pc[t] \in {"writeWait", "writeCas", "writing"}}
Writing == {t \in Lockers : pc[t] = "writing"}

(* A writer has the lock for itself.                                         *)
MutualExclusion ==
    \A t, u \in Lockers :
        t # u /\ pc[t] = "writing" => pc[u] \notin {"reading", "writing"}

(* The three fields of the word say how many threads read, write and wait,   *)
(* and nothing is left behind by a reader that gives up or a try that fails. *)
CountsExact ==
    /\ word.readers = Cardinality(Counted)
    /\ word.writers = Cardinality(Announced)
    /\ word.locked <=> Writing # {}

(* Both, under every interleaving of lock, unlock and the tries that give up.*)
LockHolds == MutualExclusion /\ CountsExact

(* The fairness the source promises: no reader enters past a waiting writer. *)
NoReaderPassesWriter ==
    [][\A t, u \in Lockers :
          pc[t] # "reading" /\ pc'[t] = "reading" => pc[u] \notin {"writeWait", "writeCas"}]_lockVars

(* A writer that waits is not kept out for ever: it, or another one, gets in.*)
WritersAdvance ==
    (\E t \in Lockers : pc[t] \in {"writeWait", "writeCas"})
        ~> (\E t \in Lockers : pc[t] = "writing")
=============================================================================
