-------------------------- MODULE DelayedTaskQueue --------------------------
(* CDelayedTaskQueue (UtilCore/Containers/Queue): a heap of tasks by the     *)
(* time they are due, and one thread that sleeps until the earliest of them. *)
(* A reservation may become the earliest while it sleeps; a task may reserve *)
(* another.  Regions under the mutex are steps; time passes between them.    *)
EXTENDS Integers, FiniteSetsExt, Bags

CONSTANTS
    Reservers,    \* threads that call Reserve()
    MaxTime,      \* bound: clock ticks
    Delays,       \* delays Reserve() is called with
    MaxDelayed    \* bound: reservations in a run

ASSUME DelayedConstants ==
    /\ MaxTime \in Nat /\ Delays \subseteq 0..99 /\ MaxDelayed \in Nat
    /\ "timer" \notin Reservers

(* No time at all: later than any the clock or a task reaches.               *)
NoDeadline == MaxTime + 100

VARIABLES
    now,           \* steady_clock
    heap,          \* _queue: a bag of due times
    delayedStop,   \* _stopped
    due,           \* of each thread: the time of its new task
    delayPc,       \* of each thread: where it is
    deadline,      \* the time the timer thread sleeps until
    reserved       \* bound: reservations

delayVars == <<now, heap, delayedStop, due, delayPc, deadline, reserved>>

Timer == "timer"
DelayThreads == Reservers \union {Timer}

DelayInit ==
    /\ now = 0
    /\ heap = EmptyBag
    /\ delayedStop = FALSE
    /\ due = [t \in DelayThreads |-> 0]
    /\ delayPc = [t \in DelayThreads |-> IF t = Timer THEN "loop" ELSE "idle"]
    /\ deadline = NoDeadline
    /\ reserved = 0

DelayTo(t, place) == delayPc' = [delayPc EXCEPT ![t] = place]
Top == IF heap = EmptyBag THEN NoDeadline ELSE Min(BagToSet(heap))

(* Reserve(): the clock is read before the mutex is taken.                   *)
ReadClock(t) ==
    /\ delayPc[t] = IF t = Timer THEN "task" ELSE "idle"
    /\ reserved < MaxDelayed
    /\ reserved' = reserved + 1
    /\ \E d \in Delays : due' = [due EXCEPT ![t] = now + d]
    /\ DelayTo(t, "push")
    /\ UNCHANGED <<now, heap, delayedStop, deadline>>

PushDelayed(t) ==
    /\ delayPc[t] = "push"
    /\ IF delayedStop
         THEN DelayTo(t, IF t = Timer THEN "taskDone" ELSE "idle") /\ UNCHANGED heap
         ELSE heap' = heap (+) SetToBag({due[t]}) /\ DelayTo(t, "notify")
    /\ UNCHANGED <<now, delayedStop, due, deadline, reserved>>

(* Mutant: the timer in a timed wait looks for a stop only.                  *)
TimerMayGoLate == delayedStop \/ deadline = NoDeadline

(* The predicate of the wait the timer is in.                                *)
TimerMayGo == delayedStop \/ Top # deadline

NotifyTimer(t) ==
    /\ delayPc[t] = "notify"
    /\ delayPc' = [delayPc EXCEPT ![t] = IF t = Timer THEN "taskDone" ELSE "idle",
                                  ![Timer] = IF t = Timer THEN "taskDone"
                                             ELSE IF @ = "asleep" /\ TimerMayGo THEN "loop" ELSE @]
    /\ UNCHANGED <<now, heap, delayedStop, due, deadline, reserved>>

-----------------------------------------------------------------------------
(* ProcessExpiredTasks().                                                    *)
TimerSleeps ==
    /\ delayPc[Timer] = "loop" /\ ~delayedStop
    /\ Top > now
    /\ deadline' = Top
    /\ DelayTo(Timer, "asleep")
    /\ UNCHANGED <<now, heap, delayedStop, due, reserved>>

TimerWakes ==
    /\ delayPc[Timer] = "asleep" /\ deadline # NoDeadline /\ now >= deadline
    /\ DelayTo(Timer, "loop")
    /\ UNCHANGED <<now, heap, delayedStop, due, deadline, reserved>>

TimerRunsTask ==
    /\ delayPc[Timer] = "loop" /\ ~delayedStop
    /\ Top <= now
    /\ heap' = heap (-) SetToBag({Top})
    /\ DelayTo(Timer, "task")
    /\ UNCHANGED <<now, delayedStop, due, deadline, reserved>>

TaskReturns ==
    /\ delayPc[Timer] \in {"task", "taskDone"}
    /\ DelayTo(Timer, "loop")
    /\ UNCHANGED <<now, heap, delayedStop, due, deadline, reserved>>

TimerEnds ==
    /\ delayPc[Timer] = "loop" /\ delayedStop
    /\ DelayTo(Timer, "gone")
    /\ UNCHANGED <<now, heap, delayedStop, due, deadline, reserved>>

StopTimer(r) ==
    /\ delayPc[r] = "idle" /\ ~delayedStop
    /\ delayedStop' = TRUE
    /\ DelayTo(r, "notify")
    /\ UNCHANGED <<now, heap, due, deadline, reserved>>

Tick ==
    /\ now < MaxTime
    /\ now' = now + 1
    /\ UNCHANGED <<heap, delayedStop, due, delayPc, deadline, reserved>>

DelayNext ==
    \/ \E t \in DelayThreads : ReadClock(t) \/ PushDelayed(t) \/ NotifyTimer(t)
    \/ \E r \in Reservers : StopTimer(r)
    \/ TimerSleeps \/ TimerWakes \/ TimerRunsTask \/ TaskReturns \/ TimerEnds \/ Tick

DelaySpec == DelayInit /\ [][DelayNext]_delayVars

-----------------------------------------------------------------------------
(* The timer does not sleep past a task: once every notification has been    *)
(* made, it sleeps until the earliest task, or forever only when there is    *)
(* none and nobody has stopped it.                                           *)
TimerDoesNotOversleep ==
    delayPc[Timer] = "asleep" /\ (\A r \in Reservers : delayPc[r] # "notify")
      => /\ ~delayedStop
         /\ deadline = Top

=============================================================================
