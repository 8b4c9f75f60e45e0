---------------------------- MODULE SerialActors ----------------------------
(* What a CJobQueue promises to the code that posts to it: every queue is an *)
(* actor with a mailbox.  Jobs are run one at a time, in the order they were *)
(* posted, each of them once, and a job can only disappear by being cleared. *)
EXTENDS Sequences, SequencesExt

CONSTANTS Queues, Jobs, NoJob

VARIABLES
    mailbox,   \* mailbox[q]: the posted jobs that have not been started
    running,   \* running[q]: the job being run, or NoJob
    finished   \* the jobs that have been run to their end

vars == <<mailbox, running, finished>>

Init ==
    /\ mailbox = [q \in Queues |-> <<>>]
    /\ running = [q \in Queues |-> NoJob]
    /\ finished = {}

Post(q, j) ==
    /\ j \notin finished
    /\ \A p \in Queues : j \notin Range(mailbox[p]) /\ running[p] # j
    /\ mailbox' = [mailbox EXCEPT ![q] = Append(@, j)]
    /\ UNCHANGED <<running, finished>>

Start(q) ==
    /\ running[q] = NoJob
    /\ mailbox[q] # <<>>
    /\ running' = [running EXCEPT ![q] = Head(mailbox[q])]
    /\ mailbox' = [mailbox EXCEPT ![q] = Tail(@)]
    /\ UNCHANGED finished

Finish(q) ==
    /\ running[q] # NoJob
    /\ finished' = finished \union {running[q]}
    /\ running' = [running EXCEPT ![q] = NoJob]
    /\ UNCHANGED mailbox

(* ClearJobs keeps what a running Execute() has already taken out.           *)
Clear(q) ==
    /\ \E n \in 0 .. Len(mailbox[q]) :
          mailbox' = [mailbox EXCEPT ![q] = SubSeq(@, 1, n)]
    /\ UNCHANGED <<running, finished>>

Next ==
    \E q \in Queues :
        \/ \E j \in Jobs : Post(q, j)
        \/ Start(q)
        \/ Finish(q)
        \/ Clear(q)

Spec == Init /\ [][Next]_vars
=============================================================================
