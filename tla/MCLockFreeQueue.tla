-------------------------- MODULE MCLockFreeQueue --------------------------
(* What the instances of LockFreeQueue give its constants.                   *)
EXTENDS LockFreeQueue, TLC

(* The class with compare-exchange on both sides on the memory of x86, whose *)
(* behaviours include the sequentially consistent ones; the others on        *)
(* sequentially consistent memory.                                           *)
SomeBuilds == {<<"MPMC", "buffered">>, <<"MPSC", "plain">>, <<"SPMC", "plain">>, <<"SPSC", "plain">>}

(* The reordering needs no full queue; the rest does.                       *)
SomePushes == [plain |-> 3, buffered |-> 2]

BufferedSPSC == {<<"SPSC", "buffered">>}

Symmetry == Permutations(Producers) \union Permutations(Consumers)
=============================================================================
