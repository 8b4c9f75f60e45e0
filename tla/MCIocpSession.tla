--------------------------- MODULE MCIocpSession ----------------------------
(* Small instances of IocpSession for TLC.                                   *)
EXTENDS IocpSession, TLC

(* Messages are not interchangeable once queued, but before that their names *)
(* carry no meaning; nor do those of the threads of one kind.                *)
Symmetry ==
    Permutations(Users) \union Permutations(Workers) \union Permutations(Messages)
=============================================================================
