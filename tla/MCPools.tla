------------------------------- MODULE MCPools -------------------------------
(* Small instances of OdbcConnPool and RedisClient for TLC.  The two pools   *)
(* have nothing to do with each other: a behaviour is of the one that `part` *)
(* names.  Clients of one kind are interchangeable, and so are workers.      *)
(* Pools.cfg gives the workers of both the same names: one permutation       *)
(* exchanges them in either part.                                            *)
EXTENDS OdbcConnPool, RedisClient, TLC

Symmetry ==
    Permutations(Borrowers) \union Permutations(Namers) \union Permutations(Workers)

(* Clients of the two kinds on one slot break the count, see the run         *)
(* OdbcConnPool_counted: the clients of one kind stay idle.                  *)
VARIABLES part, style

PartsInit ==
    /\ part \in {"odbc", "redis"} /\ style \in {"borrow", "name"}
    /\ Init /\ RedisInit
    /\ part = "odbc" => ~selects
    /\ part = "redis" => style = "borrow" /\ ~rearms

PartsNext ==
    \/ /\ part = "odbc" /\ Next /\ UNCHANGED <<part, style, redisVars>>
       /\ \A c \in IF style = "borrow" THEN Namers ELSE Borrowers : pc'[c] = "idle"
    \/ part = "redis" /\ RedisNext /\ UNCHANGED <<part, style, vars>>

PartsSpec == PartsInit /\ [][PartsNext]_<<part, style, vars, redisVars>>
=============================================================================
