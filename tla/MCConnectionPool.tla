-------------------------- MODULE MCConnectionPool --------------------------
(* Model-checking instance of ConnectionPool: three tasks share a pool of   *)
(* min_size 1 and max_size 2, enough for two tasks to race to create the    *)
(* second connection while the third waits.                                 *)
EXTENDS ConnectionPool, TLC

CONSTANTS t1, t2, t3, c1, c2

MCTasks == {t1, t2, t3}
MCConns == {c1, c2}
=============================================================================
