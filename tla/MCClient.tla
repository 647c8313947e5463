------------------------------ MODULE MCClient ------------------------------
(* Model-checking instance of Client: two tasks, each making two calls     *)
(* (queries or transactions), share a pool of min_size 1 and max_size 2.  *)
EXTENDS Client, TLC

CONSTANTS t1, t2, c1, c2

MCTasks == {t1, t2}
MCConns == {c1, c2}

\* Only the tasks with no role of their own are interchangeable.
TaskSymmetry == Permutations(MCTasks \ (Closers \cup Cancellable \cup KeepsTx))
=============================================================================
