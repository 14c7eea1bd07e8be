----------------------------- MODULE MCTaskQueue -----------------------------
(* TaskQueue with the constants of its runs. *)
EXTENDS TaskQueue, TLC

CONSTANTS m1, m2, g1, w1, w2

MCWorkers == {w1, w2}

\* Threads are interchangeable (safety runs only).
WorkerSymmetry == Permutations(MCWorkers)

=============================================================================
