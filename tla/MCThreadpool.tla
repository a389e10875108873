----------------------------- MODULE MCThreadpool -----------------------------
(***************************************************************************)
(* Instances of Threadpool for TLC: how the server uses the pool, and how  *)
(* its interface may be used by an owner that does not wait.               *)
(***************************************************************************)
EXTENDS Threadpool, TLC

CONSTANTS w1, w2, w3, t1, t2, t3

TwoWorkers   == {w1, w2}
ThreeWorkers == {w1, w2, w3}
TwoTasks     == {t1, t2}
ThreeTasks   == {t1, t2, t3}

WorkerAndTaskSymmetry == Permutations(ThreeWorkers) \cup Permutations(ThreeTasks)
===============================================================================
