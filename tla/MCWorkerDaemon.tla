--------------------------- MODULE MCWorkerDaemon ---------------------------
(* Model checking of WorkerDaemon: works are interchangeable.               *)
EXTENDS WorkerDaemon, TLC

CONSTANTS w1, w2

Symmetric == Permutations(Works)
=============================================================================
