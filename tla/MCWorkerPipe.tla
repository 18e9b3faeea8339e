----------------------------- MODULE MCWorkerPipe -----------------------------
(* Instances of WorkerPipe for TLC: request ids are interchangeable.       *)
EXTENDS WorkerPipe, TLC

Symmetry == Permutations(Ids)
=============================================================================
