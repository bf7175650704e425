----------------------------- MODULE MCJobQueue -----------------------------
(* Instances of JobQueue for TLC. *)
EXTENDS JobQueue, TLC

CONSTANTS j1, j2, j3

AllFaults == {"crash", "io", "ambiguous"}
LossFaults == {"crash", "io"}

(* Worker processes are interchangeable. *)
WorkerSymmetry == Permutations(Workers)
=============================================================================
