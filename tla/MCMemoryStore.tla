---------------------------- MODULE MCMemoryStore ----------------------------
(* Instances of MemoryStore for TLC. *)
EXTENDS MemoryStore, TLC

AllFaults == {"abort", "crash", "swallowed"}

(* Requests, ids and contents are interchangeable. *)
Symmetry == Permutations(Requests) \cup Permutations(Ids) \cup Permutations(Contents)
=============================================================================
