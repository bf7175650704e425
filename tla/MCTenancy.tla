------------------------------ MODULE MCTenancy ------------------------------
(* Instances of Tenancy for TLC. *)
EXTENDS Tenancy, TLC

(* Tenants and requests are interchangeable. *)
Symmetry == Permutations(Tenants) \cup Permutations(Requests)
=============================================================================
