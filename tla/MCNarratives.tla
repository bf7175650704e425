----------------------------- MODULE MCNarratives -----------------------------
(***************************************************************************)
(* An instance of Narratives alone for TLC: two tenants, and a scroll that *)
(* takes all there is.                                                     *)
(***************************************************************************)
EXTENDS Narratives
=============================================================================
