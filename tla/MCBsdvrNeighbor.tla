-------------------------- MODULE MCBsdvrNeighbor --------------------------
(* A small instance of BsdvrNeighbor for TLC. *)
EXTENDS BsdvrNeighbor, TLC
=============================================================================
