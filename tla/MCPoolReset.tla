---------------------------- MODULE MCPoolReset ----------------------------
(* A small instance of PoolReset: two presses, three starts, one upset. *)
EXTENDS PoolReset
=============================================================================
