---------------------------- MODULE MCFixedPool ----------------------------
(* FixedPool on a small instance. *)
EXTENDS FixedPool
=============================================================================
