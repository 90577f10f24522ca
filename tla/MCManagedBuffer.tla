-------------------------- MODULE MCManagedBuffer --------------------------
(* ManagedBuffer on a small instance. *)
EXTENDS ManagedBuffer
=============================================================================
