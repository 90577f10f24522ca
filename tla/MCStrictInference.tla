-------------------------- MODULE MCStrictInference --------------------------
(* StrictInference on small instances. *)
EXTENDS StrictInference
=============================================================================
