------------------------- MODULE MCCompatInference -------------------------
(* CompatInference on small instances. *)
EXTENDS CompatInference
=============================================================================
