--------------------------- MODULE MCNodeLifecycle ---------------------------
(* NodeLifecycle on a small instance. *)
EXTENDS NodeLifecycle
=============================================================================
