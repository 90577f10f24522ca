-------------------------- MODULE MCReleaseTracker --------------------------
(* ReleaseTracker on a small instance: a buffer that adopts one buffer and   *)
(* was produced from another one, which in turn was produced from a third.   *)
EXTENDS ReleaseTracker, TLC

CONSTANTS top, adopted, source, below

MCBuffers == {top, adopted, source, below}

MCOwner == (top :> adopted) @@ [b \in MCBuffers |-> Nobody]

MCSource == (top :> source) @@ (source :> below) @@ [b \in MCBuffers |-> Nobody]

AllButBelow == {top, adopted, source}
=============================================================================
