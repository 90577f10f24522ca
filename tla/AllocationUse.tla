---------------------------- MODULE AllocationUse ----------------------------
(***************************************************************************)
(* What a managed buffer promises about its allocation, whatever the       *)
(* handles and events behind it: device work may use it while it is held,  *)
(* it goes back to its owner (a pool, or the backend's allocator) at most  *)
(* once and only when no work uses it any more, and when that cannot be    *)
(* known it is orphaned for good instead.                                  *)
(***************************************************************************)
CONSTANT Users   \* whoever can have work on the allocation

VARIABLES status,   \* "held", "released" or "orphaned"
          using     \* the users whose work has not completed

vars == <<status, using>>

Init == status = "held" /\ using = {}

Use(u) ==
  /\ status = "held"
  /\ using' = using \cup {u}
  /\ UNCHANGED status

\* The device keeps completing work, also on an orphaned allocation.
Complete ==
  /\ using' \in SUBSET using
  /\ UNCHANGED status

Release ==
  /\ status = "held" /\ using = {}
  /\ status' = "released"
  /\ UNCHANGED using

Orphan ==
  /\ status = "held"
  /\ status' = "orphaned"
  /\ UNCHANGED using

Next == (\E u \in Users : Use(u)) \/ Complete \/ Release \/ Orphan

Spec == Init /\ [][Next]_vars
=============================================================================
