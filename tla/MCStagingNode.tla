---------------------------- MODULE MCStagingNode ----------------------------
(* StagingNode on a small instance: messages of one to three tensors, one     *)
(* with more tensors of a size than its pool has blocks, one too large for a   *)
(* pool, sizes of which not all fit into the cache, and tensors without a      *)
(* size: products of 18 that wrap to 2, where the dimensions or the element    *)
(* overflow, dimensions that are not positive, no dimension, too little data.  *)
EXTENDS StagingNode

\* A tensor of a message.
T(shape, element, data) == [shape |-> shape, element |-> element, data |-> data]

One == T(<<1>>, 1, 1)
Two == T(<<1, 1>>, 2, 2)
Three == T(<<3>>, 1, 4)
Nine == T(<<3, 3>>, 1, 9)

MCMessages ==
  {<<One, Two>>, <<Three>>, <<One, One, One>>, <<Nine>>, <<>>,
   <<One, T(<<3, 6>>, 1, 2)>>, <<T(<<9>>, 2, 2)>>, <<T(<<-1, -2>>, 1, 2)>>,
   <<T(<<2, 0>>, 1, 2)>>, <<T(<<>>, 1, 1)>>, <<T(<<3>>, 1, 2)>>, <<T(<<1>>, 0, 1)>>}
=============================================================================
