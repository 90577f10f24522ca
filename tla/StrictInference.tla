---------------------------- MODULE StrictInference ----------------------------
(***************************************************************************)
(* The hip_managed_strict path of OnnxInferenceCore (RunInference and      *)
(* RunStrictManagedInference in onnx_inference_core.cpp): one frame at a   *)
(* time, under the node's inference mutex, leases its inputs, reserves one *)
(* block per output from that output's pool with one deadline for all of   *)
(* them, lets ONNX Runtime write into the blocks, and hands them on.       *)
(*                                                                         *)
(* A pool is what FixedPool shows it to be, blocks that are free or not.   *)
(* A reservation is the buffer of a block with its                         *)
(* SynchronizedWriteHandle, and ends as ManagedBuffer says: a cancelled or *)
(* a finalized buffer goes back to its pool with its last reference, a     *)
(* failed one never does.  ONNX Runtime and the device are external.       *)
(***************************************************************************)
EXTENDS Naturals

CONSTANTS
  NumOutputs,  \* the outputs of the model, in the order they are reserved
  Capacity     \* managed_pool_capacity, the blocks of each pool

ASSUME StrictAssumption ==
  NumOutputs \in Nat \ {0} /\ Capacity \in Nat \ {0}

Outputs == 1..NumOutputs

VARIABLES
  health,      \* strict_healthy_
  pc,          \* where RunStrictManagedInference is
  input,       \* the input buffers of the frame
  resv,        \* the reservation made for each output
  ort,         \* "flying" while ONNX Runtime's work for a frame may be running
  free,        \* blocks in each output's pool
  downstream,  \* blocks that subscribers hold
  lost,        \* blocks orphaned by a failed inference
  spoilt       \* blocks orphaned by a subscriber

poolVars == <<free, downstream, lost, spoilt>>
vars == <<health, pc, input, resv, ort, poolVars>>

None == [o \in Outputs |-> "none"]
Zero == [o \in Outputs |-> 0]

Init ==
  /\ health = "healthy" /\ pc = "idle" /\ input = "absent"
  /\ resv = None /\ ort = "idle"
  /\ free = [o \in Outputs |-> Capacity]
  /\ downstream = Zero /\ lost = Zero /\ spoilt = Zero

-----------------------------------------------------------------------------
(* Endings shared by the error paths.                                       *)

\* cancel_reservations: nothing was submitted, the blocks are fresh again.
CancelAll == resv' = [o \in Outputs |-> IF resv[o] = "writing" THEN "fresh" ELSE resv[o]]

\* fail() on every reservation; one that is finalized already stays so.
FailAll == resv' = [o \in Outputs |-> IF resv[o] = "writing" THEN "failed" ELSE resv[o]]

Throw == pc' = "unwinding"

-----------------------------------------------------------------------------
(* The frame.                                                               *)

\* An unhealthy core refuses the frame at once.
Start ==
  /\ pc = "idle" /\ health = "healthy"
  /\ pc' = "leasing" /\ input' = "message"
  /\ UNCHANGED <<health, resv, ort, poolVars>>

\* The inputs match their contract and are ready, and are leased; or not.
LeaseInputs ==
  /\ pc = "leasing"
  /\ \/ pc' = "reserving" /\ input' = "leased"
     \/ Throw /\ UNCHANGED input
  /\ UNCHANGED <<health, resv, ort, poolVars>>

Unreserved == {o \in Outputs : resv[o] = "none"}

\* Output o is reserved next.
NextOutput(o) == o \in Unreserved /\ \A p \in Unreserved : o <= p

Reserve(o) ==
  /\ pc = "reserving" /\ NextOutput(o) /\ free[o] > 0
  /\ free' = [free EXCEPT ![o] = @ - 1]
  /\ resv' = [resv EXCEPT ![o] = "writing"]
  /\ UNCHANGED <<health, pc, input, ort, downstream, lost, spoilt>>

\* Mutant of ReserveFails: acquire_synchronized, without the deadline.
ReserveFails_NoTimeout ==
  /\ pc = "reserving" /\ \E o \in Outputs : NextOutput(o) /\ free[o] > 0
  /\ CancelAll /\ Throw
  /\ UNCHANGED <<health, input, ort, poolVars>>

\* The deadline passes with a pool still empty, or ONNX Runtime refuses the
\* block that was reserved last.
ReserveFails ==
  /\ pc = "reserving"
  /\ \/ \E o \in Outputs : NextOutput(o) /\ free[o] = 0
     \/ Unreserved # Outputs
  /\ CancelAll /\ Throw
  /\ UNCHANGED <<health, input, ort, poolVars>>

\* BindInput, BindOutput and SynchronizeInputs.
Bind ==
  /\ pc = "reserving" /\ Unreserved = {}
  /\ \/ pc' = "bound" /\ UNCHANGED <<health, resv>>
     \/ health' = "unhealthy" /\ CancelAll /\ Throw
  /\ UNCHANGED <<input, ort, poolVars>>

\* submitted_to_ort is set and Run is called.
Submit ==
  /\ pc = "bound"
  /\ pc' = "running" /\ ort' = "flying"
  /\ UNCHANGED <<health, input, resv, poolVars>>

OrtCompletes ==
  /\ ort = "flying"
  /\ ort' = "idle"
  /\ UNCHANGED <<health, pc, input, resv, poolVars>>

\* Mutant of RunFails: the reservations are cancelled, submitted or not.
RunFails_Cancels ==
  /\ pc = "running"
  /\ health' = "unhealthy" /\ CancelAll /\ Throw
  /\ UNCHANGED <<input, ort, poolVars>>

\* Mutant of RunFails: the core goes on as if nothing had happened.
RunFails_StaysHealthy ==
  /\ pc = "running"
  /\ FailAll /\ Throw
  /\ UNCHANGED <<health, input, ort, poolVars>>

\* Run or SynchronizeOutputs throws, with work submitted or not, done or not;
\* or the outputs turn out not to be what was bound.
RunFails ==
  /\ pc = "running"
  /\ health' = "unhealthy" /\ FailAll /\ Throw
  /\ UNCHANGED <<input, ort, poolVars>>

\* SynchronizeOutputs has returned and every writer is finalized.
Finalize ==
  /\ pc = "running" /\ ort = "idle"
  /\ resv' = [o \in Outputs |-> "ready"]
  /\ pc' = "finalized"
  /\ UNCHANGED <<health, input, ort, poolVars>>

\* The binding report of the first frame cannot be written: the outputs are
\* dropped, and the core is unhealthy.
ReportFails ==
  /\ pc = "finalized"
  /\ health' = "unhealthy" /\ FailAll /\ Throw
  /\ UNCHANGED <<input, ort, poolVars>>

\* The results are returned and published; reservations and leases end.
Publish ==
  /\ pc = "finalized"
  /\ downstream' = [o \in Outputs |-> downstream[o] + 1]
  /\ resv' = None /\ pc' = "idle" /\ input' = "absent"
  /\ UNCHANGED <<health, ort, free, lost, spoilt>>

\* Mutant of Unwind: the blocks of a failed frame are not given up.
Unwind_KeepsBlocks ==
  /\ pc = "unwinding"
  /\ resv' = None /\ pc' = "idle" /\ input' = "absent"
  /\ UNCHANGED <<health, ort, poolVars>>

\* The exception leaves the frame: the buffers of the reservations, and the
\* input leases and the message, are destroyed.  Publishing may fail as well.
Unwind ==
  /\ pc \in {"unwinding", "finalized"}
  /\ free' = [o \in Outputs |-> free[o] + (IF resv[o] \in {"fresh", "ready"} THEN 1 ELSE 0)]
  /\ lost' = [o \in Outputs |-> lost[o] + (IF resv[o] = "failed" THEN 1 ELSE 0)]
  /\ resv' = None /\ pc' = "idle" /\ input' = "absent"
  /\ UNCHANGED <<health, ort, downstream, spoilt>>

\* A subscriber lets go of an output; it may have failed to record an event
\* for what it did with it.
Consume(o) ==
  /\ downstream[o] > 0
  /\ downstream' = [downstream EXCEPT ![o] = @ - 1]
  /\ \/ free' = [free EXCEPT ![o] = @ + 1] /\ UNCHANGED spoilt
     \/ spoilt' = [spoilt EXCEPT ![o] = @ + 1] /\ UNCHANGED free
  /\ UNCHANGED <<health, pc, input, resv, ort, lost>>

-----------------------------------------------------------------------------
CoreStep ==
  \/ LeaseInputs \/ (\E o \in Outputs : Reserve(o)) \/ ReserveFails \/ Bind \/ Submit
  \/ RunFails \/ Finalize \/ ReportFails \/ Publish \/ Unwind

Next == Start \/ CoreStep \/ OrtCompletes \/ \E o \in Outputs : Consume(o)

Spec == Init /\ [][Next]_vars

\* The callback's thread runs, and submitted work completes.  Subscribers are
\* not obliged to let go of anything.
FairSpec == Spec /\ WF_vars(CoreStep) /\ WF_vars(OrtCompletes)

-----------------------------------------------------------------------------
(* Properties.                                                              *)

\* Every variable has its type.
TypeOK ==
  /\ health \in {"healthy", "unhealthy"}
  /\ pc \in {"idle", "leasing", "reserving", "bound", "running", "finalized", "unwinding"}
  /\ input \in {"absent", "message", "leased"}
  /\ resv \in [Outputs -> {"none", "writing", "ready", "fresh", "failed"}]
  /\ ort \in {"idle", "flying"}
  /\ \A n \in {free, downstream, lost, spoilt} : n \in [Outputs -> 0..Capacity]

\* Whatever fails, and wherever, no block gets lost on the way between a pool,
\* a frame, the subscribers and the orphans.
BlocksAccountedFor ==
  \A o \in Outputs :
    free[o] + downstream[o] + lost[o] + spoilt[o]
      + (IF resv[o] = "none" THEN 0 ELSE 1) = Capacity

\* While ONNX Runtime may be writing, its blocks are neither back in their
\* pools nor with a subscriber: they are reserved by the frame, not cancelled
\* and not ready, or they are orphans.
OutputsKeptFromOrt ==
  ort = "flying" => \A o \in Outputs :
    \/ resv[o] \in {"writing", "failed"}
    \/ resv[o] = "none" /\ lost[o] > 0

\* Inference costs a pool at most one block in the life of the core: what a
\* frame loses makes the core unhealthy, and an unhealthy core takes no frame.
LossIsBounded ==
  \A o \in Outputs : lost[o] <= 1 /\ (lost[o] = 1 => health = "unhealthy")

\* Only a submitted frame loses blocks: an exhausted pool, a deadline that
\* passes or a refused binding gives every reservation back.
LossNeedsSubmission ==
  [][ (\E o \in Outputs : resv'[o] = "failed" /\ resv[o] # "failed") => pc = "running" ]_vars

\* The input buffers are held until ONNX Runtime no longer reads them.
InputsKeptUntilOrtIsDone == ort = "flying" => input = "leased"

\* Every frame comes to an end, even if the subscribers keep all the blocks.
FramesEnd == pc # "idle" ~> pc = "idle"

=============================================================================
