--------------------------- MODULE CompatInference ---------------------------
(***************************************************************************)
(* The path of OnnxInferenceCore::RunInference other than the strict one,  *)
(* with device output (onnx_inference_core.cpp).  Outputs whose metadata   *)
(* has a static shape get a buffer of their own each, which ONNX Runtime   *)
(* is to write into; the others are left to ONNX Runtime's allocator.      *)
(* When a buffer cannot be made or bound, all are given up, in an order    *)
(* the code is careful about, and the frame goes on without them.          *)
(*                                                                         *)
(* A buffer ends as ManagedBuffer says: with its last reference a          *)
(* cancelled or a finalized one is freed, and a failed one is orphaned, as *)
(* is one whose handle was never ended.  The CUDA provider's path makes no *)
(* buffer of its own and is left out, and so is output to the host.  ONNX  *)
(* Runtime and the device are external.                                    *)
(***************************************************************************)
EXTENDS Naturals

CONSTANTS
  NumOutputs,  \* the outputs of the model, in the order they are bound
  Static       \* the outputs whose metadata has a static shape

Outputs == 1..NumOutputs

ASSUME CompatAssumption == NumOutputs \in Nat \ {0} /\ Static \subseteq Outputs

VARIABLES
  pc,         \* where RunInference is
  next,       \* the output that the loop is at
  buf,        \* the buffer made for each output, and what became of it
  kept,       \* outputs in managed_output_buffers and managed_output_writers
  values,     \* outputs with a value in bound_output_values
  bound,      \* what the IoBinding has for each output, while there is one
  submitted,  \* may_have_submitted
  ort,        \* "flying" while the work submitted by the frame may be running
  targets,    \* outputs whose buffers that work writes into
  results     \* where each published tensor is

bindingVars == <<values, bound>>
ortVars == <<submitted, ort, targets>>
vars == <<pc, next, buf, kept, bindingVars, ortVars, results>>

Nowhere == [o \in Outputs |-> "none"]

Init ==
  /\ pc = "idle" /\ next = 1
  /\ buf = Nowhere /\ kept = {} /\ values = {} /\ bound = Nowhere
  /\ submitted = FALSE /\ ort = "idle" /\ targets = {}
  /\ results = Nowhere

-----------------------------------------------------------------------------
(* Buffers and their handles.                                               *)

\* cancel_managed_output_writers, and fail() on each writer.
Cancelled(S) == [o \in Outputs |-> IF o \in S /\ buf[o] = "writing" THEN "fresh" ELSE buf[o]]
Failed(S) == [o \in Outputs |-> IF o \in S /\ buf[o] = "writing" THEN "failed" ELSE buf[o]]

\* What the last reference makes of a buffer.
Dropped(b) ==
  CASE b \in {"fresh", "ready"} -> "freed"
    [] b \in {"writing", "failed"} -> "orphaned"
    [] OTHER -> b

-----------------------------------------------------------------------------
(* Preallocation.                                                           *)

\* The inputs are leased or copied, and bound.  What an earlier frame's work
\* may still write is orphaned, and no longer this frame's affair.
Start ==
  /\ pc = "idle"
  /\ pc' = "allocating" /\ next' = 1 /\ results' = Nowhere
  /\ buf' = Nowhere /\ kept' = {} /\ values' = {} /\ bound' = Nowhere
  /\ submitted' = FALSE /\ ort' = "idle" /\ targets' = {}

AtOutput(o) == pc = "allocating" /\ o = next

\* An output of dynamic shape is left to ONNX Runtime.
BindDynamic(o) ==
  /\ AtOutput(o) /\ o \notin Static
  /\ bound' = [bound EXCEPT ![o] = "ort"]
  /\ next' = next + 1
  /\ UNCHANGED <<pc, buf, kept, values, ortVars, results>>

\* allocate, get_write_handle, CreateTensor over the block, BindOutput.
Preallocate(o) ==
  /\ AtOutput(o) /\ o \in Static
  /\ buf' = [buf EXCEPT ![o] = "writing"]
  /\ kept' = kept \union {o} /\ values' = values \union {o}
  /\ bound' = [bound EXCEPT ![o] = "own"]
  /\ next' = next + 1
  /\ UNCHANGED <<pc, ortVars, results>>

\* Mutant of PreallocateFails: the inner handler only throws on.
PreallocateFails_Leaves(o) ==
  /\ AtOutput(o) /\ o \in Static
  /\ \/ UNCHANGED <<buf, kept, values>>
     \/ /\ buf' = [buf EXCEPT ![o] = "orphaned"]
        /\ values' \in {values, values \union {o}} /\ UNCHANGED kept
     \/ /\ buf' = [buf EXCEPT ![o] = "writing"]
        /\ kept' = kept \union {o} /\ values' = values \union {o}
  /\ pc' = "cancelling"
  /\ UNCHANGED <<next, bound, ortVars, results>>

\* There is no memory; or the value cannot be made, or is elsewhere, and the
\* writer is cancelled by the inner handler and goes with its buffer; or
\* BindOutput throws.
PreallocateFails(o) ==
  /\ AtOutput(o) /\ o \in Static
  /\ \/ UNCHANGED <<buf, kept, values>>
     \/ /\ buf' = [buf EXCEPT ![o] = "freed"]
        /\ values' \in {values, values \union {o}} /\ UNCHANGED kept
     \/ /\ buf' = [buf EXCEPT ![o] = "writing"]
        /\ kept' = kept \union {o} /\ values' = values \union {o}
  /\ pc' = "cancelling"
  /\ UNCHANGED <<next, bound, ortVars, results>>

\* BindOutput throws for an output of dynamic shape.
BindDynamicFails(o) ==
  /\ AtOutput(o) /\ o \notin Static
  /\ pc' = "cancelling"
  /\ UNCHANGED <<next, buf, kept, bindingVars, ortVars, results>>

-----------------------------------------------------------------------------
(* The fallback: writers, binding, values and buffers go, in this order.    *)

CancelWriters ==
  /\ pc = "cancelling"
  /\ buf' = Cancelled(kept)
  /\ pc' = "unbinding"
  /\ UNCHANGED <<next, kept, bindingVars, ortVars, results>>

\* Mutant of ResetBinding: the buffers go first.
ResetBinding_Last ==
  /\ pc = "unbinding"
  /\ buf' = [o \in Outputs |-> IF o \in kept THEN Dropped(buf[o]) ELSE buf[o]]
  /\ kept' = {}
  /\ pc' = "clearing"
  /\ UNCHANGED <<next, bindingVars, ortVars, results>>

ResetBinding ==
  /\ pc = "unbinding"
  /\ bound' = Nowhere
  /\ pc' = "clearing"
  /\ UNCHANGED <<next, buf, kept, values, ortVars, results>>

ClearValues ==
  /\ pc = "clearing"
  /\ values' = {}
  /\ buf' = [o \in Outputs |-> IF o \in kept THEN Dropped(buf[o]) ELSE buf[o]]
  /\ kept' = {}
  /\ pc' = "rebinding"
  /\ UNCHANGED <<next, bound, ortVars, results>>

\* A new binding leaves every output to ONNX Runtime.
Rebind ==
  /\ pc = "rebinding"
  /\ bound' = [o \in Outputs |-> "ort"]
  /\ pc' = "bound"
  /\ UNCHANGED <<next, buf, kept, values, ortVars, results>>

-----------------------------------------------------------------------------
(* The inference.                                                           *)

\* Every output has been bound.
Bound ==
  /\ pc = "allocating" /\ next > NumOutputs
  /\ pc' = "bound"
  /\ UNCHANGED <<next, buf, kept, bindingVars, ortVars, results>>

\* An exception destroys the binding on its way to the handler.
Throw == pc' = "throwing" /\ bound' = Nowhere

\* A binding, the first or the new one, cannot be made, or SynchronizeInputs
\* throws.
BindFails ==
  /\ pc \in {"rebinding", "bound"} \/ (pc = "allocating" /\ bound = Nowhere)
  /\ Throw
  /\ UNCHANGED <<next, buf, kept, values, ortVars, results>>

\* may_have_submitted is set and Run is called.
Submit ==
  /\ pc = "bound"
  /\ submitted' = TRUE /\ ort' = "flying"
  /\ targets' = {o \in Outputs : bound[o] = "own"}
  /\ pc' = "running"
  /\ UNCHANGED <<next, buf, kept, bindingVars, results>>

OrtCompletes ==
  /\ ort = "flying"
  /\ ort' = "idle"
  /\ UNCHANGED <<pc, next, buf, kept, bindingVars, submitted, targets, results>>

\* Run or SynchronizeOutputs throws, with the work done or not.
RunFails ==
  /\ pc = "running"
  /\ Throw
  /\ UNCHANGED <<next, buf, kept, values, ortVars, results>>

\* SynchronizeOutputs has returned, every writer is finalized, and the values
\* are taken from the binding, which ends here.
Finalize ==
  /\ pc = "running" /\ ort = "idle"
  /\ buf' = [o \in Outputs |-> IF o \in kept THEN "ready" ELSE buf[o]]
  /\ bound' = Nowhere
  /\ pc' = "materializing"
  /\ UNCHANGED <<next, kept, values, ortVars, results>>

\* finalize() throws at one writer; those before it are finalized, and it
\* is failed.
FinalizeFails ==
  /\ pc = "running" /\ ort = "idle"
  /\ \E o \in kept :
       buf' = [p \in Outputs |->
                IF p \in kept /\ p < o THEN "ready" ELSE IF p = o THEN "failed" ELSE buf[p]]
  /\ Throw
  /\ UNCHANGED <<next, kept, values, ortVars, results>>

\* The outputs are not the ones that were bound.
OutputsMismatch ==
  /\ pc = "running" /\ ort = "idle"
  /\ buf' = [o \in Outputs |-> IF o \in kept THEN "ready" ELSE buf[o]]
  /\ Throw
  /\ UNCHANGED <<next, kept, values, ortVars, results>>

\* Each output is leased, in its own buffer or in one that adopts ONNX
\* Runtime's; the report is written, the tensors are returned and published,
\* and the frame's own references go.
Publish ==
  /\ pc = "materializing"
  /\ \A o \in kept : buf[o] = "ready"
  /\ results' = [o \in Outputs |-> IF o \in kept THEN "own" ELSE "ort"]
  /\ kept' = {} /\ values' = {}
  /\ pc' = "idle"
  /\ UNCHANGED <<next, buf, bound, ortVars>>

\* A pointer is not what it should be, or the report cannot be written.
PublishFails ==
  /\ pc = "materializing"
  /\ pc' = "leaving"
  /\ UNCHANGED <<next, buf, kept, bindingVars, ortVars, results>>

\* The handler around the inference.
Handle ==
  /\ pc = "throwing"
  /\ buf' = IF submitted THEN Failed(kept) ELSE Cancelled(kept)
  /\ pc' = "leaving"
  /\ UNCHANGED <<next, kept, bindingVars, ortVars, results>>

\* The exception leaves RunInference, and its locals are destroyed.
Leave ==
  /\ pc = "leaving"
  /\ values' = {}
  /\ buf' = [o \in Outputs |-> IF o \in kept THEN Dropped(buf[o]) ELSE buf[o]]
  /\ kept' = {}
  /\ pc' = "idle"
  /\ UNCHANGED <<next, bound, ortVars, results>>

\* A subscriber lets go of a published buffer.
Consume(o) ==
  /\ results[o] = "own"
  /\ results' = [results EXCEPT ![o] = "none"]
  /\ buf' = [buf EXCEPT ![o] = Dropped(@)]
  /\ UNCHANGED <<pc, next, kept, bindingVars, ortVars>>

-----------------------------------------------------------------------------
Next ==
  \/ Start \/ CancelWriters \/ ResetBinding \/ ClearValues \/ Rebind \/ Bound \/ BindFails
  \/ Submit \/ RunFails \/ Finalize \/ FinalizeFails \/ OutputsMismatch
  \/ Publish \/ PublishFails \/ Handle \/ Leave \/ OrtCompletes
  \/ \E o \in Outputs :
       BindDynamic(o) \/ BindDynamicFails(o) \/ Preallocate(o) \/ PreallocateFails(o) \/ Consume(o)

Spec == Init /\ [][Next]_vars

-----------------------------------------------------------------------------
(* Properties.                                                              *)

\* Every variable has its type, and a frame's references end with the frame.
TypeOK ==
  /\ pc \in {"idle", "allocating", "cancelling", "unbinding", "clearing", "rebinding",
             "bound", "running", "materializing", "throwing", "leaving"}
  /\ next \in 1..(NumOutputs + 1)
  /\ buf \in [Outputs ->
       {"none", "writing", "fresh", "ready", "failed", "freed", "orphaned"}]
  /\ kept \subseteq Static /\ values \subseteq Static /\ targets \subseteq Static
  /\ bound \in [Outputs -> {"none", "own", "ort"}]
  /\ submitted \in BOOLEAN /\ ort \in {"idle", "flying"}
  /\ results \in [Outputs -> {"none", "own", "ort"}]
  /\ pc = "idle" => kept = {} /\ values = {} /\ bound = Nowhere

\* ONNX Runtime has a buffer while a binding refers to it or submitted work
\* may write into it.
OrtHas(o) == bound[o] = "own" \/ (ort = "flying" /\ o \in targets)

\* What ONNX Runtime has is alive, and is not published: neither the fallback
\* nor the error paths take a buffer from under a binding or under its work.
OrtKeepsItsBuffers ==
  \A o \in Outputs : OrtHas(o) => buf[o] \notin {"none", "freed"} /\ results[o] # "own"

\* A frame that fails before the submission, and a fallback, free every
\* buffer; device memory is given up only for what may have been submitted.
OrphanNeedsSubmission ==
  \A o \in Outputs : buf[o] \in {"failed", "orphaned"} => submitted /\ o \in targets

=============================================================================
