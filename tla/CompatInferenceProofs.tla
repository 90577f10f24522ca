------------------------ MODULE CompatInferenceProofs ------------------------
(***************************************************************************)
(* Proofs about CompatInference, for any number of outputs of which any    *)
(* are static.                                                             *)
(***************************************************************************)
EXTENDS CompatInference, TLAPS

BeforeSubmission ==
  {"allocating", "cancelling", "unbinding", "clearing", "rebinding", "bound"}

\* The submission divides a frame, and what it submitted is what it kept.
Phases ==
  /\ ort = "flying" => submitted
  /\ pc \in BeforeSubmission => ~submitted
  /\ pc \in {"running", "materializing"} => submitted
  /\ pc = "materializing" => ort = "idle"
  /\ pc = "allocating" => \A o \in kept : o < next
  /\ pc = "rebinding" => kept = {}
  /\ pc \in {"materializing", "throwing", "leaving"} => bound = Nowhere
  /\ submitted /\ pc # "idle" => kept = targets

\* A binding refers to buffers the frame keeps, and to all of them once it is
\* complete.
BindingsAreKept ==
  \A o \in Outputs :
    /\ bound[o] = "own" =>
         o \in kept /\ pc \in {"allocating", "cancelling", "unbinding", "bound", "running"}
    /\ pc \in {"allocating", "bound", "running"} /\ o \in kept => bound[o] = "own"

\* What a buffer of the frame may have become.
KeptState(o) ==
  /\ pc # "idle"
  /\ pc \in {"allocating", "cancelling", "bound", "running"} => buf[o] = "writing"
  /\ pc \in {"unbinding", "clearing"} => buf[o] = "fresh"
  /\ pc = "materializing" => buf[o] = "ready"
  /\ pc = "throwing" /\ ~submitted => buf[o] = "writing"
  /\ pc = "throwing" /\ submitted => buf[o] \in {"writing", "ready", "failed"}
  /\ pc = "leaving" /\ ~submitted => buf[o] = "fresh"
  /\ pc = "leaving" /\ submitted => buf[o] \in {"ready", "failed"}

Buffers ==
  \A o \in Outputs :
    /\ o \in kept => KeptState(o)
    /\ o \notin kept => buf[o] \in {"none", "freed", "orphaned", "ready"}
    /\ buf[o] \in {"failed", "orphaned"} => submitted /\ o \in targets
    /\ ort = "flying" /\ o \in targets =>
         \/ o \in kept /\ buf[o] \in {"writing", "failed"}
         \/ buf[o] = "orphaned"
    /\ results[o] = "own" => pc = "idle" /\ ort = "idle" /\ buf[o] = "ready"

IInv == TypeOK /\ Phases /\ BindingsAreKept /\ Buffers

-----------------------------------------------------------------------------

LEMMA NowhereIsNothing ==
  /\ \A o \in Outputs : Nowhere[o] = "none"
  /\ Nowhere \in [Outputs ->
       {"none", "writing", "fresh", "ready", "failed", "freed", "orphaned"}]
  /\ Nowhere \in [Outputs -> {"none", "own", "ort"}]
BY DEF Nowhere

LEMMA InitInvariant == Init => IInv
<1> SUFFICES ASSUME Init PROVE IInv
  OBVIOUS
<1>1. TypeOK
  <2>1. 1 \in 1..(NumOutputs + 1)
    BY CompatAssumption
  <2>2. QED
    BY <2>1, NowhereIsNothing DEF Init, TypeOK
<1>2. Phases /\ BindingsAreKept /\ Buffers
  BY NowhereIsNothing DEF Init, Phases, BindingsAreKept, Buffers, BeforeSubmission
<1>3. QED
  BY <1>1, <1>2 DEF IInv

LEMMA StartKeeps == ASSUME IInv, Start PROVE IInv'
<1>1. TypeOK'
  <2>1. 1 \in 1..(NumOutputs + 1)
    BY CompatAssumption
  <2>2. /\ pc' = "allocating" /\ next' = 1 /\ results' = Nowhere
        /\ buf' = Nowhere /\ kept' = {} /\ values' = {} /\ bound' = Nowhere
        /\ submitted' = FALSE /\ ort' = "idle" /\ targets' = {}
    BY DEF Start
  <2>3. QED
    BY <2>1, <2>2, NowhereIsNothing DEF TypeOK
<1>2. Phases' /\ BindingsAreKept' /\ Buffers'
  BY NowhereIsNothing DEF Start, Phases, BindingsAreKept, Buffers, BeforeSubmission
<1>3. QED
  BY <1>1, <1>2 DEF IInv

LEMMA AllocatingKeeps ==
  ASSUME IInv, NEW o \in Outputs,
         BindDynamic(o) \/ BindDynamicFails(o) \/ Preallocate(o) \/ PreallocateFails(o)
  PROVE  IInv'
<1> USE CompatAssumption DEF IInv, TypeOK, Phases, BindingsAreKept, Buffers, KeptState,
      BeforeSubmission, AtOutput, Outputs, ortVars, bindingVars
<1>1. CASE BindDynamic(o)
  BY <1>1 DEF BindDynamic
<1>2. CASE BindDynamicFails(o)
  BY <1>2 DEF BindDynamicFails
<1>3. CASE Preallocate(o)
  BY <1>3 DEF Preallocate
<1>4. CASE PreallocateFails(o)
  <2>1. CASE UNCHANGED <<buf, kept, values>>
    BY <1>4, <2>1 DEF PreallocateFails
  <2>2. CASE /\ buf' = [buf EXCEPT ![o] = "freed"]
             /\ values' \in {values, values \union {o}} /\ UNCHANGED kept
    <3>1. o \notin kept
      BY <1>4 DEF PreallocateFails
    <3>2. QED
      BY <1>4, <2>2, <3>1 DEF PreallocateFails
  <2>3. CASE /\ buf' = [buf EXCEPT ![o] = "writing"]
             /\ kept' = kept \union {o} /\ values' = values \union {o}
    BY <1>4, <2>3 DEF PreallocateFails
  <2>4. QED
    BY <1>4, <2>1, <2>2, <2>3 DEF PreallocateFails
<1>5. QED
  BY <1>1, <1>2, <1>3, <1>4

LEMMA FallbackKeeps ==
  ASSUME IInv, CancelWriters \/ ResetBinding \/ ClearValues \/ Rebind
  PROVE  IInv'
<1> USE CompatAssumption DEF IInv, TypeOK, Phases, BindingsAreKept, Buffers, KeptState,
      BeforeSubmission, Nowhere, ortVars, bindingVars
<1>1. CASE CancelWriters
  BY <1>1 DEF CancelWriters, Cancelled
<1>2. CASE ResetBinding
  BY <1>2 DEF ResetBinding
<1>3. CASE ClearValues
  BY <1>3 DEF ClearValues, Dropped
<1>4. CASE Rebind
  <2>1. /\ bound' \in [Outputs -> {"none", "own", "ort"}]
        /\ \A o \in Outputs : bound'[o] = "ort"
    BY <1>4 DEF Rebind
  <2>2. /\ pc = "rebinding" /\ pc' = "bound"
        /\ UNCHANGED <<next, buf, kept, values, submitted, ort, targets, results>>
    BY <1>4 DEF Rebind
  <2>3. QED
    BY <2>1, <2>2
<1>5. QED
  BY <1>1, <1>2, <1>3, <1>4

LEMMA InferenceKeeps ==
  ASSUME IInv,
         Bound \/ BindFails \/ Submit \/ OrtCompletes \/ RunFails \/ Finalize \/ FinalizeFails
           \/ OutputsMismatch
  PROVE  IInv'
<1> USE CompatAssumption DEF IInv, TypeOK, Phases, BindingsAreKept, Buffers, KeptState,
      BeforeSubmission, Nowhere, ortVars, bindingVars, Throw
<1>1. CASE Bound
  BY <1>1 DEF Bound
<1>2. CASE BindFails
  BY <1>2 DEF BindFails
<1>3. CASE Submit
  <2>1. targets' = kept
    BY <1>3 DEF Submit, Outputs
  <2>2. QED
    BY <1>3, <2>1 DEF Submit
<1>4. CASE OrtCompletes
  BY <1>4 DEF OrtCompletes
<1>5. CASE RunFails
  BY <1>5 DEF RunFails
<1>6. CASE Finalize
  BY <1>6 DEF Finalize
<1>7. CASE FinalizeFails
  BY <1>7 DEF FinalizeFails
<1>8. CASE OutputsMismatch
  BY <1>8 DEF OutputsMismatch
<1>9. QED
  BY <1>1, <1>2, <1>3, <1>4, <1>5, <1>6, <1>7, <1>8

LEMMA EndKeeps ==
  ASSUME IInv,
         Publish \/ PublishFails \/ Handle \/ Leave \/ \E o \in Outputs : Consume(o)
  PROVE  IInv'
<1> USE CompatAssumption DEF IInv, TypeOK, Phases, BindingsAreKept, Buffers, KeptState,
      BeforeSubmission, ortVars, bindingVars
<1>1. CASE Publish
  <2>1. /\ results' \in [Outputs -> {"none", "own", "ort"}]
        /\ \A o \in Outputs : results'[o] = "own" => o \in kept
    BY <1>1 DEF Publish
  <2>2. bound = Nowhere
    BY <1>1 DEF Publish
  <2>3. QED
    BY <1>1, <2>1, <2>2 DEF Publish
<1>2. CASE PublishFails
  BY <1>2 DEF PublishFails
<1>3. CASE Handle
  BY <1>3 DEF Handle, Failed, Cancelled
<1>4. CASE Leave
  <2>1. \A o \in Outputs : buf'[o] = IF o \in kept THEN Dropped(buf[o]) ELSE buf[o]
    BY <1>4 DEF Leave
  <2>2. \A o \in Outputs :
          /\ o \in kept => buf'[o] \in {"freed", "orphaned"}
          /\ o \in kept /\ buf[o] \in {"fresh", "ready"} => buf'[o] = "freed"
          /\ o \in kept /\ buf[o] = "failed" => buf'[o] = "orphaned"
          /\ o \notin kept => buf'[o] = buf[o]
    BY <1>4, <2>1 DEF Leave, Dropped
  <2>3. TypeOK'
    BY <1>4, <2>1, <2>2 DEF Leave
  <2>4. QED
    BY <1>4, <2>2, <2>3 DEF Leave
<1>5. ASSUME NEW o \in Outputs, Consume(o) PROVE IInv'
  BY <1>5 DEF Consume, Dropped
<1>6. QED
  BY <1>1, <1>2, <1>3, <1>4, <1>5

LEMMA StepInvariant == ASSUME IInv, [Next]_vars PROVE IInv'
<1>1. CASE UNCHANGED vars
  BY <1>1 DEF vars, bindingVars, ortVars, IInv, TypeOK, Phases, BindingsAreKept, Buffers,
     KeptState
<1>2. QED
  BY <1>1, StartKeeps, AllocatingKeeps, FallbackKeeps, InferenceKeeps, EndKeeps DEF Next

-----------------------------------------------------------------------------

\* The inductive invariant holds in every reachable state of the compat path.
THEOREM Invariance == Spec => []IInv
<1>1. Init => IInv
  BY InitInvariant
<1>2. IInv /\ [Next]_vars => IInv'
  BY StepInvariant
<1>3. QED
  BY <1>1, <1>2, PTL DEF Spec

\* Every variable of the compat path keeps its type, and no reference of a frame
\* outlives it.
THEOREM TypeCorrect == Spec => []TypeOK
<1>1. IInv => TypeOK
  BY DEF IInv
<1>2. QED
  BY <1>1, Invariance, PTL

\* No buffer is freed or published while a binding refers to it or submitted
\* work may write into it, wherever the fallback begins.
THEOREM OrtKeepsBuffers == Spec => []OrtKeepsItsBuffers
<1>1. IInv => OrtKeepsItsBuffers
  <2> SUFFICES ASSUME IInv, NEW o \in Outputs, OrtHas(o)
               PROVE  buf[o] \notin {"none", "freed"} /\ results[o] # "own"
    BY DEF OrtKeepsItsBuffers
  <2>1. CASE bound[o] = "own"
    BY <2>1 DEF IInv, BindingsAreKept, Buffers, KeptState
  <2>2. CASE ort = "flying" /\ o \in targets
    BY <2>2 DEF IInv, Buffers
  <2>3. QED
    BY <2>1, <2>2 DEF OrtHas
<1>2. QED
  BY <1>1, Invariance, PTL

\* Device memory is given up only for what the frame may have submitted.
THEOREM OrphansWereSubmitted == Spec => []OrphanNeedsSubmission
<1>1. IInv => OrphanNeedsSubmission
  BY DEF IInv, Buffers, OrphanNeedsSubmission
<1>2. QED
  BY <1>1, Invariance, PTL
=============================================================================
