------------------------ MODULE StrictInferenceProofs ------------------------
(***************************************************************************)
(* Theorems about StrictInference, for any number of outputs and any       *)
(* capacity of their pools: blocks are accounted for, ONNX Runtime keeps   *)
(* what it may write into, and what a failure costs is bounded.            *)
(***************************************************************************)
EXTENDS StrictInference, TLAPS

USE StrictAssumption
USE DEF poolVars

-----------------------------------------------------------------------------
(* The inductive invariant.                                                 *)

\* Where a frame is says what has become of its reservations, and of the work
\* submitted for it or for the frame that broke the core.
FrameState ==
  /\ pc \in {"idle", "leasing"} => \A o \in Outputs : resv[o] = "none"
  /\ pc = "reserving" => \A o \in Outputs : resv[o] \in {"none", "writing"}
  /\ pc \in {"bound", "running"} => \A o \in Outputs : resv[o] = "writing"
  /\ pc = "finalized" => \A o \in Outputs : resv[o] = "ready"
  /\ pc = "unwinding" =>
       \/ \A o \in Outputs : resv[o] \in {"none", "fresh"}
       \/ \A o \in Outputs : resv[o] = "ready"
       \/ (\A o \in Outputs : resv[o] = "failed") /\ health = "unhealthy"
  /\ ort = "flying" =>
       \/ pc = "running"
       \/ pc = "unwinding" /\ \A o \in Outputs : resv[o] = "failed"
       \/ pc = "idle" /\ health = "unhealthy" /\ \A o \in Outputs : lost[o] > 0

\* A core that has lost a block takes no frame any more.
LossEndsService ==
  /\ pc # "idle" => \A o \in Outputs : lost[o] = 0
  /\ pc \in {"leasing", "reserving", "bound", "running", "finalized"} => health = "healthy"

IInv ==
  /\ TypeOK
  /\ BlocksAccountedFor
  /\ FrameState
  /\ LossEndsService
  /\ LossIsBounded

\* Counters that add up to the capacity do not exceed it.
LEMMA AccountsBoundCounters ==
  ASSUME NEW f \in [Outputs -> Nat], NEW d \in [Outputs -> Nat],
         NEW l \in [Outputs -> Nat], NEW s \in [Outputs -> Nat],
         \A o \in Outputs : f[o] + d[o] + l[o] + s[o] <= Capacity
  PROVE  /\ f \in [Outputs -> 0..Capacity] /\ d \in [Outputs -> 0..Capacity]
         /\ l \in [Outputs -> 0..Capacity] /\ s \in [Outputs -> 0..Capacity]
<1>1. ASSUME NEW o \in Outputs
      PROVE  /\ f[o] \in 0..Capacity /\ d[o] \in 0..Capacity
             /\ l[o] \in 0..Capacity /\ s[o] \in 0..Capacity
  <2>1. f[o] \in Nat /\ d[o] \in Nat /\ l[o] \in Nat /\ s[o] \in Nat
    BY <1>1
  <2>2. f[o] + d[o] + l[o] + s[o] <= Capacity
    BY <1>1
  <2>3. \A a, b, c, e \in Nat : a + b + c + e <= Capacity =>
          a \in 0..Capacity /\ b \in 0..Capacity /\ c \in 0..Capacity /\ e \in 0..Capacity
    OBVIOUS
  <2>4. QED
    BY <2>1, <2>2, <2>3
<1>2. QED
  BY <1>1

\* The types of the counters, one by one.
LEMMA CounterTypes ==
  TypeOK => /\ free \in [Outputs -> Nat] /\ downstream \in [Outputs -> Nat]
            /\ lost \in [Outputs -> Nat] /\ spoilt \in [Outputs -> Nat]
<1>1. TypeOK => /\ free \in [Outputs -> 0..Capacity] /\ downstream \in [Outputs -> 0..Capacity]
                /\ lost \in [Outputs -> 0..Capacity] /\ spoilt \in [Outputs -> 0..Capacity]
  BY Zenon DEF TypeOK
<1>2. \A f : f \in [Outputs -> 0..Capacity] => f \in [Outputs -> Nat]
  OBVIOUS
<1>3. QED
  BY <1>1, <1>2

\* What the accounts say of one output.
LEMMA Account ==
  ASSUME IInv, NEW o \in Outputs
  PROVE  /\ free[o] \in Nat /\ downstream[o] \in Nat /\ lost[o] \in Nat /\ spoilt[o] \in Nat
         /\ free[o] + downstream[o] + lost[o] + spoilt[o]
              + (IF resv[o] = "none" THEN 0 ELSE 1) = Capacity
BY CounterTypes DEF IInv, BlocksAccountedFor

\* A step that leaves the pools alone, and takes no reservation away and makes
\* none, changes none of the accounts.
LEMMA AccountsUnchanged ==
  ASSUME IInv, UNCHANGED poolVars,
         \A o \in Outputs : resv'[o] = "none" <=> resv[o] = "none",
         health' \in {"healthy", "unhealthy"},
         health = "unhealthy" => health' = "unhealthy"
  PROVE  BlocksAccountedFor' /\ LossIsBounded'
BY DEF IInv, BlocksAccountedFor, LossIsBounded

\* The frame's steps before its outputs are handed on.
LEMMA FrameKeeps ==
  ASSUME IInv,
         \/ Start \/ LeaseInputs \/ (\E o \in Outputs : Reserve(o)) \/ ReserveFails
         \/ Bind \/ Submit \/ OrtCompletes \/ RunFails \/ Finalize \/ ReportFails
  PROVE  IInv'
<1> USE DEF IInv, Throw
<1> DEFINE Stays == /\ UNCHANGED poolVars
                    /\ \A o \in Outputs : resv'[o] = "none" <=> resv[o] = "none"
                    /\ health' \in {"healthy", "unhealthy"}
                    /\ health = "unhealthy" => health' = "unhealthy"
           Rest  == TypeOK' /\ FrameState' /\ LossEndsService'
<1>0. ASSUME Stays, Rest PROVE IInv'
  BY <1>0, AccountsUnchanged
<1> HIDE DEF Stays, Rest
<1>1. CASE Start
  <2>1. Stays
    BY <1>1 DEF Start, Stays, TypeOK
  <2>2. Rest
    BY <1>1 DEF Start, Rest, TypeOK, FrameState, LossEndsService, LossIsBounded
  <2>3. QED
    BY <2>1, <2>2, <1>0
<1>2. CASE LeaseInputs
  <2>1. Stays
    BY <1>2 DEF LeaseInputs, Stays, TypeOK
  <2>2. Rest
    BY <1>2 DEF LeaseInputs, Rest, TypeOK, FrameState, LossEndsService
  <2>3. QED
    BY <2>1, <2>2, <1>0
<1>3. ASSUME NEW o \in Outputs, Reserve(o) PROVE IInv'
  <2> USE <1>3 DEF Reserve, NextOutput, Unreserved
  <2>1. TypeOK'
    <3>1. free' \in [Outputs -> 0..Capacity]
      <4>1. free \in [Outputs -> 0..Capacity]
        BY Zenon DEF TypeOK
      <4>2. free[o] - 1 \in 0..Capacity
        BY <4>1
      <4>3. QED
        BY <4>1, <4>2
    <3>2. resv' \in [Outputs -> {"none", "writing", "ready", "fresh", "failed"}]
      BY DEF TypeOK
    <3>3. QED
      BY <3>1, <3>2 DEF TypeOK
  <2>2. BlocksAccountedFor'
    <3>1. ASSUME NEW p \in Outputs
          PROVE  free'[p] + downstream'[p] + lost'[p] + spoilt'[p]
                   + (IF resv'[p] = "none" THEN 0 ELSE 1) = Capacity
      <4>1. free[p] \in Nat /\ downstream[p] \in Nat /\ lost[p] \in Nat /\ spoilt[p] \in Nat
        BY <3>1, Account
      <4>2. free[p] + downstream[p] + lost[p] + spoilt[p]
              + (IF resv[p] = "none" THEN 0 ELSE 1) = Capacity
        BY <3>1, Account
      <4>0. /\ free \in [Outputs -> Nat] /\ DOMAIN resv = Outputs /\ resv[o] = "none"
        BY CounterTypes DEF TypeOK
      <4>3. CASE p = o
        BY <4>0, <4>1, <4>2, <4>3
      <4>4. CASE p # o
        BY <4>0, <4>1, <4>2, <4>4, <3>1
      <4>5. QED
        BY <4>3, <4>4
    <3>2. QED
      BY <3>1 DEF BlocksAccountedFor
  <2>3. FrameState'
    BY DEF TypeOK, FrameState
  <2>4. LossEndsService' /\ LossIsBounded'
    BY DEF TypeOK, LossEndsService, LossIsBounded
  <2>5. QED
    BY <2>1, <2>2, <2>3, <2>4
<1>4. CASE ReserveFails
  <2>0. pc = "reserving" /\ CancelAll /\ pc' = "unwinding"
        /\ UNCHANGED <<health, input, ort, poolVars>>
    BY <1>4 DEF ReserveFails
  <2>1. Stays
    BY <2>0 DEF CancelAll, Stays, TypeOK
  <2>2. Rest
    BY <2>0 DEF CancelAll, Rest, TypeOK, FrameState, LossEndsService
  <2>3. QED
    BY <2>1, <2>2, <1>0
<1>5. CASE Bind
  <2>1. CASE pc' = "bound" /\ UNCHANGED <<health, resv>>
    <3>1. Stays
      BY <1>5, <2>1 DEF Bind, Stays, TypeOK
    <3>2. Rest
      BY <1>5, <2>1 DEF Bind, Rest, TypeOK, FrameState, LossEndsService, Unreserved
    <3>3. QED
      BY <3>1, <3>2, <1>0
  <2>2. CASE health' = "unhealthy" /\ CancelAll /\ Throw
    <3>1. Stays
      BY <1>5, <2>2 DEF Bind, Stays, TypeOK, CancelAll
    <3>2. Rest
      BY <1>5, <2>2 DEF Bind, Rest, TypeOK, FrameState, LossEndsService, CancelAll
    <3>3. QED
      BY <3>1, <3>2, <1>0
  <2>3. QED
    BY <1>5, <2>1, <2>2 DEF Bind
<1>6. CASE Submit
  <2>1. Stays
    BY <1>6 DEF Submit, Stays, TypeOK
  <2>2. Rest
    BY <1>6 DEF Submit, Rest, TypeOK, FrameState, LossEndsService
  <2>3. QED
    BY <2>1, <2>2, <1>0
<1>7. CASE OrtCompletes
  <2>1. Stays
    BY <1>7 DEF OrtCompletes, Stays, TypeOK
  <2>2. Rest
    BY <1>7 DEF OrtCompletes, Rest, TypeOK, FrameState, LossEndsService
  <2>3. QED
    BY <2>1, <2>2, <1>0
<1>8. CASE RunFails
  <2>1. Stays
    BY <1>8 DEF RunFails, FailAll, Stays, TypeOK
  <2>2. Rest
    BY <1>8 DEF RunFails, FailAll, Rest, TypeOK, FrameState, LossEndsService
  <2>3. QED
    BY <2>1, <2>2, <1>0
<1>9. CASE Finalize
  <2>1. Stays
    BY <1>9 DEF Finalize, Stays, TypeOK, FrameState
  <2>2. Rest
    BY <1>9 DEF Finalize, Rest, TypeOK, FrameState, LossEndsService
  <2>3. QED
    BY <2>1, <2>2, <1>0
<1>10. CASE ReportFails
  <2>1. Stays
    BY <1>10 DEF ReportFails, FailAll, Stays, TypeOK
  <2>2. Rest
    BY <1>10 DEF ReportFails, FailAll, Rest, TypeOK, FrameState, LossEndsService
  <2>3. QED
    BY <2>1, <2>2, <1>0
<1>11. QED
  BY <1>1, <1>2, <1>3, <1>4, <1>5, <1>6, <1>7, <1>8, <1>9, <1>10

\* Publishing turns every reservation into a block held downstream.
LEMMA PublishKeeps ==
  ASSUME IInv, Publish
  PROVE  IInv'
<1> USE DEF Publish, None
<1>1. \A o \in Outputs : resv[o] = "ready"
  BY DEF IInv, FrameState
<1>2. ASSUME NEW o \in Outputs
      PROVE  /\ downstream'[o] = downstream[o] + 1 /\ resv'[o] = "none"
             /\ free[o] + (downstream[o] + 1) + lost[o] + spoilt[o] = Capacity
  <2>1. resv[o] # "none"
    BY <1>1, <1>2
  <2>2. QED
    BY <2>1, <1>2, Account
<1>3. BlocksAccountedFor'
  BY <1>2, Account DEF BlocksAccountedFor
<1>4. TypeOK'
  <2>1. downstream' \in [Outputs -> Nat] /\ free \in [Outputs -> Nat]
        /\ lost \in [Outputs -> Nat] /\ spoilt \in [Outputs -> Nat]
    <3>1. \A o \in Outputs : downstream[o] + 1 \in Nat
      BY Account
    <3>2. QED
      BY <3>1, CounterTypes DEF IInv
  <2>2. \A o \in Outputs : free[o] + downstream'[o] + lost[o] + spoilt[o] <= Capacity
    BY <1>2
  <2>3. /\ free \in [Outputs -> 0..Capacity] /\ downstream' \in [Outputs -> 0..Capacity]
        /\ lost \in [Outputs -> 0..Capacity] /\ spoilt \in [Outputs -> 0..Capacity]
    BY <2>1, <2>2, AccountsBoundCounters
  <2>4. resv' \in [Outputs -> {"none", "writing", "ready", "fresh", "failed"}]
    OBVIOUS
  <2>5. QED
    BY <2>3, <2>4 DEF IInv, TypeOK
<1>5. FrameState' /\ LossEndsService' /\ LossIsBounded'
  BY DEF IInv, TypeOK, FrameState, LossEndsService, LossIsBounded
<1>6. QED
  BY <1>3, <1>4, <1>5 DEF IInv

\* When a frame is abandoned, each reservation goes to its pool or is lost.
LEMMA UnwindKeeps ==
  ASSUME IInv, Unwind
  PROVE  IInv'
<1> USE DEF Unwind, None
<1> DEFINE Back(o) == IF resv[o] \in {"fresh", "ready"} THEN 1 ELSE 0
           Gone(o) == IF resv[o] = "failed" THEN 1 ELSE 0
<1>1. ASSUME NEW o \in Outputs
      PROVE  /\ free'[o] = free[o] + Back(o) /\ lost'[o] = lost[o] + Gone(o)
             /\ resv'[o] = "none"
             /\ Back(o) + Gone(o) = IF resv[o] = "none" THEN 0 ELSE 1
  <2>1. resv[o] \in {"none", "fresh", "ready", "failed"}
    BY <1>1 DEF IInv, FrameState
  <2>2. QED
    BY <2>1, <1>1
<1>2. \A o \in Outputs : Back(o) \in 0..1 /\ Gone(o) \in 0..1
  OBVIOUS
<1> HIDE DEF Back, Gone
<1> HIDE DEF Unwind
<1>3. ASSUME NEW o \in Outputs
      PROVE  free'[o] + downstream[o] + lost'[o] + spoilt[o] = Capacity
  <2> DEFINE held == IF resv[o] = "none" THEN 0 ELSE 1
  <2>1. Back(o) \in 0..1 /\ Gone(o) \in 0..1
    BY <1>2, <1>3
  <2>2. free'[o] = free[o] + Back(o) /\ lost'[o] = lost[o] + Gone(o)
        /\ Back(o) + Gone(o) = held
    BY <1>1, <1>3
  <2>3. /\ free[o] \in Nat /\ downstream[o] \in Nat /\ lost[o] \in Nat /\ spoilt[o] \in Nat
        /\ free[o] + downstream[o] + lost[o] + spoilt[o] + held = Capacity
    BY <1>3, Account
  <2> HIDE DEF held
  <2>4. QED
    BY <2>1, <2>2, <2>3
<1> USE DEF Unwind
<1>4. BlocksAccountedFor'
  BY <1>1, <1>3, Account DEF BlocksAccountedFor
<1>5. TypeOK'
  <2>1. downstream \in [Outputs -> Nat] /\ free' \in [Outputs -> Nat]
        /\ lost' \in [Outputs -> Nat] /\ spoilt \in [Outputs -> Nat]
    <3>1. \A o \in Outputs : free'[o] \in Nat /\ lost'[o] \in Nat
      BY <1>1, <1>2, Account
    <3>2. QED
      BY <3>1, CounterTypes DEF IInv
  <2>2. \A o \in Outputs : free'[o] + downstream[o] + lost'[o] + spoilt[o] <= Capacity
    BY <1>3
  <2>3. /\ free' \in [Outputs -> 0..Capacity] /\ downstream \in [Outputs -> 0..Capacity]
        /\ lost' \in [Outputs -> 0..Capacity] /\ spoilt \in [Outputs -> 0..Capacity]
    BY <2>1, <2>2, AccountsBoundCounters
  <2>4. resv' \in [Outputs -> {"none", "writing", "ready", "fresh", "failed"}]
    OBVIOUS
  <2>5. QED
    BY <2>3, <2>4 DEF IInv, TypeOK
<1>6. LossIsBounded' /\ LossEndsService'
  <2>1. \A o \in Outputs : lost[o] = 0
    BY DEF IInv, LossEndsService
  <2>2. \A o \in Outputs : resv[o] = "failed" => health = "unhealthy"
    BY DEF IInv, FrameState
  <2>3. ASSUME NEW o \in Outputs
        PROVE  lost'[o] <= 1 /\ (lost'[o] = 1 => health' = "unhealthy")
    BY <2>1, <2>2, <2>3
  <2>4. QED
    BY <2>3 DEF LossIsBounded, LossEndsService
<1>7. FrameState'
  <2>1. CASE ort = "flying"
    <3>1. pc = "unwinding" /\ \A o \in Outputs : resv[o] = "failed"
      BY <2>1 DEF IInv, FrameState
    <3>2. health = "unhealthy"
      <4>1. 1 \in Outputs
        BY DEF Outputs
      <4>2. resv[1] = "failed"
        BY <4>1, <3>1
      <4>3. QED
        BY <4>1, <4>2, <3>1 DEF IInv, FrameState
    <3>3. \A o \in Outputs : lost'[o] > 0
      BY <3>1, Account
    <3>4. QED
      BY <3>2, <3>3 DEF FrameState
  <2>2. CASE ort # "flying"
    BY <2>2 DEF FrameState
  <2>3. QED
    BY <2>1, <2>2
<1>8. QED
  BY <1>4, <1>5, <1>6, <1>7 DEF IInv

\* A subscriber's block goes back to its pool, or is spoilt.
LEMMA ConsumeKeeps ==
  ASSUME IInv, NEW o \in Outputs, Consume(o)
  PROVE  IInv'
<1> USE DEF Consume
<1>1. ASSUME NEW p \in Outputs
      PROVE  /\ free'[p] \in Nat /\ downstream'[p] \in Nat /\ spoilt'[p] \in Nat
             /\ free'[p] + downstream'[p] + spoilt'[p] = free[p] + downstream[p] + spoilt[p]
  <2>0. /\ free \in [Outputs -> Nat] /\ downstream \in [Outputs -> Nat]
        /\ spoilt \in [Outputs -> Nat]
    BY CounterTypes DEF IInv
  <2>1. CASE p = o
    <3>1. free[o] \in Nat /\ downstream[o] \in Nat /\ downstream[o] > 0 /\ spoilt[o] \in Nat
      BY <2>0
    <3>2. downstream'[o] = downstream[o] - 1
      BY <2>0
    <3>3. \/ free'[o] = free[o] + 1 /\ spoilt'[o] = spoilt[o]
          \/ free'[o] = free[o] /\ spoilt'[o] = spoilt[o] + 1
      BY <2>0
    <3>4. QED
      BY <2>1, <3>1, <3>2, <3>3
  <2>2. CASE p # o
    BY <2>0, <2>2, <1>1
  <2>3. QED
    BY <2>1, <2>2
<1>2. ASSUME NEW p \in Outputs
      PROVE  free'[p] + downstream'[p] + lost[p] + spoilt'[p]
               + (IF resv[p] = "none" THEN 0 ELSE 1) = Capacity
  <2>1. /\ free'[p] \in Nat /\ downstream'[p] \in Nat /\ spoilt'[p] \in Nat
        /\ free'[p] + downstream'[p] + spoilt'[p] = free[p] + downstream[p] + spoilt[p]
    BY <1>1, <1>2
  <2>2. QED
    BY <2>1, <1>2, Account
<1>3. BlocksAccountedFor'
  BY <1>2 DEF BlocksAccountedFor
<1>4. TypeOK'
  <2>2. downstream' \in [Outputs -> Nat] /\ free' \in [Outputs -> Nat]
        /\ lost \in [Outputs -> Nat] /\ spoilt' \in [Outputs -> Nat]
    <3>1. \A p \in Outputs : free'[p] \in Nat /\ downstream'[p] \in Nat /\ spoilt'[p] \in Nat
      BY <1>1
    <3>2. /\ free \in [Outputs -> Nat] /\ downstream \in [Outputs -> Nat]
          /\ lost \in [Outputs -> Nat] /\ spoilt \in [Outputs -> Nat]
      BY CounterTypes DEF IInv
    <3>3. QED
      BY <3>1, <3>2
  <2>3. ASSUME NEW p \in Outputs
        PROVE  free'[p] + downstream'[p] + lost[p] + spoilt'[p] <= Capacity
    <3>1. free'[p] \in Nat /\ downstream'[p] \in Nat /\ spoilt'[p] \in Nat /\ lost[p] \in Nat
      BY <1>1, <2>3, Account
    <3>2. free'[p] + downstream'[p] + lost[p] + spoilt'[p]
               + (IF resv[p] = "none" THEN 0 ELSE 1) = Capacity
      BY <1>2, <2>3
    <3>3. QED
      BY <3>1, <3>2
  <2>4. /\ free' \in [Outputs -> 0..Capacity] /\ downstream' \in [Outputs -> 0..Capacity]
        /\ lost \in [Outputs -> 0..Capacity] /\ spoilt' \in [Outputs -> 0..Capacity]
    BY <2>2, <2>3, AccountsBoundCounters
  <2>5. QED
    BY <2>4 DEF IInv, TypeOK
<1>5. FrameState' /\ LossEndsService' /\ LossIsBounded'
  BY DEF IInv, FrameState, LossEndsService, LossIsBounded
<1>6. QED
  BY <1>3, <1>4, <1>5 DEF IInv

-----------------------------------------------------------------------------
(* The theorems.                                                            *)

LEMMA InitInvariant ==
  ASSUME Init
  PROVE  IInv
BY DEF Init, IInv, TypeOK, BlocksAccountedFor, FrameState, LossEndsService, LossIsBounded,
       None, Zero

LEMMA StepInvariant ==
  ASSUME IInv, [Next]_vars
  PROVE  IInv'
<1>1. CASE UNCHANGED vars
  BY <1>1 DEF vars, IInv, TypeOK, BlocksAccountedFor, FrameState, LossEndsService, LossIsBounded
<1>2. CASE Next
  BY <1>2, FrameKeeps, PublishKeeps, UnwindKeeps, ConsumeKeeps DEF Next, CoreStep
<1>3. QED
  BY <1>1, <1>2

\* The inductive invariant holds in every reachable state of
\* RunStrictManagedInference, its pools and its subscribers.
THEOREM Invariance == Spec => []IInv
<1>1. Init => IInv
  BY InitInvariant
<1>2. IInv /\ [Next]_vars => IInv'
  BY StepInvariant
<1>3. QED
  BY <1>1, <1>2, PTL DEF Spec

\* Every variable keeps its type; no count of blocks exceeds the capacity.
THEOREM TypeCorrect == Spec => []TypeOK
<1>1. IInv => TypeOK
  BY DEF IInv
<1>2. QED
  BY <1>1, Invariance, PTL

\* No block is lost between the pools, the frame, the subscribers and the
\* orphans, however many outputs are reserved when something fails.
THEOREM NoBlockGetsLost == Spec => []BlocksAccountedFor
<1>1. IInv => BlocksAccountedFor
  BY DEF IInv
<1>2. QED
  BY <1>1, Invariance, PTL

\* What ONNX Runtime may still write into is kept from pools and subscribers.
THEOREM OrtKeepsItsBlocks == Spec => []OutputsKeptFromOrt
<1>1. IInv => OutputsKeptFromOrt
  <2> SUFFICES ASSUME IInv, ort = "flying", NEW o \in Outputs
               PROVE  \/ resv[o] \in {"writing", "failed"}
                      \/ resv[o] = "none" /\ lost[o] > 0
    BY DEF OutputsKeptFromOrt
  <2>1. QED
    BY DEF IInv, FrameState
<1>2. QED
  BY <1>1, Invariance, PTL

\* A failed inference costs each pool one block at most, once in the life of
\* the core.
THEOREM LossStaysBounded == Spec => []LossIsBounded
<1>1. IInv => LossIsBounded
  BY DEF IInv
<1>2. QED
  BY <1>1, Invariance, PTL

\* Only a frame that was submitted loses blocks: a pool that stays empty, a
\* deadline that passes or a refused binding gives every reservation back.
THEOREM LossesFollowSubmission == Spec => LossNeedsSubmission
<1>1. ASSUME IInv, [Next]_vars
      PROVE  [(\E o \in Outputs : resv'[o] = "failed" /\ resv[o] # "failed") => pc = "running"]_vars
  <2> SUFFICES ASSUME NEW o \in Outputs, resv'[o] = "failed", resv[o] # "failed"
               PROVE  pc = "running"
    OBVIOUS
  <2>1. CASE RunFails
    BY <2>1 DEF RunFails
  <2>2. CASE ReportFails
    BY <2>2, <1>1 DEF ReportFails, FailAll, IInv, FrameState
  <2>3. CASE \/ Start \/ LeaseInputs \/ Submit \/ OrtCompletes \/ UNCHANGED vars
             \/ \E p \in Outputs : Consume(p)
    BY <2>3 DEF Start, LeaseInputs, Submit, OrtCompletes, Consume, vars
  <2>4. CASE \E p \in Outputs : Reserve(p)
    BY <2>4, <1>1 DEF Reserve, IInv, TypeOK
  <2>5. CASE ReserveFails \/ Bind
    BY <2>5 DEF ReserveFails, Bind, CancelAll
  <2>6. CASE Finalize \/ Publish \/ Unwind
    BY <2>6 DEF Finalize, Publish, Unwind, None
  <2>7. QED
    BY <1>1, <2>1, <2>2, <2>3, <2>4, <2>5, <2>6 DEF Next, CoreStep
<1>2. QED
  BY <1>1, Invariance, PTL DEF Spec, LossNeedsSubmission

=============================================================================
