----------------------------- MODULE NodeLifecycle -----------------------------
(***************************************************************************)
(* The destruction of an OnnxInferenceNode while executor threads run its  *)
(* input callback (onnx_inference_node.cpp): the CallbackState that the    *)
(* callback captured, the drain of active callbacks, and the transport     *)
(* object io_ (std_, managed_ and nitros_tensor_bundle_io.cpp) that the    *)
(* callback is stored in or is reached through. The NITROS transport has a *)
(* drain of its own: its callback OnView converts the message on a stream  *)
(* of io_ before it calls the node's, and ~NitrosTensorBundleIO waits for  *)
(* the active views.                                                       *)
(*                                                                         *)
(* The executor is external: it keeps the subscription of a message it has *)
(* taken until the subscription's callback returns. A thread that goes     *)
(* through an io_ that has been destroyed is "astray": what it does from   *)
(* there on is undefined and not modelled.                                 *)
(***************************************************************************)
EXTENDS Naturals, FiniteSets

CONSTANTS
  Executors,   \* the executor's threads
  Transports   \* the transports a node may be configured with

ASSUME ExecutorsAssumption == IsFiniteSet(Executors)

ASSUME TransportsAssumption == Transports \subseteq {"std", "managed", "nitros"}

VARIABLES
  transport,  \* the node's parameter
  gate,     \* CallbackState: "closed" once shutting_down is set and node cleared
  active,   \* CallbackState: active_callbacks
  at,       \* where each executor thread is
  infer,    \* the thread that holds inference_mutex_, or "nobody"
  views,    \* NITROS: active_views_
  viewGate, \* NITROS: "closed" once io_'s own shutting_down_ is set
  io,       \* whether io_ still exists
  core,     \* OnnxInferenceCore: "running", "stopped" by shutdown, "destroyed"
  dtor      \* where ~OnnxInferenceNode is

nodeVars == <<gate, active, infer, core>>
ioVars == <<views, viewGate, io>>
vars == <<transport, nodeVars, at, ioVars, dtor>>

Init ==
  /\ transport \in Transports
  /\ gate = "open" /\ active = 0
  /\ at = [e \in Executors |-> "idle"]
  /\ infer = "nobody"
  /\ views = 0 /\ viewGate = "open"
  /\ io = "alive" /\ core = "running" /\ dtor = "notCalled"

Move(e, to) == at' = [at EXCEPT ![e] = to]

\* What the callback is stored in: with the managed transport the subscription
\* itself, which the executor holds; with the others the io_ object, which the
\* subscription's callback reaches through a raw this.
CallbackStored == io = "alive" \/ transport = "managed"

\* From where the node's callback is called, and to where it returns.
Caller == IF transport = "nitros" THEN "viewing" ELSE "taken"
Return == IF transport = "nitros" THEN "viewed" ELSE "idle"

-----------------------------------------------------------------------------
(* The callback.                                                            *)

\* The executor takes a message off a subscription that exists.
Take(e) ==
  /\ at[e] = "idle" /\ io = "alive"
  /\ Move(e, "taken")
  /\ UNCHANGED <<transport, nodeVars, ioVars, dtor>>

\* A thread on its way in or out uses an object that is no more.
GoAstray(e) ==
  /\ at[e] \in {"taken", "leaving", "viewLeaving"} /\ ~CallbackStored
  /\ Move(e, "astray")
  /\ UNCHANGED <<transport, nodeVars, ioVars, dtor>>

\* OnView passes io_'s own gate or not.
EnterView(e) ==
  /\ transport = "nitros" /\ at[e] = "taken" /\ CallbackStored
  /\ \/ viewGate = "closed" /\ Move(e, "idle") /\ UNCHANGED views
     \/ viewGate = "open" /\ Move(e, "viewing") /\ views' = views + 1
  /\ UNCHANGED <<transport, nodeVars, viewGate, io, dtor>>

\* input_adapter_.Convert throws, and the frame is dropped.
ConvertFails(e) ==
  /\ at[e] = "viewing"
  /\ Move(e, "viewed")
  /\ UNCHANGED <<transport, nodeVars, ioVars, dtor>>

\* The node's callback passes its gate or not.
EnterCallback(e) ==
  /\ at[e] = Caller /\ CallbackStored
  /\ \/ gate = "closed" /\ Move(e, Return) /\ UNCHANGED active
     \/ gate = "open" /\ Move(e, "active") /\ active' = active + 1
  /\ UNCHANGED <<transport, gate, infer, core, ioVars, dtor>>

LockInference(e) ==
  /\ at[e] = "active" /\ infer = "nobody"
  /\ infer' = e /\ Move(e, "inferring")
  /\ UNCHANGED <<transport, gate, active, core, ioVars, dtor>>

\* OnTensors returns: it has run the inference and published, or has caught
\* what was thrown.
OnTensorsReturns(e) ==
  /\ at[e] = "inferring"
  /\ infer' = "nobody" /\ Move(e, "done")
  /\ UNCHANGED <<transport, gate, active, core, ioVars, dtor>>

LeaveCallback(e) ==
  /\ at[e] = "done"
  /\ active' = active - 1 /\ Move(e, "leaving")
  /\ UNCHANGED <<transport, gate, infer, core, ioVars, dtor>>

\* Mutant of NotifyDrain: the callback does not tell the destructor.
NotifyDrain_Silent(e) ==
  /\ at[e] = "leaving" /\ CallbackStored
  /\ Move(e, Return)
  /\ UNCHANGED <<transport, nodeVars, ioVars, dtor>>

\* cv.notify_all, through the callback's own capture.
NotifyDrain(e) ==
  /\ at[e] = "leaving" /\ CallbackStored
  /\ Move(e, Return)
  /\ dtor' = IF dtor = "waiting" THEN "closed" ELSE dtor
  /\ UNCHANGED <<transport, nodeVars, ioVars>>

\* ~ActiveViewGuard: LeaveView counts down under the mutex ...
LeaveView(e) ==
  /\ at[e] = "viewed"
  /\ views' = views - 1 /\ Move(e, "viewLeaving")
  /\ UNCHANGED <<transport, nodeVars, viewGate, io, dtor>>

\* ... and notifies after it.
NotifyViews(e) ==
  /\ at[e] = "viewLeaving" /\ CallbackStored
  /\ Move(e, "idle")
  /\ dtor' = IF dtor = "viewsWaiting" THEN "viewsClosed" ELSE dtor
  /\ UNCHANGED <<transport, nodeVars, ioVars>>

-----------------------------------------------------------------------------
(* ~OnnxInferenceNode.                                                      *)

CloseGate ==
  /\ dtor = "notCalled"
  /\ gate' = "closed" /\ dtor' = "closed"
  /\ UNCHANGED <<transport, active, infer, core, at, ioVars>>

\* Mutant of Drain: nobody is waited for.
Drain_Skipped ==
  /\ dtor = "closed"
  /\ dtor' = "drained"
  /\ UNCHANGED <<transport, nodeVars, at, ioVars>>

Drain ==
  /\ dtor = "closed"
  /\ dtor' = IF active = 0 THEN "drained" ELSE "waiting"
  /\ UNCHANGED <<transport, nodeVars, at, ioVars>>

\* ~NitrosTensorBundleIO closes its gate first ...
CloseViews ==
  /\ transport = "nitros" /\ dtor = "drained"
  /\ viewGate' = "closed" /\ dtor' = "viewsClosed"
  /\ UNCHANGED <<transport, nodeVars, at, views, io>>

\* Mutant of DrainViews: the views are not waited for.
DrainViews_Skipped ==
  /\ dtor = "viewsClosed"
  /\ dtor' = "viewsDrained"
  /\ UNCHANGED <<transport, nodeVars, at, ioVars>>

\* ... and waits for the views that are active.
DrainViews ==
  /\ dtor = "viewsClosed"
  /\ dtor' = IF views = 0 THEN "viewsDrained" ELSE "viewsWaiting"
  /\ UNCHANGED <<transport, nodeVars, at, ioVars>>

ResetIo ==
  /\ dtor = IF transport = "nitros" THEN "viewsDrained" ELSE "drained"
  /\ io' = "destroyed" /\ dtor' = "ioReset"
  /\ UNCHANGED <<transport, nodeVars, at, views, viewGate>>

StopCore ==
  /\ dtor = "ioReset"
  /\ core' = "stopped" /\ dtor' = "coreStopped"
  /\ UNCHANGED <<transport, gate, active, infer, at, ioVars>>

\* callback_state_.reset() and the members.
DestroyMembers ==
  /\ dtor = "coreStopped"
  /\ core' = "destroyed" /\ dtor' = "over"
  /\ UNCHANGED <<transport, gate, active, infer, at, ioVars>>

-----------------------------------------------------------------------------
Callback(e) ==
  \/ EnterCallback(e) \/ LockInference(e) \/ OnTensorsReturns(e)
  \/ LeaveCallback(e) \/ NotifyDrain(e)
  \/ EnterView(e) \/ ConvertFails(e) \/ LeaveView(e) \/ NotifyViews(e)
  \/ GoAstray(e)

Destructor == Drain \/ CloseViews \/ DrainViews \/ ResetIo \/ StopCore \/ DestroyMembers

Next ==
  \/ \E e \in Executors : Take(e) \/ Callback(e)
  \/ CloseGate \/ Destructor

Spec == Init /\ [][Next]_vars

\* Threads run, and inference_mutex_ is not withheld from one of them for ever.
FairSpec ==
  /\ Spec /\ WF_vars(Destructor)
  /\ \A e \in Executors : WF_vars(Callback(e)) /\ SF_vars(LockInference(e))

-----------------------------------------------------------------------------
(* Properties.                                                              *)

\* Past the node's gate.
Inside == {e \in Executors : at[e] \in {"active", "inferring", "done"}}

\* In a view of the NITROS transport, past io_'s gate.
InView == {e \in Executors : transport = "nitros"
            /\ at[e] \in {"viewing", "active", "inferring", "done", "leaving", "viewed"}}

Positions == {"idle", "taken", "active", "inferring", "done", "leaving",
              "viewing", "viewed", "viewLeaving", "astray"}

\* Every variable has its type, and the counters count the callbacks and the
\* views that are past their gates.
TypeOK ==
  /\ transport \in {"std", "managed", "nitros"}
  /\ gate \in {"open", "closed"}
  /\ active = Cardinality(Inside)
  /\ at \in [Executors -> Positions]
  /\ infer \in Executors \cup {"nobody"}
  /\ views = Cardinality(InView)
  /\ viewGate \in {"open", "closed"}
  /\ io \in {"alive", "destroyed"}
  /\ core \in {"running", "stopped", "destroyed"}
  /\ dtor \in {"notCalled", "closed", "waiting", "drained", "viewsClosed", "viewsWaiting",
               "viewsDrained", "ioReset", "coreStopped", "over"}

\* A callback that is past the node's gate has the node, its transport and its
\* core to itself and its fellows: neither is reset, stopped or destroyed under
\* it. And a NITROS view has io_, whose stream it converts on, from its entry to
\* its LeaveView, though the node's own drain does not know of it.
ActiveCallbacksAreSafe ==
  \A e \in Executors :
    /\ at[e] \in {"active", "inferring", "done"} => io = "alive" /\ core = "running"
    /\ at[e] \in {"viewing", "viewed"} => io = "alive"

\* A queued callback, or one on its way out, finds the node's callback and its
\* capture in place even when io_ has been reset.
QueuedCallbacksAreSafe ==
  \A e \in Executors : at[e] # "idle" => CallbackStored

\* The destructor returns: new frames cannot keep it waiting.
DestructorReturns == dtor # "notCalled" ~> dtor = "over"

=============================================================================
