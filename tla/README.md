# TLA+ models of gpu-ros

gpu-ros moves tensors between ROS 2 nodes without copying them off the GPU and
runs ONNX Runtime on them. What is hard in it is ownership: device memory from a
small fixed pool is written by one stream, read by others, handed through ROS
subscriptions and given back to its pool by whoever lets go of it last, on
whatever thread that happens, while the GPU is still working on it. Beside that
core stand the tools that judge it: two comparators of detections, and an audit of
GPU traces that says whether a transport copies what it should not. Their verdicts
are the project's evidence, and what is hard in them is that missing,
damaged or reordered input must not turn into a good verdict. The modules
here model both, TLC checks small instances, and TLAPS proves every safety
property of the passing runs for instances of every size: the buffer's life, its release
threads, the pool, both inference paths, the staging node, the inference node's
destruction, and what the verdicts and counts of the tools stand for.

Paths below are relative to `src/`; `buffer.cpp` and
`fixed_device_memory_pool.cpp` are in `gpu_ros_managed/gpu_ros_managed_core/src`,
the `onnx_*` files and the `*_tensor_bundle_io.cpp` files in
`gpu_ros_object_detection/gpu_ros_onnx_inference/src`; the tools of the copy audit in
`gpu_ros_object_detection/gpu_ros_onnx_inference/scripts`, `compare_detections.py` in
`gpu_ros_object_detection/gpu_ros_rtdetr/scripts` and `compare_detection2d_bags.py` in
`gpu_ros_object_detection/gpu_ros_detection_validation/scripts`.

## Inventory

| Component | State it keeps | Operations | What is hard about it | What makes it correct |
|---|---|---|---|---|
| Managed buffer: `BufferState` and its handles (`buffer.cpp`) | phase, readiness, producer and reader events, stream and source owners, `release_must_orphan` | make, take a write, synchronized write or read handle or a blocking lease, retain an owner, finalize, fail, cancel, finish, blocking copies, destruction | handles on several threads share it; work of different streams is in flight; every backend call can fail | one writer, and no reader beside it; reads follow the write; no release under pending or uncertain work; no dead or leaked event |
| Release workers and `ReleaseTracker` (`buffer.cpp` 31-283) | one mutex, a counter, a condition variable, detached threads, `orphan_storage` | `~BufferState`, the worker, `wait_for_pending_releases` | a release may destroy another buffer on the same thread; the worker races its parent | no self-deadlock, no lost wakeup, zero means released |
| Fixed pool (`fixed_device_memory_pool.cpp`) | free list, `stopping`, the allocation, one condition variable | four `acquire` functions, block tokens' deleters, `shutdown`, destruction | timeouts against returns, notification after the unlock, exceptions after the pop, tokens that outlive the pool | blocks conserved, the allocation outlives its blocks, nobody sleeps for ever |
| Strict inference (`onnx_inference_core.cpp` 523-746) | `strict_healthy_`, one pool per output | lease inputs, reserve, bind, submit, finalize, report, publish, unwind | the k-th of n steps fails, before or after the submission | blocks conserved; what ONNX Runtime may write is neither free nor published; a failure costs a bounded number of blocks |
| Compat inference (`onnx_inference_core.cpp` 782-1200) | ORT binding, preallocated outputs | preallocate with a fallback, run, copy, publish | the order in which writers, binding, values and buffers are given up | no live ORT value without its buffer |
| Inference node (`onnx_inference_node.cpp`) | `CallbackState` (flag, counter, condition variable), inference mutex, `io_`, core | input callback, `OnTensors`, destructor | callbacks queued or running on other threads while the node goes | active callbacks keep the node; the destructor returns |
| std, managed and NITROS transports (`*_tensor_bundle_io.cpp`) | subscription, publisher, the stored callback; NITROS also a drain of its own | subscribe, publish, destroy | callbacks reached through an object that is being destroyed; the node's drain does not count NITROS views | a view keeps the transport; a queued callback is safe |
| HIP staging nodes (`managed_hip_tensor_bundle_nodes.cpp`) | a cache of pools by block size, with limits, a stream | copy a message to device tensors and back | sizes and limits that overflow; the k-th of n asynchronous copies fails | a block is as large as its tensor; the cache stays within its limits; partial failures do not recycle |
| HIP encoders and preprocessors (`gpu_ros_rtdetr`, `gpu_ros_yolov8`) | one or two pools, a stream | reserve, launch kernels, finalize | as the staging nodes | as the staging nodes |
| CUDA and HIP backends | none beyond the runtime's | `BackendOps` | device selection may fail at any call | what the buffer assumes of a stream and an event |
| Tensor bundles, type adapters, contracts | immutable values | validate, size, convert | overflow of products of dimensions | sizes fit and agree |
| Live comparator (`compare_detections.py`) | a buffer of unpaired messages per topic, counters, `data_error` | callback per topic, matching of a pair, main loop, report | arrival order, repeated stamps, unreadable messages | counts conserved and independent of the order; no report from bad data |
| Offline comparator (`compare_detection2d_bags.py`) | the frames of two bags | filter, pair by stamp or index, match, summarize, write the report | frames of one stamp in uneven numbers; detections behind a filter | counts conserved; agrees with the live tool |
| Copy audit: records and verdicts (`copy_audit_common.py`, `compare_nvidia_copy_traces.py`) | two lanes of events | normalize, count, judge a pair | rates over different frame counts; evidence of failure beside missing evidence | a FAIL stays; a PASS is earned |
| Copy audit: ROCprofiler loader (`rocprofv3_json_loader.py`) | a capture: events, diagnostics, sections | load a process, check the manifest, cross-check the CSV | handles and kinds mean something in one process only; malformed records | no record is lost or guessed |
| Copy audit: command lines (`analyze_rocprof_traces.py`, `compare_nsys_cuda_traces.py`, `compare_nvidia_copy_traces.py`) | the report file, the exit status | parse, load, judge, write, exit | failures in between; an older report on the disk | exit status 0 means a fresh PASS |
| CPU decoders and encoders, bridge and compat nodes, profile summary, launch files, benchmarks, containers | none, or experiment tooling | | | |

How they interact: a node's transport hands it a message whose tensors are
managed buffers; the node calls the core under its inference mutex; the core
leases the inputs (blocking leases on their buffers), reserves output blocks
from its pools (`acquire_synchronized_for`, each a new buffer with a synchronized
write handle), runs ONNX Runtime and publishes the output buffers. A subscriber
takes read handles on its own streams. The last reference to a buffer runs
`~BufferState` on whatever thread drops it, and that runs, there or on a detached
worker, the deleter of the block's token, which takes the pool's mutex. The tools share no
state with the nodes: the live comparator subscribes to two detection topics, the offline one
reads bags of them, and the audit reads the profilers' files and the reports the nodes write.

`PROJECT.json` lists every component with its status, and every hazard with its
line and the properties aimed at it.

## Modules

### ManagedBuffer, AllocationUse, ManagedBufferProofs

`ManagedBuffer` is one allocation: its `BufferState`, everyone who shares it, the
GPU streams, `~BufferState` and its release worker. A critical section of
`state->mutex` is one step, and what the code does outside it is another:
`ReadHandle::finish` is `FinishRecord` (before the lock), `FinishPush` (under it)
and `FinishMarkFailed` (under it again, in the handler), a `BlockingReadyLease`
reads phase and event under the lock (`AcquireLease`) and synchronizes later
(`LeaseSynced`, `LeaseSyncFails`, `LeaseMarkFailed`). `Finalize` is one step as the code
holds the lock throughout.

| Variable | Code |
|---|---|
| `phase`, `readiness`, `recycling` | `BufferPhase`, `BufferReadiness`, `release_must_orphan` |
| `owners` | which of `writer_stream_owner` and `producer_owners` are held |
| `events` | whose events are in `producer_event` and `reader_events`, and then in the worker |
| `buffer`, `writer`, `reader`, `lease` | who shares the state; `writer = "spent"` is a handle with `responsible_` false |
| `release` | `~BufferState` and its worker: `live`, `spawned`, `syncing` (device selected), `discarding` (not), `released`, `orphaned` |
| `stream`, `issued`, `done`, `workPos`, `waitPos`, `event`, `eventPos` | the device |
| `faults` | history: what has gone wrong |

The device is external. A stream executes in order what was issued to it: it is
two counters, and a batch of work, an event wait or an event record is known by its
position. A queued wait holds its stream back until the producer's event is
executed. Every backend call that can throw has a failing branch, and a destroyed
event, a leaked one (its device could not be selected) and a recorded one are told
apart. Two parts of the contract are the callers', and the model takes them from
the comments and the callers: `finalize_synchronously` follows the completion of
the external operation, and `cancel` comes before any submission. `Fail` is free to
leave work in flight. Readers and leases are used once each, in any order and at
any time; a second read handle is another element of `Readers`. Sizes, pointers
and device identifiers are left out.

`AllocationUse` is the abstract promise: work may use an allocation while it is
held, it is released at most once and only when unused, or it is orphaned.
`ManagedBuffer` implements it with `Pending` as the users (`KeepsPromise`).

### FixedPool, FixedPoolProofs

The pool is its free list, the `stopping` flag, the allocation, and threads in
`acquire`, `acquire_for`, `shutdown` or a token's deleter. `Examine` is the code under the
lock: look at the predicate, then wait, give up, throw or pop. `MakeBlock` and `MakeFails`
are the rest of `acquire_impl`, which runs without the lock. The deleter is two
steps, `ReturnBlock` (under the lock) and `DeleterNotifies` (after it). Wakeups may be
spurious, `TimeOut` may strike at any time, and after it the predicate is looked at
once more, as `wait_for` does. The synchronized and the stream variant of `acquire` are
the same to the pool. What happens to a lent block is `ManagedBuffer`'s subject; here
its buffer returns it (`ReturnBlock`) or orphans it (`LoseBlock`). Destroying the facade
while one of its operations runs is the caller's error and is excluded.

### ReleaseTracker, TeardownProofs

The threads of `~BufferState` (`TrackerSpec`, with fairness `FairTrackerSpec`). Each has a stack of
destructor frames, the innermost last, because the reset of `allocation_owner` or of a source may
destroy another buffer on the same thread. `Owner` and `Source` say which buffer keeps which alive:
an adopted owner and a source are never the same buffer, and no more is assumed of them. `Spawn` locks the
mutex, counts and starts the worker; `ParentResets` drops the parent's copies under the
lock; `Gate` is the worker's empty critical section at its start, `Decrement` and
`Notify` its end. `Look` and `Expire` are `wait_for_pending_releases`.

### StrictInference, StrictInferenceProofs

One frame at a time (the node's inference mutex) through
`RunStrictManagedInference`: lease, reserve per output in order, bind, submit, finalize, report,
publish, with an exception possible at each step and the handler's two cases
(`FailAll` after the submission, `CancelAll` before it). Pools are counters: that a block
comes back exactly once is `FixedPool`'s result, and that a cancelled or finalized buffer
returns and a failed one does not is `ManagedBuffer`'s. `ort = "flying"` is ONNX Runtime's
work on the device, which ends on its own.

### CompatInference, CompatInferenceProofs

The other path of `RunInference`, with MIGraphX and output to the device: per output in
order a buffer and a write handle, an ORT value over the block, a binding. `Preallocate` is one turn
of that loop and `PreallocateFails` its three ways to fail: before the buffer is there, inside the
inner handler's reach, and at `BindOutput`. The fallback is four steps in the code's order, because the
order is what matters: `CancelWriters`, `ResetBinding`, `ClearValues`, `Rebind`. The rest is the
submission, the two cases of the handler (`Handle`) and the destruction of the locals (`Leave`, with `Dropped`
for what the last reference makes of a buffer). `bound` and `targets` are what ONNX Runtime refers to and
may write; after a failed `Run` its work goes on (`ort = "flying"`) until it ends. Output to
the host and the CUDA provider's path, which adopt what ONNX Runtime allocated, have no buffer of
their own to lose, and the inputs' release, finding 2, is the same on both paths.

### StagingNode, StagingNodeProofs

`StdToManagedHipTensorBundleNode::OnTensorBundle`, one message at a time (the node's
callback group is mutually exclusive). Per tensor `GetPool` finds or makes a pool and `Acquire` takes a
block and retains the message; then per tensor `SubmitCopy` and `Finalize`; then `Publish`. Every
step has its failure, of a `std::exception` or of something else, and `Unwind` is the two handlers followed by the
destruction of the frame's blocks. A message brings tensors with a shape, the size of an element and
a number of bytes of data, and what to make of them is the code's to find out: `tensor_byte_size`
multiplies factor by factor (`Times`, where 0 stands for the exception), `Readable` compares with the
data, and `Accepts` is `ValidateStagingPoolAddition`. `size_t` is the numbers up to `SizeMax`, and every
sum and product is taken modulo `SizeMax + 1`. A block of a
pool is `<<size, number>>` and its life is the one `ManagedBuffer` and `FixedPool` show: cancelled it is free at
once, failed it is lost, finalized it is free when its last holder is gone and its copy done.

### NodeLifecycle, TeardownProofs

Executor threads take messages, pass or are refused by the gate (`EnterCallback`),
wait for `inference_mutex_`, run and leave (`LeaveCallback` under the state's mutex,
`NotifyDrain` after it), while `~OnnxInferenceNode` closes the gate, drains, resets `io_`, stops
the core and destroys the members. `transport` is the node's parameter, chosen at the start. It tells
where the callback is stored: in the subscription (managed) or in the transport object (std, nitros), and
whether the callback is called from a view (nitros): `EnterView` passes the transport's own gate and
counts, the conversion may fail, `LeaveView` counts down and `NotifyViews` notifies after the unlock,
while `~NitrosTensorBundleIO` runs `CloseViews` and `DrainViews` within the reset of `io_`. A thread that
goes through an `io_` that is gone is undefined behaviour and ends up `astray`; the model says
nothing of it from there on.

### DetectionMatching, DetectionComparator, DetectionValidation, DetectionValidationProofs

`DetectionMatching` holds what the two comparators compute: the IoU of two boxes, the greedy
matching over sorted pairs, the offline tool's filters, its pairing by stamp or index and its
summary. IoUs are exact fractions of integers, so that equal IoUs are equal and no area
overflows. `DetectionComparator` is the live node: a message that arrives is refused
(`Reject`), matched with the pending one of its stamp (`Pair`) or kept, where it may replace
one (`Keep`); the main loop looks at `data_error` after every callback (`Check`) and ends with a
report (`Deadline`) or without (`ContextDown`). `DetectionValidation` adds the offline tool on bags of
the same two topics, with any of the given command lines, up to its exit status. `bags` is the
history of what arrived, and the offline tool's input.

### TraceEvents, CopyAudit, RocprofLoader, TransportAudit, TransportAuditProofs

`TraceEvents` is `normalize_event`: a record of a trace becomes a copy, a kernel or an unknown
event with a direction and a size. Free texts are atoms, and `Says` and `AgentWords` give what the
regular expressions find in them. `CopyAudit` is the judgement of two lanes of events with the rules
in the code's order, `RocprofLoader` the tables, records, diagnostics, sections, manifest check and
CSV cross-check of ROCprofiler processes. A table's operations are an array or an object of names by
their keys, and an operation is what the loader makes of it: a number, a key, the text it is. An array is
indexed by number, an object looked up by any key, or by the name itself where that is among its
values; only numbers are compared with the names they should stand for. `TransportAudit` is the three
tools from the command line to the exit status: records or processes are read one by one, in any order, any file may fail
(`LoadFails`), the verdict may raise (`JudgeRaises`), and the report may be impossible to write
(`WriteFails`), with an older report on the disk. `input` is a history variable: what was read, for
the properties to look back at.

## Runs

| Run | Instance | What it shows |
|---|---|---|
| `buffer` | 2 streams, 1 reader, 1 lease | `WriterExclusive`, `ReadAfterWrite`, `UncertainNeverReleased`, `NoUseAfterRelease`, `HeldEventsAreLive`, `EventsAccountedFor`, `NoSpuriousOrphan`, `OwnersOutliveProducer`, `KeepsPromise`, `ReleaseCompletes` |
| `buffer_copyout` | 1 stream, 1 lease | finding 1 |
| `pool` | 3 threads, 2 blocks | `BlocksConserved`, `AllocationOutlivesBlocks`, `NoLostWakeup`, `TimedCallsReturn`, `StoppingFreesAcquirers` |
| `release_tracker` | 4 nested buffers, 2 dropping threads, 1 waiter | `NoDeleterUnderTracker`, `ZeroMeansReleased`, `WaitersAreTold`, `ReleasesComplete` |
| `strict_inference` | 3 outputs, 2 blocks per pool | `BlocksAccountedFor`, `OutputsKeptFromOrt`, `LossIsBounded`, `FramesEnd` |
| `strict_inputs` | 1 output, 1 block | finding 2 |
| `compat_inference` | 4 outputs, 3 of them static | `OrtKeepsItsBuffers`, `OrphanNeedsSubmission` |
| `staging` | 2 blocks per pool, sizes 1, 2, 3 and 9, a 4-bit `size_t` | `CacheWithinLimits`, `BlocksFitTensors`, `NoRecyclingUnderCopy`, `SourcesOutliveCopies` |
| `node` | 3 executor threads, each transport | `ActiveCallbacksAreSafe`, `DestructorReturns` |
| `node_std` | 1 executor thread, std and nitros | finding 3 |
| `detections` | 2 messages per topic out of 8, 5 command lines | `EverythingIsCounted`, `TotalsIgnoreArrivalOrder`, `OfflineConserves`, `AgreesWithOffline`, `BadDataIsNotReported` |
| `audit` | 2 records or processes per lane, out of 6 and 10, 18 command lines | `FailIsMonotone`, `SelfComparisonNeverFails`, `PassIsEarned`, `ExitZeroMeansFreshPass` |

Why these instances are enough. *Buffer*: a buffer has one writer; two streams are
what it takes for a reader to be on the producer's stream or on another one, and the lease beside
the reader makes a second actor that may fail while the first finishes. A second reader does not
finish in five minutes; the proofs hold for any number of readers and leases. The
counters need no bound: an actor submits one batch and records one event, so a
stream gets at most three entries per actor. *Pool*: three threads are a
waiter, a second waiter that takes the block first, and a thread in the deleter or in
shutdown; with two blocks `Drained` and "not empty" differ. *Tracker* (`TrackerTypeOK` is stated for the reader and proved; it is no property of the run): the four
buffers are an adopted owner with an event of its own, a source, and a
source of the source that is released inline, so that destructors nest three deep
on workers and on the dropping threads. *Strict inference*: with three outputs one
is reserved, one is being reserved and one is not yet; with two blocks a pool
can be empty while the frame before is still downstream. *Compat inference*: the fallback
can begin with no buffer, with one and with two, and behind an output of dynamic shape.
*Staging*: a message can have more tensors of a size than the pool has blocks, sizes 1 and 2 fit
the cache together while 3 fits only with one of them, and 9 is a size that passes the limit for one
tensor and whose pool of 18 bytes wraps to 2, so that the unchecked sum would pass; among the tensors without a
size are products of 18 over the dimensions, and over a dimension and the element, that wrap to the 2
bytes the message has. *Node*: one thread in
the core, one waiting for its mutex, one in the gate or in a view. *Detections*: two messages per topic
are a pair and one left over, a stamp repeated before or after it is paired, and both orders of
arrival; the boxes include a tie of IoU on a shared detection, one that is unscored, one that is
filtered and one that is unreadable, and there are nanoseconds that are no part of a second (a second
has two here). *Audit*: the records are a kernel, a suspect kernel, an upload, a copy on the device, one
without a size and one that is neither; the processes are usual ones, one whose operations
are an object looked up by number, by another key and by name, and others that each break one
thing the loader relies on (the last one names another operation behind a number of such an object); the command lines reach every rule of a verdict, and two records per lane
make rates differ over different frame counts, also exactly by the limit, 0.05 over 20 frames (as fractions; see *Not modelled*). Deadlock
is not checked, because each system may come to rest: a pool is destroyed, a buffer released, a
node gone, an unhealthy core refuses frames, a tool has ended.

The bounds by name: `MaxFrames` (messages on one topic), `MaxInputs` (records or processes of a lane),
`SizeMax` (the largest `size_t`). The other constants are the instance's sets.

### Fairness

Only threads that are able to run, and the device, are assumed to be fair; nobody
is obliged to take, use or drop a handle, to return a block, to send or consume a message, or to
fail. *Buffer*: the streams execute, the destructor and the worker run, and each
event that is complete is sooner or later synchronized with. *Pool*: a thread that is awake
goes on, and `TimeOut` is strongly fair because `wait_for` has one deadline however often the thread
is woken before it. *Tracker*: weak fairness of every thread; a thread that
waits for the mutex gets it eventually because the mutex is taken finitely often.
*Strict inference*: the callback's thread runs and the device finishes.
*Node*: threads run, and `inference_mutex_` is not withheld from one of them for
ever (strong fairness of `LockInference`). The comparators and the audit have no liveness
property: they do not wait for anyone.

## Proofs

Every theorem is about the specification TLC runs, with its constants left open.

| Module, and what it assumes | Theorem | Statement |
|---|---|---|
| `ManagedBufferProofs`: `ConstantsAssumption` (there is a stream, and the producer is no reader) | `Invariance`, `AccountsInvariance` | `Spec => []IInv`, `Spec => []Accounts` |
| | `TypeCorrect` | `Spec => []TypeOK` |
| | `WriterIsExclusive` | `Spec => []WriterExclusive` |
| | `ReadsFollowWrites` | `Spec => []ReadAfterWrite` |
| | `ReleaseIsSafe` | `Spec => []NoUseAfterRelease` |
| | `UncertainIsKept` | `Spec => []UncertainNeverReleased` |
| | `EventsAreLive` | `Spec => []HeldEventsAreLive` |
| | `EventsAreAccountedFor` | `Spec => []EventsAccountedFor` |
| | `OrphansHaveCauses` | `Spec => []NoSpuriousOrphan` |
| | `OwnersAreKept` | `Spec => OwnersOutliveProducer` |
| | `PromiseIsKept` | `Spec => KeepsPromise` |
| `FixedPoolProofs`: `BlocksAssumption` (the blocks are finitely many) | `Invariance` | `Spec => []IInv` |
| | `TypeCorrect` | `Spec => []TypeOK` |
| | `BlocksAreConserved` | `Spec => []BlocksConserved` |
| | `AllocationIsKept` | `Spec => []AllocationOutlivesBlocks` |
| | `WakeupsAreNotLost` | `Spec => []NoLostWakeup` |
| `StrictInferenceProofs`: `StrictAssumption` (at least one output and one block) | `Invariance` | `Spec => []IInv` |
| | `TypeCorrect` | `Spec => []TypeOK` |
| | `NoBlockGetsLost` | `Spec => []BlocksAccountedFor` |
| | `OrtKeepsItsBlocks` | `Spec => []OutputsKeptFromOrt` |
| | `LossStaysBounded` | `Spec => []LossIsBounded` |
| | `LossesFollowSubmission` | `Spec => LossNeedsSubmission` |
| `StagingNodeProofs`: `StagingAssumption` (sizes and limits are positive and fit `size_t`, `Sizes` has the sizes of the tensors that may come) | `Invariance` | `Spec => []IInv` |
| | `TypeCorrect` | `Spec => []TypeOK` |
| | `CacheGrowsExactly` | every step adds to the cache exactly what the new pool takes, within both limits |
| | `CacheStaysWithinLimits` | `Spec => []CacheWithinLimits` |
| | `BlocksAreKeptFromReuse` | `Spec => []NoRecyclingUnderCopy` |
| | `SourcesAreKept` | `Spec => []SourcesOutliveCopies` |
| | `FactorIsExact` | a factor of a tensor's size is multiplied exactly or refused |
| | `SizeIsExact` | a size that is not refused is the product of all factors, for shapes of any length |
| | `BlocksHoldTensors` | `Spec => []BlocksFitTensors` |
| | `CopiesStayInData` | a copy never reads beyond the message's data |
| `CompatInferenceProofs`: `CompatAssumption` (at least one output) | `Invariance` | `Spec => []IInv` |
| | `TypeCorrect` | `Spec => []TypeOK` |
| | `OrtKeepsBuffers` | `Spec => []OrtKeepsItsBuffers` |
| | `OrphansWereSubmitted` | `Spec => []OrphanNeedsSubmission` |
| `TeardownProofs`, of the release threads: `TrackerAssumption` (finitely many buffers, none of them an application thread; an adopted owner is not also a source) | `TrackerInvariance` | `TrackerSpec => [](TrackerIInv /\ WaitersAreTold)` |
| | `TrackerTypes` | `TrackerSpec => []TrackerTypeOK` |
| | `NoDeleter` | `TrackerSpec => []NoDeleterUnderTracker` |
| | `ZeroIsZero` | `TrackerSpec => []ZeroMeansReleased` |
| | `NobodySleepsOn` | `TrackerSpec => []WaitersAreTold` |
| | `FateIsFinal` | whether an allocation goes home or is orphaned is settled once |
| `TeardownProofs`, of the node: `ExecutorsAssumption` (finitely many threads), `TransportsAssumption` (the three transports) | `Invariance` | `Spec => []NodeIInv` |
| | `TypeCorrect` | `Spec => []TypeOK` |
| | `CallbacksAreSafe` | `Spec => []ActiveCallbacksAreSafe` |
| `DetectionValidationProofs`: `NanosAssumption` (a second has nanoseconds; what is not finite is no number), `ComparatorAssumption` (messages have integer stamps and sequences of detections), `OptionsAssumption` (`None` is no command line and no exit status; a limit is an integer, a threshold a number or `None`) | `Invariance`, `CountsInvariance` | `ValidationSpec => []IInv`, and of the invariant of the counts |
| | `NoPairIsMissed` | `ValidationSpec => []NeverBothPending` |
| | `FramesAreConserved` | `ValidationSpec => []FramesConserved`, a conjunct of `EverythingIsCounted` |
| | `MatchFrameSwapped` | `match_frame` of two readable frames matches the same detections in either order of arrival |
| | `NothingIsLost` | `ValidationSpec => []EverythingIsCounted` |
| | `TotalsAreOfTheBags` | `ValidationSpec => []TotalsIgnoreArrivalOrder` |
| | `OfflineAddsUp` | `ValidationSpec => []OfflineConserves` |
| | `ToolsAgreeWithoutTies` | `ValidationSpec => []AgreesWithOffline` |
| | `NothingBadIsReported` | `ValidationSpec => []BadDataIsNotReported` |
| `TransportAuditProofs`: `NoneAssumption` (`None` is no exit status), `CommandAssumption` (arguments as `argparse` leaves them), `ProcessAssumption` (processes as the JSON parser leaves them) | `Invariance` | `Spec => []IInv` |
| | `ExitStatusIsHonest` | `Spec => []ExitZeroMeansFreshPass` |
| | `FailuresAreFinal` | `Spec => []FailIsMonotone` |
| | `SelfComparisonIsSafe` | `Spec => []SelfComparisonNeverFails` |
| | `PassMeansUnderstood` | `Spec => []PassIsEarned` |

*Buffer.* None of the properties is inductive. That nothing is pending at the release
follows only from who answered for the work before: `Custody` says that while the
allocation is held, pending work is the concern of a handle that will still
record an event or fail, of an event that is held, or of `release_must_orphan`;
`UncertainCustody` says the same of operations of unknown completion, and
`EventCoversWork` that an event lies behind the work it stands for, so that
synchronizing with it is enough. Reads follow writes because of `BehindProducer`: a reader's
stream waits, in front of the reader's work, for an event behind the
producer's work. `FreshIsUntouched` carries the exclusion over a cancelled
reservation that is taken again, `ReaderEvents` ties events to handles, and
`DeadIsUnreferenced` rules every handle's step out once the destructor has begun.
There is one lemma per group of actions (streams, writer, reader, lease,
release), with one step per conjunct. A second invariant, `Accounts`, is proved on
top of the first: an event that exists is in the state's custody, with the handle
that is about to push it or with the worker (`EventsOwned`), and what bars the
release has a fault behind it (`BarredHasCause`). The refinement theorem uses the
invariant to show that a release maps to `Release` with no users, and every other step to
a step of `AllocationUse` or to a stutter.

*Pool.* `AllocationOutlivesBlocks` rests on an argument about the free list alone: the code
compares its length with the capacity, and what has to follow is that no block is
anywhere else. `DrainedHoldsAll` shows that a list without repetitions as long as there
are blocks holds all of them (a pigeonhole argument from `FiniteSetTheorems`), so `BlocksConserved`
has to be in the invariant. `CallsWhereExpected` and `FreedIsClosed` say that no thread
is between the pop and the token of a pool that has been drained, and that no call
starts on one.

*Strict inference.* `FrameState` says what has become of the reservations at each
point of a frame, of ONNX Runtime's work for it, and of the work left by the
frame that broke the core. `LossEndsService` says that a core that has lost a block
takes no frame any more; without it a second failure could cost a second block.

*Tracker.* A thread's stack may be as deep as the ownership of buffers allows, so the invariant
speaks about every frame of every stack: which steps can lie under another frame (`OnlyReleasesNest`), where a
worker's own frame is (`WorkersAreAtTheBottom`), who holds the mutex (`LockHeld`), and that at most one frame of a
buffer still has its source to release (`OneDestruction`). `HeldUntilReset` says that the worker keeps its copies of
owner and stream for as long as it is at the gate or synchronizes, and with `LockHeld` the parent's reset under the
mutex is never the last (`NoDeleter`). `OwnersHeld` and `SourcesHeld` tie the references to the frames that will
drop them; `Counted` makes the counter the number of workers that have not decremented it. `WaitersAreTold` is
inductive beside them.

*Staging.* A reserved or submitted block belongs to the frame (`FrameOwnsReservations`), so that
only a block that was never submitted can be freed by the handlers. That `size_t` does not wrap
in a sum is `AcceptedIsExact`; in a product, the division is what bounds each factor (`FactorIsExact`), and
`SizeIsExact` follows for all of them by induction over the shape. `CacheIsCounted` says that
`pool_cache_bytes_` is the sum over the pools of what each takes, so that the check of the counter is a check of the
sum (`CacheStaysWithinLimits`). That the message has the bytes a copy reads
(`CopiesStayInData`) is carried by `FrameFitsMessage` from the check to the copy.

*Compat inference.* `KeptState` says what a buffer of the frame is at each point of the path, and
`BindingsAreKept` that a binding refers only to buffers the frame keeps, and to all of them
when it is submitted; the outputs behind the loop's index carry the induction over the preallocation.

*Node.* Both counters are cardinalities of sets of threads, so a thread inside means a count above
zero. `DrainIsFinal` says that the gate is closed before the destructor looks at the count and that nobody
is inside once it has seen zero; `ViewsDrainIsFinal` says the same of the second drain, which looks at a
counter of its own; and only NITROS threads are ever in a view (`ViewsAreNitros`).

*Detections.* `NeverBothPending` makes the received frames the sum of the paired, the replaced and the
pending ones: a message that arrives adds a pending stamp, or takes one away and pairs it.
`ErrorsAreSeen` says that an unreadable message in a bag has set `data_error`, and that the loop cannot
get from `spun` to a report with it; `ReportIsOfBags` ties the offline report to the bags it was made of.
`DetectionsConserved` is the same sum for detections, over what waits under the pending stamps
(`WaitingLess`, `WaitingPut`).

That the order of arrival is irrelevant needs an argument about the algorithm. What the greedy loop takes is the
*kernel* of its pairs: a pair is taken just when no earlier pair that shares a detection with it is taken
(`GreedyIsKernel`), and an order has one kernel, which depends on nothing but the order of the pairs that share a
detection (`KernelIsUnique`). Exchanging the two frames exchanges the two positions a tie is broken by; but of two
pairs that share a detection one position is equal, so the other decides either way, and the kernel stays
(`MatchFrameSwapped`). The offline tool breaks ties the other way round: where no conflicting pairs tie, the two
orders agree on the conflicts, and the tools match the same (`ToolsMatchTheSame`). The IoU is symmetric and a proper
fraction for readable boxes (`PairIoUFacts`), so that the order by IoU is total and transitive (`IoUOrders`).

`PendingIsUnpaired` and `PairsAreCounted` then say, while no topic repeats a stamp, that what waits is what has no
partner in the other bag, and that the counts are sums over the pairs of equal stamps; a message adds one pair or none
(`FirstSideCounts`, `SecondSideCounts`, `CountsOfNoPair`). For the offline tool, a filter leaves a frame because every rank
is taken once (`EveryRankIsTaken`) and leaves all of it by default (`NothingIsFiltered`); pairing by stamp and
bag order takes no frame twice (`PairFramesFacts`), and with unique stamps it is the pairing by equal stamps
(`PairFramesArePairs`), for which the nanoseconds of a valid stamp must stay below a second (`StampsAreKeys`). A summary's counts
add up on each side because the pairs are injective there (`SideAddsUp`).

*Audit.* `NothingIsLost` links each process that was read to the capture: its diagnostics are in the
capture's, its records have their events, and its sections are counted. That there is one event for each
record and no other is a bijection (`HasRecords`, `Origins`), which each process that is loaded extends by
its copies and its dispatches (`LoadAddsRecords`); it makes the counts equal (`OriginsCount`). With it a PASS, which needs a
capture without diagnostics, speaks about the processes (`HandleIsOneAgents`, `CopyIsUnderstood`,
`DispatchIsUnderstood`); which of the three ways found an operation's name is `LookupFinds`. Counts of events only grow when a trace gets longer (`LongerCounts`), and what
makes a FAIL is a comparison of such counts, so it stays (`FailuresStay`), also through the rules
the AMD tool adds after them. A lane against itself has equal counts, and a rate over no fewer frames
is no larger (`NoFailureOfItsOwn`), so that it never fails unless boundary evidence is confirmed.

*Sums and recursion.* The sums, products, folds and the greedy loop are recursive functions, over the
subsets of a finite set or over the natural numbers. The library's induction theorems take an operator, which the
provers cannot instantiate, so induction is proved in the form of sets: a set that has 0 and the successors of
its elements has all natural numbers (`Induct`, from `WFMin`), and a set of sets that has the empty one and is
closed under one element more has every finite set (`SetInduct`). `RecursionExists` and `FoldExists` show that the `CHOOSE` behind a
recursive function finds one.

Only model-checked: liveness under fairness (`ReleaseCompletes`, `ReleasesComplete`, `TimedCallsReturn`,
`StoppingFreesAcquirers`, `FramesEnd`, `DestructorReturns`), which is out of the prover's reach, as `ENABLED` is. The
three findings are counterexamples and have nothing to prove. No module declares a `RECURSIVE` operator.

## Findings

1. `copy_to_host_blocking` (`buffer.cpp` 655-667) lets a failed device-to-host copy
   pass without setting `release_must_orphan`, although the comment on that field
   says it is set whenever an operation may have been submitted whose completion is unknown. Run
   `buffer_copyout`.
2. When `Run` or `SynchronizeOutputs` throws after the submission, the strict path
   orphans its outputs and lets go of its inputs (`onnx_inference_core.cpp` 734-746), although
   `gpu_ros_managed/README.md` 38-40 says an uncertain operation's allocation is kept out of the pool.
   Run `strict_inputs`.
3. The comment in `~OnnxInferenceNode` says that a queued callback remains safe after `io_` is
   reset. With the std transport it is reached through the transport object that was
   reset. Run `node_std`.

## Observations

What the modelling met besides, and no run shows by itself:

- `cross_check_csv` (`rocprofv3_json_loader.py` 907-939) promises to compare directions, agents and
  counts, and compares the number of JSON records of a route with the number of aggregated CSV
  entries, which is one however many rows there are. One JSON record beside five CSV rows agrees; two
  beside two differ.
- `LeaveView` (`nitros_tensor_bundle_io.cpp` 112-119) notifies after the unlock, so the destructor
  whose wait its decrement has ended may be over when it does; the comment at 66-69 says the object is
  kept until the callbacks have left `OnView`. `QueuedCallbacksAreSafe` excludes it and does not hold for
  this transport either.
- The document on detection validation calls an explicit managed-only tensor-sized copy a FAIL; the
  ROCprofiler tool exempts H2D and D2H unless the command line names other directions.
- A copy without a byte count is documented as INCONCLUSIVE; `compare_nvidia_copy_traces.py` leaves
  such records out and may PASS.
- The Nsight self report always says that the profiler data is complete. An adapter direction `unknown`
  that is required can never be seen, so there is never a PASS. A boundary file with a boolean
  where a list is expected, beside the flag, raises a `TypeError`, which ends with exit status 2. After exit
  status 2 an older report stays on the disk, and a report that cannot be written ends in a traceback with
  exit status 1.

## Not modelled

The HIP encoder, preprocessor and decoder nodes: the decoder's second copy to a host vector
(`rtdetr_managed_hip_nodes.cpp` 359) is a hazard no property covers. Of the tensor bundles, strides are
left out: they are products of some of the factors of a size that was checked before. The adapter of NITROS tensors
builds on types that are not in the repository. Of the staging nodes, the destruction of the pools and the
node for the way back to the host, which copies synchronously and keeps nothing, are left out. The
backends are the external part of `ManagedBuffer`. CPU image processing and decoding, contract parsing,
message conversion, the bridge and compat nodes keep no state and compute with numbers and strings
that unit tests reach better than a model checker.

Of the comparators: means, percentiles, the list of worst frames, the printed text, and the rounding
and overflow of floating-point numbers. Of the audit: rates are exact fractions, where
the code (`copy_audit_common.py` 706-709) compares floating-point numbers, so that a difference of exactly
the limit may come out otherwise; the flattening of nested JSON documents into
records (`iter_trace_records`), counts by frame id, the text of evidence lists, what a regular
expression matches in a given text, CSV operations other than by their names in the tables, and limits
on the difference of rates other than the default. `summarize_ort_profile.py` adds durations up and has
no verdict. Benchmarks, model export, bag recording, launch files and containers are experiment
tooling.

## Plan

1. `ManagedPool`: an abstract pool of blocks that are free, held or orphaned, which `FixedPool` implements and
   `StrictInference` and `StagingNode` use in the place of their own counters, with the refinement proved.
2. `HipEncoder`: the RT-DETR and YOLO encoders and the preprocessor reserve an output and a raw block,
   copy, launch a kernel and finalize both; and the decoders, whose copies to the host may outlive their
   vectors.
3. Lemmas of the liveness arguments that are safety: a worker that runs has a shorter way to go with every step,
   a waiter past its deadline is never asleep again.
