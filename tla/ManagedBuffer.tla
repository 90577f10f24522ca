---------------------------- MODULE ManagedBuffer ----------------------------
(***************************************************************************)
(* The life of one device allocation in gpu_ros_managed_core: the          *)
(* BufferState of buffer.cpp, the handles that share it (WriteHandle,      *)
(* SynchronizedWriteHandle, ReadHandle, BlockingReadyLease, DeviceBuffer), *)
(* the GPU streams their holders submit work to, and ~BufferState with its *)
(* release worker.                                                         *)
(*                                                                         *)
(* A stream executes what was issued to it in order.  It is represented by *)
(* two counters, the number of entries issued and the number executed; an  *)
(* entry is a batch of work, an event wait or an event record, and is      *)
(* known by its position.  The work an actor submits is one batch, placed  *)
(* by its last kernel.                                                     *)
(***************************************************************************)
EXTENDS Naturals

CONSTANTS
  Streams,   \* the device streams of the buffer's backend and device
  Readers,   \* one element per ReadHandle ever taken on the buffer
  Leases,    \* one element per BlockingReadyLease ever taken on the buffer
  Producer   \* the writer, as the submitter of work and owner of an event

ASSUME ConstantsAssumption ==
  /\ Streams # {}
  /\ Producer \notin Readers

Actors == Readers \cup {Producer}

VARIABLES
  \* BufferState
  phase,          \* BufferPhase
  readiness,      \* BufferReadiness
  owners,         \* which of writer_stream_owner and producer_owners are held
  events,         \* whose events producer_event and reader_events hold
  recycling,      \* "barred" once release_must_orphan is set
  \* who shares the BufferState
  buffer,         \* "alive" while a DeviceBuffer exists
  writer,         \* the write handle, "spent" once it is not responsible_
  reader,         \* where each ReadHandle is
  lease,          \* where each BlockingReadyLease is
  \* the device
  stream,         \* the stream each actor works on
  issued,         \* entries issued to a stream
  done,           \* entries a stream has executed
  workPos,        \* the position of an actor's work, 0 before it submits any
  waitPos,        \* the position of a reader's wait for the producer event
  event,          \* what became of each actor's event
  eventPos,       \* the position of its record, 0 before it is recorded
  \* ~BufferState and its worker
  release,        \* where the release of the allocation is
  \* history
  faults          \* what has gone wrong so far

bufferVars  == <<phase, readiness, owners, events, recycling>>
handleVars  == <<buffer, writer, reader, lease>>
queueVars   == <<stream, issued, done, workPos, waitPos>>
eventVars   == <<event, eventPos>>
vars == <<bufferVars, handleVars, queueVars, eventVars, release, faults>>

\* What can go wrong.  "uncertain": an operation on the allocation may have
\* been submitted although nothing trustworthy tells when it completes (a
\* submission, an event record, a host-to-device copy or an event
\* synchronization that failed).  "copyOut": the same of a device-to-host
\* copy.  "wait": a reader's wait for the producer event was refused.
\* "other": a write handle destroyed while responsible, a device that cannot be
\* selected or a thread that cannot be started on release.
Faults == {"uncertain", "copyOut", "wait", "other"}

-----------------------------------------------------------------------------
(* The device. *)

Pending(a)   == done[stream[a]] < workPos[a]
Executed(a)  == 0 < workPos[a] /\ ~Pending(a)
EventDone(a) == 0 < eventPos[a] /\ eventPos[a] <= done[stream[a]]

\* One more entry on stream s; its position is the new value.
Issue(s) == issued' = [issued EXCEPT ![s] = @ + 1]

SubmitWork(a) ==
  /\ workPos[a] = 0
  /\ Issue(stream[a])
  /\ workPos' = [workPos EXCEPT ![a] = issued[stream[a]] + 1]
  /\ UNCHANGED <<stream, done, waitPos>>

\* create_event succeeded and record_event put the event on the stream.
RecordEvent(a) ==
  /\ Issue(stream[a])
  /\ event' = [event EXCEPT ![a] = "recorded"]
  /\ eventPos' = [eventPos EXCEPT ![a] = issued[stream[a]] + 1]
  /\ UNCHANGED <<stream, done, workPos, waitPos>>

\* A stream executes its next entry; a wait holds it back until the producer's
\* event is complete.
StreamStep(s) ==
  /\ done[s] < issued[s]
  /\ \A r \in Readers :
       stream[r] = s /\ waitPos[r] = done[s] + 1 => EventDone(Producer)
  /\ done' = [done EXCEPT ![s] = @ + 1]
  /\ UNCHANGED <<stream, issued, workPos, waitPos>>
  /\ UNCHANGED <<bufferVars, handleVars, eventVars, release, faults>>

-----------------------------------------------------------------------------
(* Construction: make_fresh for a pool block or an allocation, make_ready   *)
(* for external memory that already holds its data.                         *)

Init ==
  /\ \/ phase = "Fresh" /\ readiness = "NotReady"
     \/ phase = "Ready" /\ readiness = "SynchronouslyReady"
  /\ owners = {} /\ events = {} /\ recycling = "allowed"
  /\ buffer = "alive" /\ writer = "none"
  /\ reader = [r \in Readers |-> "idle"]
  /\ lease = [l \in Leases |-> "idle"]
  /\ \E s \in Streams : stream = [a \in Actors |-> s]
  /\ issued = [s \in Streams |-> 0] /\ done = [s \in Streams |-> 0]
  /\ workPos = [a \in Actors |-> 0] /\ waitPos = [r \in Readers |-> 0]
  /\ event = [a \in Actors |-> "none"] /\ eventPos = [a \in Actors |-> 0]
  /\ release = "live" /\ faults = {}

-----------------------------------------------------------------------------
(* The writer. *)

\* responsible_ of the write handle that exists.
Responsible == writer \in {"async", "sync"}

\* Mutant of GetWriteHandle: a ready buffer can be written again.
GetWriteHandle_Rewrites(s) ==
  /\ buffer = "alive" /\ phase \in {"Fresh", "Ready"}
  /\ phase' = "Writing"
  /\ owners' = owners \cup {"stream"}
  /\ writer' = "async"
  /\ stream' = [stream EXCEPT ![Producer] = s]
  /\ UNCHANGED <<readiness, events, recycling, buffer, reader, lease>>
  /\ UNCHANGED <<issued, done, workPos, waitPos, eventVars, release, faults>>

GetWriteHandle(s) ==
  /\ buffer = "alive" /\ phase = "Fresh"
  /\ phase' = "Writing"
  /\ owners' = owners \cup {"stream"}
  /\ writer' = "async"
  /\ stream' = [stream EXCEPT ![Producer] = s]
  /\ UNCHANGED <<readiness, events, recycling, buffer, reader, lease>>
  /\ UNCHANGED <<issued, done, workPos, waitPos, eventVars, release, faults>>

\* The external runtime that fills the buffer uses some stream of its own.
GetSynchronizedWriteHandle(s) ==
  /\ buffer = "alive" /\ phase = "Fresh"
  /\ phase' = "Writing"
  /\ writer' = "sync"
  /\ stream' = [stream EXCEPT ![Producer] = s]
  /\ UNCHANGED <<readiness, owners, events, recycling, buffer, reader, lease>>
  /\ UNCHANGED <<issued, done, workPos, waitPos, eventVars, release, faults>>

RetainOwner ==
  /\ writer = "async" /\ phase = "Writing"
  /\ owners' = owners \cup {"sources"}
  /\ UNCHANGED <<phase, readiness, events, recycling>>
  /\ UNCHANGED <<handleVars, queueVars, eventVars, release, faults>>

ProducerSubmit ==
  /\ Responsible
  /\ SubmitWork(Producer)
  /\ UNCHANGED <<bufferVars, handleVars, eventVars, release, faults>>

FinalizeRecorded ==
  /\ RecordEvent(Producer)
  /\ events' = events \cup {Producer}
  /\ readiness' = "EventBackedReady"
  /\ phase' = "Ready"
  /\ UNCHANGED <<recycling, faults>>

\* Mutant of FinalizeFailed: producer_event is set before record_event and
\* survives its failure.
FinalizeFailed_KeepsEvent ==
  /\ phase' = "Failed"
  /\ recycling' = "barred"
  /\ events' = events \cup {Producer}
  /\ event' = [event EXCEPT ![Producer] = "destroyed"]
  /\ faults' = faults \cup {"uncertain"}
  /\ UNCHANGED <<readiness, eventPos, queueVars>>

\* An event that was created is destroyed again, or leaks when its device
\* cannot be selected.
FinalizeFailed ==
  /\ phase' = "Failed"
  /\ recycling' = "barred"
  /\ \E e \in {"none", "destroyed", "leaked"} :
       event' = [event EXCEPT ![Producer] = e]
  /\ faults' = faults \cup {"uncertain"}
  /\ UNCHANGED <<readiness, events, eventPos, queueVars>>

Finalize ==
  /\ writer = "async" /\ phase = "Writing"
  /\ FinalizeRecorded \/ FinalizeFailed
  /\ writer' = "spent"
  /\ UNCHANGED <<owners, buffer, reader, lease, release>>

\* The caller's part of the contract: the external operation has completed.
FinalizeSynchronously ==
  /\ writer = "sync" /\ phase = "Writing"
  /\ ~Pending(Producer)
  /\ readiness' = "SynchronouslyReady"
  /\ phase' = "Ready"
  /\ writer' = "spent"
  /\ UNCHANGED <<owners, events, recycling, buffer, reader, lease>>
  /\ UNCHANGED <<queueVars, eventVars, release, faults>>

\* Mutant of Cancel: a cancelled reservation counts as failed work.
Cancel_Orphans ==
  /\ Responsible /\ phase = "Writing"
  /\ workPos[Producer] = 0
  /\ phase' = "Fresh"
  /\ owners' = {}
  /\ writer' = "spent"
  /\ recycling' = "barred"
  /\ UNCHANGED <<readiness, events, buffer, reader, lease>>
  /\ UNCHANGED <<queueVars, eventVars, release, faults>>

\* WriteHandle::cancel and SynchronizedWriteHandle::cancel; the caller's part
\* of the contract is that nothing has been submitted.
Cancel ==
  /\ Responsible /\ phase = "Writing"
  /\ workPos[Producer] = 0
  /\ phase' = "Fresh"
  /\ owners' = {}
  /\ writer' = "spent"
  /\ UNCHANGED <<readiness, events, recycling, buffer, reader, lease>>
  /\ UNCHANGED <<queueVars, eventVars, release, faults>>

\* What fail() does to the state, also when a destructor calls it.
MarkWriterFailed ==
  /\ phase' = "Failed"
  /\ readiness' = "NotReady"
  /\ recycling' = "barred"
  /\ UNCHANGED <<owners, events>>

\* The caller reports a submission that failed; it may be on the stream.
Fail ==
  /\ Responsible
  /\ MarkWriterFailed
  /\ writer' = "spent"
  /\ SubmitWork(Producer) \/ UNCHANGED queueVars
  /\ faults' = faults \cup {"uncertain"}
  /\ UNCHANGED <<buffer, reader, lease, eventVars, release>>

\* Mutant of DropWriter: the stream lives only as long as the write handle.
DropWriter_DropsStream ==
  /\ writer # "none"
  /\ writer' = "none"
  /\ owners' = owners \ {"stream"}
  /\ \/ /\ Responsible
        /\ phase' = "Failed" /\ readiness' = "NotReady" /\ recycling' = "barred"
        /\ faults' = faults \cup {"other"}
     \/ ~Responsible /\ UNCHANGED <<phase, readiness, recycling, faults>>
  /\ UNCHANGED <<events, buffer, reader, lease, queueVars, eventVars, release>>

\* The write handle is destroyed.
DropWriter ==
  /\ writer # "none"
  /\ writer' = "none"
  /\ \/ Responsible /\ MarkWriterFailed /\ faults' = faults \cup {"other"}
     \/ ~Responsible /\ UNCHANGED <<bufferVars, faults>>
  /\ UNCHANGED <<buffer, reader, lease, queueVars, eventVars, release>>

\* The lock is held over the whole blocking copy.
CopyFromHostBlocking ==
  /\ buffer = "alive" /\ phase = "Fresh"
  /\ \/ /\ readiness' = "SynchronouslyReady"
        /\ phase' = "Ready"
        /\ UNCHANGED <<recycling, faults>>
     \/ /\ phase' = "Failed"
        /\ recycling' = "barred"
        /\ faults' = faults \cup {"uncertain"}
        /\ UNCHANGED readiness
  /\ UNCHANGED <<owners, events, handleVars, queueVars, eventVars, release>>

-----------------------------------------------------------------------------
(* Readers on a stream. *)

SetReader(r, to) == reader' = [reader EXCEPT ![r] = to]

\* Mutant of AcquireReadHandle: the stream does not wait for the producer.
AcquireReadHandle_NoWait(r, s) ==
  /\ buffer = "alive" /\ reader[r] = "idle" /\ phase = "Ready"
  /\ stream' = [stream EXCEPT ![r] = s]
  /\ SetReader(r, "held")
  /\ UNCHANGED <<bufferVars, buffer, writer, lease>>
  /\ UNCHANGED <<issued, done, workPos, waitPos, eventVars, release, faults>>

\* The producer event is queued as a wait on the reader's stream s; when that
\* is refused the constructor throws and no handle comes to be.
AcquireReadHandle(r, s) ==
  /\ buffer = "alive" /\ reader[r] = "idle" /\ phase = "Ready"
  /\ stream' = [stream EXCEPT ![r] = s]
  /\ \/ /\ Producer \notin events
        /\ SetReader(r, "held")
        /\ UNCHANGED <<phase, issued, waitPos, faults>>
     \/ /\ Producer \in events
        /\ Issue(s)
        /\ waitPos' = [waitPos EXCEPT ![r] = issued[s] + 1]
        /\ SetReader(r, "held")
        /\ UNCHANGED <<phase, faults>>
     \/ /\ Producer \in events
        /\ phase' = "Failed"
        /\ SetReader(r, "gone")
        /\ faults' = faults \cup {"wait"}
        /\ UNCHANGED <<issued, waitPos>>
  /\ UNCHANGED <<readiness, owners, events, recycling, buffer, writer, lease>>
  /\ UNCHANGED <<done, workPos, eventVars, release>>

ReaderSubmit(r) ==
  /\ reader[r] = "held"
  /\ SubmitWork(r)
  /\ UNCHANGED <<bufferVars, handleVars, eventVars, release, faults>>

\* finish(), called by the holder or by ~ReadHandle: the event is created and
\* recorded before the lock is taken.
FinishRecord(r) ==
  /\ reader[r] = "held"
  /\ \/ RecordEvent(r) /\ SetReader(r, "recorded") /\ UNCHANGED faults
     \/ /\ \E e \in {"none", "created"} : event' = [event EXCEPT ![r] = e]
        /\ SetReader(r, "recordFailed")
        /\ faults' = faults \cup {"uncertain"}
        /\ UNCHANGED <<queueVars, eventPos>>
  /\ UNCHANGED <<bufferVars, buffer, writer, lease, release>>

\* finish() under the lock; growing reader_events can fail.
FinishPush(r) ==
  /\ reader[r] = "recorded"
  /\ \/ events' = events \cup {r} /\ SetReader(r, "finished") /\ UNCHANGED faults
     \/ /\ SetReader(r, "recordFailed")
        /\ faults' = faults \cup {"uncertain"}
        /\ UNCHANGED events
  /\ UNCHANGED <<phase, readiness, owners, recycling, buffer, writer, lease>>
  /\ UNCHANGED <<queueVars, eventVars, release>>

\* Mutant of FinishMarkFailed: the phase alone is set.
FinishMarkFailed_Recyclable(r) ==
  /\ reader[r] = "recordFailed"
  /\ phase' = "Failed"
  /\ event' = [event EXCEPT ![r] = IF @ = "none" THEN "none" ELSE "destroyed"]
  /\ SetReader(r, "finished")
  /\ UNCHANGED <<readiness, owners, events, recycling, buffer, writer, lease>>
  /\ UNCHANGED <<queueVars, eventPos, release, faults>>

\* finish()'s error path, under the lock again.
FinishMarkFailed(r) ==
  /\ reader[r] = "recordFailed"
  /\ phase' = "Failed"
  /\ recycling' = "barred"
  /\ \/ event[r] = "none" /\ UNCHANGED event
     \/ /\ event[r] # "none"
        /\ \E e \in {"destroyed", "leaked"} : event' = [event EXCEPT ![r] = e]
  /\ SetReader(r, "finished")
  /\ UNCHANGED <<readiness, owners, events, buffer, writer, lease>>
  /\ UNCHANGED <<queueVars, eventPos, release, faults>>

DropReader(r) ==
  /\ reader[r] = "finished"
  /\ SetReader(r, "gone")
  /\ UNCHANGED <<bufferVars, buffer, writer, lease>>
  /\ UNCHANGED <<queueVars, eventVars, release, faults>>

-----------------------------------------------------------------------------
(* Blocking leases: the phase and the event are read under the lock, the    *)
(* event is synchronized with after the lock is released.                   *)

SetLease(l, to) ==
  /\ lease' = [lease EXCEPT ![l] = to]
  /\ UNCHANGED <<buffer, writer, reader, queueVars, eventVars, release>>

AcquireLease(l) ==
  /\ buffer = "alive" /\ lease[l] = "idle" /\ phase = "Ready"
  /\ SetLease(l, IF Producer \in events THEN "syncing" ELSE "held")
  /\ UNCHANGED <<bufferVars, faults>>

LeaseSynced(l) ==
  /\ lease[l] = "syncing" /\ EventDone(Producer)
  /\ SetLease(l, "held")
  /\ UNCHANGED <<bufferVars, faults>>

LeaseSyncFails(l) ==
  /\ lease[l] = "syncing"
  /\ SetLease(l, "syncFailed")
  /\ faults' = faults \cup {"uncertain"}
  /\ UNCHANGED bufferVars

LeaseMarkFailed(l) ==
  /\ lease[l] = "syncFailed"
  /\ phase' = "Failed"
  /\ recycling' = "barred"
  /\ SetLease(l, "gone")
  /\ UNCHANGED <<readiness, owners, events, faults>>

\* The holder is done with the lease, or the blocking device-to-host copy of
\* copy_to_host_blocking fails, which destroys the lease on the way out.
DropLease(l) ==
  /\ lease[l] = "held"
  /\ SetLease(l, "gone")
  /\ faults' = faults \/ faults' = faults \cup {"copyOut"}
  /\ UNCHANGED bufferVars

-----------------------------------------------------------------------------
(* Release.  ~BufferState runs when the last of the objects that share the  *)
(* state is gone.  Its events and release_must_orphan are handed to the     *)
(* worker, whose "safe" is recycling = "allowed".                           *)

Referenced ==
  \/ buffer = "alive"
  \/ writer # "none"
  \/ \E r \in Readers : reader[r] \notin {"idle", "gone"}
  \/ \E l \in Leases : lease[l] \notin {"idle", "gone"}

DropBuffer ==
  /\ buffer = "alive"
  /\ buffer' = "dropped"
  /\ UNCHANGED <<bufferVars, writer, reader, lease>>
  /\ UNCHANGED <<queueVars, eventVars, release, faults>>

\* The allocation, the source owners and the stream owner go back to where
\* they came from, or into orphan_storage for good.
ReleaseOwners == release' = "released" /\ owners' = {}
OrphanOwners  == release' = "orphaned" /\ UNCHANGED owners

\* Mutant of DestructorInline: only the producer's event is waited for.
DestructorInline_ProducerOnly ==
  /\ release = "live" /\ ~Referenced
  /\ Producer \notin events
  /\ phase' = "Releasing"
  /\ \/ recycling = "allowed" /\ ReleaseOwners /\ UNCHANGED faults
     \/ recycling = "barred" /\ OrphanOwners /\ UNCHANGED faults
  /\ UNCHANGED <<readiness, events, recycling, handleVars, queueVars, eventVars>>

\* Nothing asynchronous to wait for: released by the destroying thread, once
\* it has selected the device.
DestructorInline ==
  /\ release = "live" /\ ~Referenced
  /\ events = {}
  /\ phase' = "Releasing"
  /\ \/ recycling = "allowed" /\ ReleaseOwners /\ UNCHANGED faults
     \/ recycling = "allowed" /\ OrphanOwners /\ faults' = faults \cup {"other"}
     \/ recycling = "barred" /\ OrphanOwners /\ UNCHANGED faults
  /\ UNCHANGED <<readiness, events, recycling, handleVars, queueVars, eventVars>>

\* Mutant of DestructorSpawn: a buffer that must be orphaned is left behind.
DestructorSpawn_SafeOnly ==
  /\ release = "live" /\ ~Referenced
  /\ events # {} /\ recycling = "allowed"
  /\ phase' = "Releasing"
  /\ release' = "spawned"
  /\ UNCHANGED <<readiness, owners, events, recycling, handleVars>>
  /\ UNCHANGED <<queueVars, eventVars, faults>>

\* The events move to a worker thread.
DestructorSpawn ==
  /\ release = "live" /\ ~Referenced
  /\ events # {}
  /\ phase' = "Releasing"
  /\ release' = "spawned"
  /\ UNCHANGED <<readiness, owners, events, recycling, handleVars>>
  /\ UNCHANGED <<queueVars, eventVars, faults>>

\* Mutant of DestructorSpawnFails: the events go down with the state.
DestructorSpawnFails_ForgetsEvents ==
  /\ release = "live" /\ ~Referenced
  /\ events # {}
  /\ phase' = "Releasing"
  /\ OrphanOwners
  /\ events' = {}
  /\ faults' = faults \cup {"other"}
  /\ UNCHANGED <<readiness, recycling, handleVars, queueVars, eventVars>>

\* The worker cannot be started: the events are destroyed unsynchronized, or
\* leak when the device cannot be selected, and the owners are orphaned.
DestructorSpawnFails ==
  /\ release = "live" /\ ~Referenced
  /\ events # {}
  /\ phase' = "Releasing"
  /\ OrphanOwners
  /\ events' = {}
  /\ \E leaked \in SUBSET events :
       event' = [a \in Actors |-> IF a \in leaked THEN "leaked"
                                  ELSE IF a \in events THEN "destroyed"
                                  ELSE event[a]]
  /\ faults' = faults \cup {"other"}
  /\ UNCHANGED <<readiness, recycling, handleVars, queueVars, eventPos>>

\* "syncing" is the worker with device_selected, "discarding" without.
WorkerSelect ==
  /\ release = "spawned"
  /\ \/ release' = "syncing" /\ UNCHANGED <<recycling, faults>>
     \/ /\ release' = "discarding"
        /\ recycling' = "barred"
        /\ faults' = faults \cup {"other"}
  /\ UNCHANGED <<phase, readiness, owners, events, handleVars, queueVars, eventVars>>

\* Once the event has been synchronized with, or could not be, it is destroyed;
\* that fails only with the selection of its device.
DestroyEvent(a) ==
  /\ a \in events
  /\ events' = events \ {a}
  /\ event' = [event EXCEPT ![a] = "destroyed"]
  /\ UNCHANGED <<phase, readiness, owners, handleVars, queueVars, eventPos, release>>

LeakEvent(a) ==
  /\ a \in events
  /\ events' = events \ {a}
  /\ event' = [event EXCEPT ![a] = "leaked"]
  /\ recycling' = "barred"
  /\ UNCHANGED <<phase, readiness, owners, handleVars, queueVars, eventPos, release>>

WorkerSynced(a) ==
  /\ release = "syncing" /\ EventDone(a)
  /\ \/ DestroyEvent(a) /\ UNCHANGED <<recycling, faults>>
     \/ LeakEvent(a) /\ faults' = faults \cup {"other"}

\* Mutant of WorkerSyncFails: a failed synchronization is taken for a
\* completed one.
WorkerSyncFails_StaysSafe(a) ==
  /\ release = "syncing"
  /\ DestroyEvent(a) /\ UNCHANGED recycling
  /\ faults' = faults \cup {"uncertain"}

WorkerSyncFails(a) ==
  /\ release = "syncing"
  /\ \/ DestroyEvent(a) /\ recycling' = "barred"
     \/ LeakEvent(a)
  /\ faults' = faults \cup {"uncertain"}

WorkerSkipsSync(a) ==
  /\ release = "discarding"
  /\ \/ DestroyEvent(a) /\ UNCHANGED recycling
     \/ LeakEvent(a)
  /\ UNCHANGED faults

WorkerFinish ==
  /\ release \in {"syncing", "discarding"} /\ events = {}
  /\ \/ recycling = "allowed" /\ ReleaseOwners
     \/ recycling = "barred" /\ OrphanOwners
  /\ UNCHANGED <<phase, readiness, events, recycling, faults>>
  /\ UNCHANGED <<handleVars, queueVars, eventVars>>

-----------------------------------------------------------------------------
WriterStep ==
  \/ \E s \in Streams : GetWriteHandle(s) \/ GetSynchronizedWriteHandle(s)
  \/ RetainOwner \/ ProducerSubmit \/ Finalize \/ FinalizeSynchronously
  \/ Cancel \/ Fail \/ DropWriter \/ CopyFromHostBlocking

ReaderStep(r) ==
  \/ \E s \in Streams : AcquireReadHandle(r, s)
  \/ ReaderSubmit(r) \/ FinishRecord(r) \/ FinishPush(r)
  \/ FinishMarkFailed(r) \/ DropReader(r)

LeaseStep(l) ==
  \/ AcquireLease(l) \/ LeaseSynced(l) \/ LeaseSyncFails(l)
  \/ LeaseMarkFailed(l) \/ DropLease(l)

ReleaseStep ==
  \/ DropBuffer
  \/ DestructorInline \/ DestructorSpawn \/ DestructorSpawnFails
  \/ WorkerSelect \/ WorkerFinish
  \/ \E a \in Actors : WorkerSynced(a) \/ WorkerSyncFails(a) \/ WorkerSkipsSync(a)

Next ==
  \/ \E s \in Streams : StreamStep(s)
  \/ WriterStep
  \/ \E r \in Readers : ReaderStep(r)
  \/ \E l \in Leases : LeaseStep(l)
  \/ ReleaseStep

Spec == Init /\ [][Next]_vars

\* The streams make progress and the destructor and the worker run.  Nobody
\* is obliged to take or drop a handle, and no operation is obliged to fail.
Fairness ==
  /\ \A s \in Streams : WF_vars(StreamStep(s))
  /\ WF_vars(DestructorInline) /\ WF_vars(DestructorSpawn)
  /\ WF_vars(WorkerSelect) /\ WF_vars(WorkerFinish)
  /\ \A a \in Actors : WF_vars(WorkerSynced(a)) /\ WF_vars(WorkerSkipsSync(a))

FairSpec == Spec /\ Fairness

-----------------------------------------------------------------------------
(* Properties. *)

\* Every variable has its type, and a position lies within its stream.
Types ==
  /\ phase \in {"Fresh", "Writing", "Ready", "Failed", "Releasing"}
  /\ readiness \in {"NotReady", "SynchronouslyReady", "EventBackedReady"}
  /\ owners \in SUBSET {"stream", "sources"}
  /\ events \in SUBSET Actors
  /\ recycling \in {"allowed", "barred"}
  /\ buffer \in {"alive", "dropped"}
  /\ writer \in {"none", "async", "sync", "spent"}
  /\ reader \in [Readers -> {"idle", "held", "recorded", "recordFailed", "finished", "gone"}]
  /\ lease \in [Leases -> {"idle", "syncing", "syncFailed", "held", "gone"}]
  /\ stream \in [Actors -> Streams]
  /\ issued \in [Streams -> Nat] /\ done \in [Streams -> Nat]
  /\ workPos \in [Actors -> Nat] /\ waitPos \in [Readers -> Nat]
  /\ event \in [Actors -> {"none", "created", "recorded", "destroyed", "leaked"}]
  /\ eventPos \in [Actors -> Nat]
  /\ release \in {"live", "spawned", "syncing", "discarding", "released", "orphaned"}
  /\ faults \in SUBSET Faults

Positions ==
  /\ \A s \in Streams : done[s] <= issued[s]
  /\ \A a \in Actors : /\ workPos[a] <= issued[stream[a]]
                       /\ eventPos[a] <= issued[stream[a]]

TypeOK == Types /\ Positions

\* A write handle is responsible exactly while the buffer is being written,
\* and then nobody reads or has read the buffer: a reservation can be cancelled
\* and taken again, but a buffer that was ever readable is never written again
\* (get_write_handle, get_synchronized_write_handle, cancel, finalize, fail).
WriterExclusive ==
  /\ Responsible <=> phase = "Writing"
  /\ Responsible => /\ \A r \in Readers : reader[r] = "idle"
                    /\ \A l \in Leases : lease[l] = "idle"

\* No reader's work runs, and no blocking lease is handed out, while the
\* producer's work is incomplete (the wait queued by the ReadHandle
\* constructor, the synchronization of BlockingReadyLease).
ReadAfterWrite ==
  /\ \A r \in Readers : Executed(r) => ~Pending(Producer)
  /\ \A l \in Leases : lease[l] = "held" => ~Pending(Producer)

\* The allocation goes back to its owner only when neither the producer's nor
\* any reader's work can still touch it (~BufferState and its worker).
NoUseAfterRelease ==
  release = "released" => \A a \in Actors : ~Pending(a)

\* An allocation on which some operation's completion is unknown never goes
\* back to its owner (every error path that sets release_must_orphan, and
\* "safe" in the worker).
UncertainNeverReleased ==
  release = "released" => "uncertain" \notin faults

\* The same for every operation on the allocation, as the comment on
\* release_must_orphan has it.  The device-to-host copy of
\* copy_to_host_blocking is the exception in the code.
UnknownCompletionNeverReleased ==
  release = "released" => faults \cap {"uncertain", "copyOut"} = {}

\* Orphaning costs a pool one block for ever, so it takes a fault to get
\* there; a cancelled reservation, a refused wait or a failed device-to-host
\* copy alone does not.
NoSpuriousOrphan ==
  release = "orphaned" => faults \cap {"uncertain", "other"} # {}

\* Every event the state or its worker still holds is recorded and not yet
\* destroyed, so that no wait, synchronization or destruction can hit a dead
\* event.
HeldEventsAreLive ==
  \A a \in events : event[a] = "recorded"

\* Once the release is over, every event that was ever created has been
\* destroyed, unless its device could not be selected, and that only on an
\* orphaned allocation.
EventsAccountedFor ==
  /\ release \in {"released", "orphaned"} =>
       \A a \in Actors : event[a] \in {"none", "destroyed", "leaked"}
  /\ release = "released" => \A a \in Actors : event[a] # "leaked"

\* The buffer lets go of the producer's stream and of the sources it reads
\* from only when the producer's work is complete, whatever became of the
\* write handle (cancel, the release paths, and no other).
OwnersOutliveProducer ==
  [][ owners \subseteq owners' \/ ~Pending(Producer) ]_vars

\* The buffer keeps the promise of AllocationUse.
AllocationStatus ==
  IF release \in {"released", "orphaned"} THEN release ELSE "held"

Promise == INSTANCE AllocationUse WITH
  Users  <- Actors,
  status <- AllocationStatus,
  using  <- {a \in Actors : Pending(a)}

KeepsPromise == Promise!Spec

\* Once nobody shares the buffer the release comes to an end, even when
\* readers on other streams are still queued behind the producer.
ReleaseCompletes ==
  ~Referenced ~> release \in {"released", "orphaned"}

=============================================================================
