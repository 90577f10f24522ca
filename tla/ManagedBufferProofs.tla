------------------------- MODULE ManagedBufferProofs -------------------------
(***************************************************************************)
(* Theorems about ManagedBuffer: its types, the exclusion of writer and    *)
(* readers, and the safety of release, for any streams, readers and        *)
(* leases.                                                                 *)
(***************************************************************************)
EXTENDS ManagedBuffer, TLAPS

USE ConstantsAssumption
USE DEF Actors, Faults, bufferVars, handleVars, queueVars, eventVars

-----------------------------------------------------------------------------
(* The inductive invariant. *)

\* Nobody shares the state once its destruction has begun.
DeadIsUnreferenced ==
  release # "live" => ~Referenced /\ phase = "Releasing"

\* Where an event is in its life follows from where its handle is.
ReaderEvents ==
  \A r \in Readers :
    /\ reader[r] \in {"idle", "held"} => event[r] = "none" /\ eventPos[r] = 0
    /\ reader[r] = "recorded" => event[r] = "recorded"
    /\ reader[r] = "idle" => workPos[r] = 0
    /\ r \in events => reader[r] \in {"finished", "gone"}

\* An event is recorded behind the work it stands for.
EventCoversWork ==
  \A a \in Actors : /\ event[a] = "recorded" => 0 < eventPos[a]
                    /\ 0 < eventPos[a] => workPos[a] <= eventPos[a]

\* A handle that will still record an event for the actor's work, or fail.
Answers(a) ==
  IF a = Producer THEN Responsible
  ELSE reader[a] \in {"held", "recorded", "recordFailed"}

\* While the allocation is held, work that is pending is somebody's concern:
\* a handle that answers for it, an event held for release, or the mark that
\* keeps the allocation from being released.
Custody ==
  /\ release = "live" =>
       \A a \in Actors : Pending(a) =>
         Answers(a) \/ a \in events \/ recycling = "barred"
  /\ release \in {"spawned", "syncing", "discarding"} =>
       \A a \in Actors : Pending(a) => a \in events \/ recycling = "barred"
  /\ release = "released" => \A a \in Actors : ~Pending(a)

\* The same for operations whose completion is unknown.
UncertainCustody ==
  "uncertain" \in faults =>
    /\ release = "live" => \/ recycling = "barred"
                           \/ \E r \in Readers : reader[r] = "recordFailed"
                           \/ \E l \in Leases : lease[l] = "syncFailed"
    /\ release \in {"spawned", "syncing", "discarding"} => recycling = "barred"
    /\ release # "released"

\* A worker without its device has barred the allocation already.
DiscardingIsBarred == release = "discarding" => recycling = "barred"

\* A buffer that has not been written has no event, no work and no readers.
FreshIsUntouched ==
  /\ phase = "Fresh" => /\ workPos[Producer] = 0
                        /\ \A r \in Readers : reader[r] = "idle"
                        /\ \A l \in Leases : lease[l] = "idle"
  /\ phase \in {"Fresh", "Writing"} => Producer \notin events /\ eventPos[Producer] = 0

\* The producer's work is complete, or reader r's stream waits, in front of r's
\* work, for an event recorded behind the producer's.
BehindProducer(r) ==
  \/ ~Pending(Producer)
  \/ /\ 0 < eventPos[Producer] /\ workPos[Producer] <= eventPos[Producer]
     /\ 0 < waitPos[r] /\ waitPos[r] <= issued[stream[r]]
     /\ waitPos[r] <= done[stream[r]] => EventDone(Producer)
     /\ 0 < workPos[r] => waitPos[r] < workPos[r]

ReadOrder ==
  /\ phase = "Ready" /\ Pending(Producer) => Producer \in events
  /\ \A r \in Readers :
       reader[r] = "held" \/ 0 < workPos[r] => reader[r] # "idle" /\ BehindProducer(r)
  /\ \A l \in Leases : lease[l] = "held" => ~Pending(Producer)

IInv ==
  /\ Types
  /\ Positions
  /\ DeadIsUnreferenced
  /\ WriterExclusive
  /\ FreshIsUntouched
  /\ ReaderEvents
  /\ EventCoversWork
  /\ HeldEventsAreLive
  /\ Custody
  /\ UncertainCustody
  /\ DiscardingIsBarred
  /\ ReadOrder

-----------------------------------------------------------------------------
(* Every step preserves the invariant.                                      *)

LEMMA StreamPreserves ==
  ASSUME IInv, NEW s \in Streams, StreamStep(s) PROVE IInv'
<1> USE DEF IInv, StreamStep, EventDone, Responsible
<1>1. Types'
  BY DEF Types
<1>2. Positions'
  BY DEF Positions, FreshIsUntouched, ReaderEvents, WriterExclusive, Types
<1>3. DeadIsUnreferenced'
  BY DEF DeadIsUnreferenced, Referenced, Types
<1>4. WriterExclusive'
  BY DEF WriterExclusive, FreshIsUntouched, Types
<1>5. FreshIsUntouched'
  BY DEF FreshIsUntouched, WriterExclusive, Types
<1>6. ReaderEvents'
  BY DEF ReaderEvents, WriterExclusive, HeldEventsAreLive, Types
<1>7. EventCoversWork'
  BY DEF EventCoversWork, Positions, ReaderEvents, FreshIsUntouched,
         WriterExclusive, HeldEventsAreLive, Types
<1>8. HeldEventsAreLive'
  BY DEF HeldEventsAreLive, ReaderEvents, FreshIsUntouched, WriterExclusive,
         Types
<1>9. Custody'
  BY DEF Custody, Answers, Pending, DeadIsUnreferenced, Referenced,
         WriterExclusive, HeldEventsAreLive, EventCoversWork,
         FreshIsUntouched, ReaderEvents, DiscardingIsBarred, Types
<1>10. UncertainCustody'
  BY DEF UncertainCustody, DeadIsUnreferenced, Referenced, DiscardingIsBarred,
         Types
<1>11. DiscardingIsBarred'
  BY DEF DiscardingIsBarred, Types
<1>12. ReadOrder'
  BY DEF ReadOrder, BehindProducer, Pending, Positions, WriterExclusive,
         FreshIsUntouched, EventCoversWork, HeldEventsAreLive, ReaderEvents,
         DeadIsUnreferenced, Referenced, Types
<1>13. QED
  BY <1>1, <1>2, <1>3, <1>4, <1>5, <1>6, <1>7, <1>8, <1>9, <1>10, <1>11, <1>12

LEMMA WriterPreserves ==
  ASSUME IInv, WriterStep PROVE IInv'
<1> USE DEF IInv, WriterStep, GetWriteHandle, GetSynchronizedWriteHandle,
            RetainOwner, ProducerSubmit, SubmitWork, Issue, Finalize,
            FinalizeRecorded, FinalizeFailed, RecordEvent,
            FinalizeSynchronously, Cancel, Fail, MarkWriterFailed, DropWriter,
            CopyFromHostBlocking, EventDone, Responsible, Pending
<1>1. Types'
  <2>1. ASSUME NEW s \in Streams, GetWriteHandle(s) PROVE Types'
    BY <2>1 DEF Types
  <2>2. ASSUME NEW s \in Streams, GetSynchronizedWriteHandle(s) PROVE Types'
    BY <2>2 DEF Types
  <2>3. CASE RetainOwner
    BY <2>3 DEF Types
  <2>4. CASE ProducerSubmit
    BY <2>4 DEF Types
  <2>5. CASE Finalize
    <3>1. CASE FinalizeRecorded
      BY <2>5, <3>1 DEF Types
    <3>2. CASE FinalizeFailed
      BY <2>5, <3>2 DEF Types
    <3>3. QED
      BY <2>5, <3>1, <3>2
  <2>6. CASE FinalizeSynchronously
    BY <2>6 DEF Types
  <2>7. CASE Cancel
    BY <2>7 DEF Types
  <2>8. CASE Fail
    BY <2>8 DEF Types
  <2>9. CASE DropWriter
    <3>1. CASE Responsible /\ MarkWriterFailed /\ faults' = faults \cup {"other"}
      BY <2>9, <3>1 DEF Types
    <3>2. CASE ~Responsible /\ UNCHANGED <<bufferVars, faults>>
      BY <2>9, <3>2 DEF Types
    <3>3. QED
      BY <2>9, <3>1, <3>2
  <2>10. CASE CopyFromHostBlocking
    BY <2>10 DEF Types
  <2>11. QED
    BY <2>1, <2>2, <2>3, <2>4, <2>5, <2>6, <2>7, <2>8, <2>9, <2>10
<1>2. Positions'
  BY DEF Positions, FreshIsUntouched, ReaderEvents, WriterExclusive, Types
<1>3. DeadIsUnreferenced'
  BY DEF DeadIsUnreferenced, Referenced, Types
<1>4. WriterExclusive'
  BY DEF WriterExclusive, FreshIsUntouched, Types
<1>5. FreshIsUntouched'
  BY DEF FreshIsUntouched, WriterExclusive, Types
<1>6. ReaderEvents'
  BY DEF ReaderEvents, WriterExclusive, HeldEventsAreLive, Types
<1>7. EventCoversWork'
  BY DEF EventCoversWork, Positions, ReaderEvents, FreshIsUntouched,
         WriterExclusive, HeldEventsAreLive, Types
<1>8. HeldEventsAreLive'
  BY DEF HeldEventsAreLive, ReaderEvents, FreshIsUntouched, WriterExclusive,
         Types
<1>9. Custody'
  BY DEF Custody, Answers, DeadIsUnreferenced, Referenced, WriterExclusive,
         HeldEventsAreLive, EventCoversWork, FreshIsUntouched, ReaderEvents,
         DiscardingIsBarred, Types
<1>10. UncertainCustody'
  BY DEF UncertainCustody, DeadIsUnreferenced, Referenced, DiscardingIsBarred,
         Types
<1>11. DiscardingIsBarred'
  BY DEF DiscardingIsBarred, Types
<1>12. ReadOrder'
  BY DEF ReadOrder, BehindProducer, Positions, WriterExclusive,
         FreshIsUntouched, EventCoversWork, HeldEventsAreLive, ReaderEvents,
         DeadIsUnreferenced, Referenced, Types
<1>13. QED
  BY <1>1, <1>2, <1>3, <1>4, <1>5, <1>6, <1>7, <1>8, <1>9, <1>10, <1>11, <1>12

LEMMA ReaderPreserves ==
  ASSUME IInv, NEW r \in Readers, ReaderStep(r) PROVE IInv'
<1> USE DEF IInv, ReaderStep, AcquireReadHandle, Issue, SetReader,
            ReaderSubmit, SubmitWork, FinishRecord, RecordEvent, FinishPush,
            FinishMarkFailed, DropReader, EventDone, Responsible
<1>1. Types'
  <2>1. ASSUME NEW s \in Streams, AcquireReadHandle(r, s) PROVE Types'
    <3>1. reader' \in [Readers -> {"idle", "held", "recorded", "recordFailed", "finished",
                                   "gone"}]
      BY <2>1 DEF Types
    <3>2. faults' \in SUBSET Faults
      BY <2>1 DEF Types
    <3>3. QED
      BY <2>1, <3>1, <3>2 DEF Types
  <2>2. CASE ReaderSubmit(r)
    BY <2>2 DEF Types
  <2>3. CASE FinishRecord(r)
    <3>1. reader' \in [Readers -> {"idle", "held", "recorded", "recordFailed", "finished",
                                   "gone"}]
      BY <2>3 DEF Types
    <3>2. faults' \in SUBSET Faults
      BY <2>3 DEF Types
    <3>3. QED
      BY <2>3, <3>1, <3>2 DEF Types
  <2>4. CASE FinishPush(r)
    <3>1. reader' \in [Readers -> {"idle", "held", "recorded", "recordFailed", "finished",
                                   "gone"}]
      BY <2>4 DEF Types
    <3>2. faults' \in SUBSET Faults /\ events' \in SUBSET Actors
      BY <2>4 DEF Types
    <3>3. QED
      BY <2>4, <3>1, <3>2 DEF Types
  <2>5. CASE FinishMarkFailed(r)
    BY <2>5 DEF Types
  <2>6. CASE DropReader(r)
    BY <2>6 DEF Types
  <2>7. QED
    BY <2>1, <2>2, <2>3, <2>4, <2>5, <2>6
<1>2. Positions'
  BY DEF Positions, FreshIsUntouched, ReaderEvents, WriterExclusive, Types
<1>3. DeadIsUnreferenced'
  BY DEF DeadIsUnreferenced, Referenced, Types
<1>4. WriterExclusive'
  BY DEF WriterExclusive, FreshIsUntouched, Types
<1>5. FreshIsUntouched'
  BY DEF FreshIsUntouched, WriterExclusive, Types
<1>6. ReaderEvents'
  BY DEF ReaderEvents, WriterExclusive, HeldEventsAreLive, Types
<1>7. EventCoversWork'
  BY DEF EventCoversWork, Positions, ReaderEvents, FreshIsUntouched,
         WriterExclusive, HeldEventsAreLive, Types
<1>8. HeldEventsAreLive'
  BY DEF HeldEventsAreLive, ReaderEvents, FreshIsUntouched, WriterExclusive,
         Types
<1>9. Custody'
  BY DEF Custody, Answers, Pending, DeadIsUnreferenced, Referenced,
         WriterExclusive, HeldEventsAreLive, EventCoversWork,
         FreshIsUntouched, ReaderEvents, DiscardingIsBarred, Types
<1>10. UncertainCustody'
  BY DEF UncertainCustody, DeadIsUnreferenced, Referenced, DiscardingIsBarred,
         Types
<1>11. DiscardingIsBarred'
  BY DEF DiscardingIsBarred, Types
<1>12. ReadOrder'
  BY DEF ReadOrder, BehindProducer, Pending, Positions, WriterExclusive,
         FreshIsUntouched, EventCoversWork, HeldEventsAreLive, ReaderEvents,
         DeadIsUnreferenced, Referenced, Types
<1>13. QED
  BY <1>1, <1>2, <1>3, <1>4, <1>5, <1>6, <1>7, <1>8, <1>9, <1>10, <1>11, <1>12

LEMMA LeasePreserves ==
  ASSUME IInv, NEW l \in Leases, LeaseStep(l) PROVE IInv'
<1> USE DEF IInv, LeaseStep, AcquireLease, SetLease, LeaseSynced,
            LeaseSyncFails, LeaseMarkFailed, DropLease, EventDone, Responsible
<1>1. Types'
  <2>1. CASE AcquireLease(l)
    BY <2>1 DEF Types
  <2>2. CASE LeaseSynced(l)
    BY <2>2 DEF Types
  <2>3. CASE LeaseSyncFails(l)
    BY <2>3 DEF Types
  <2>4. CASE LeaseMarkFailed(l)
    BY <2>4 DEF Types
  <2>5. CASE DropLease(l)
    <3>1. CASE UNCHANGED faults
      BY <2>5, <3>1 DEF Types
    <3>2. CASE faults' = faults \cup {"copyOut"}
      BY <2>5, <3>2 DEF Types
    <3>3. QED
      BY <2>5, <3>1, <3>2
  <2>6. QED
    BY <2>1, <2>2, <2>3, <2>4, <2>5
<1>2. Positions'
  BY DEF Positions, FreshIsUntouched, ReaderEvents, WriterExclusive, Types
<1>3. DeadIsUnreferenced'
  BY DEF DeadIsUnreferenced, Referenced, Types
<1>4. WriterExclusive'
  BY DEF WriterExclusive, FreshIsUntouched, Types
<1>5. FreshIsUntouched'
  BY DEF FreshIsUntouched, WriterExclusive, Types
<1>6. ReaderEvents'
  BY DEF ReaderEvents, WriterExclusive, HeldEventsAreLive, Types
<1>7. EventCoversWork'
  BY DEF EventCoversWork, Positions, ReaderEvents, FreshIsUntouched,
         WriterExclusive, HeldEventsAreLive, Types
<1>8. HeldEventsAreLive'
  BY DEF HeldEventsAreLive, ReaderEvents, FreshIsUntouched, WriterExclusive,
         Types
<1>9. Custody'
  BY DEF Custody, Answers, Pending, DeadIsUnreferenced, Referenced,
         WriterExclusive, HeldEventsAreLive, EventCoversWork,
         FreshIsUntouched, ReaderEvents, DiscardingIsBarred, Types
<1>10. UncertainCustody'
  BY DEF UncertainCustody, DeadIsUnreferenced, Referenced, DiscardingIsBarred,
         Types
<1>11. DiscardingIsBarred'
  BY DEF DiscardingIsBarred, Types
<1>12. ReadOrder'
  <2> USE DEF ReadOrder, BehindProducer, Pending, Positions, WriterExclusive,
              FreshIsUntouched, EventCoversWork, HeldEventsAreLive,
              ReaderEvents, DeadIsUnreferenced, Referenced, Types
  <2>1. CASE AcquireLease(l)
    BY <2>1
  <2>2. CASE LeaseSynced(l)
    BY <2>2
  <2>3. CASE LeaseSyncFails(l)
    BY <2>3
  <2>4. CASE LeaseMarkFailed(l)
    BY <2>4
  <2>5. CASE DropLease(l)
    BY <2>5
  <2>6. QED
    BY <2>1, <2>2, <2>3, <2>4, <2>5
<1>13. QED
  BY <1>1, <1>2, <1>3, <1>4, <1>5, <1>6, <1>7, <1>8, <1>9, <1>10, <1>11, <1>12

LEMMA ReleasePreserves ==
  ASSUME IInv, ReleaseStep PROVE IInv'
<1> USE DEF IInv, ReleaseStep, DropBuffer, DestructorInline, ReleaseOwners,
            OrphanOwners, DestructorSpawn, DestructorSpawnFails, WorkerSelect,
            WorkerFinish, WorkerSynced, DestroyEvent, LeakEvent,
            WorkerSyncFails, WorkerSkipsSync, EventDone, Responsible,
            Referenced
<1>1. Types'
  <2>1. CASE DropBuffer
    BY <2>1 DEF Types
  <2>2. CASE DestructorInline
    BY <2>2 DEF Types
  <2>3. CASE DestructorSpawn
    BY <2>3 DEF Types
  <2>4. CASE DestructorSpawnFails
    BY <2>4 DEF Types
  <2>5. CASE WorkerSelect
    BY <2>5 DEF Types
  <2>6. CASE WorkerFinish
    <3>1. CASE ReleaseOwners
      BY <2>6, <3>1 DEF Types
    <3>2. CASE OrphanOwners
      BY <2>6, <3>2 DEF Types
    <3>3. QED
      BY <2>6, <3>1, <3>2
  <2>7. ASSUME NEW a \in Actors, WorkerSynced(a) PROVE Types'
    <3>1. CASE DestroyEvent(a)
      <4>1. /\ event' \in [Actors -> {"none", "created", "recorded", "destroyed", "leaked"}]
            /\ events' \in SUBSET Actors
        BY <3>1 DEF Types
      <4>2. QED
        BY <2>7, <3>1, <4>1 DEF Types
    <3>2. CASE LeakEvent(a)
      BY <2>7, <3>2 DEF Types
    <3>3. QED
      BY <2>7, <3>1, <3>2
  <2>8. ASSUME NEW a \in Actors, WorkerSyncFails(a) PROVE Types'
    <3>1. CASE DestroyEvent(a)
      BY <2>8, <3>1 DEF Types
    <3>2. CASE LeakEvent(a)
      BY <2>8, <3>2 DEF Types
    <3>3. QED
      BY <2>8, <3>1, <3>2
  <2>9. ASSUME NEW a \in Actors, WorkerSkipsSync(a) PROVE Types'
    <3>1. CASE DestroyEvent(a)
      BY <2>9, <3>1 DEF Types
    <3>2. CASE LeakEvent(a)
      BY <2>9, <3>2 DEF Types
    <3>3. QED
      BY <2>9, <3>1, <3>2
  <2>10. QED
    BY <2>1, <2>2, <2>3, <2>4, <2>5, <2>6, <2>7, <2>8, <2>9
<1>2. Positions'
  BY DEF Positions, FreshIsUntouched, ReaderEvents, WriterExclusive, Types
<1>3. DeadIsUnreferenced'
  BY DEF DeadIsUnreferenced, Types
<1>4. WriterExclusive'
  BY DEF WriterExclusive, FreshIsUntouched, Types
<1>5. FreshIsUntouched'
  BY DEF FreshIsUntouched, WriterExclusive, Types
<1>6. ReaderEvents'
  BY DEF ReaderEvents, WriterExclusive, HeldEventsAreLive, Types
<1>7. EventCoversWork'
  BY DEF EventCoversWork, Positions, ReaderEvents, FreshIsUntouched,
         WriterExclusive, HeldEventsAreLive, Types
<1>8. HeldEventsAreLive'
  BY DEF HeldEventsAreLive, ReaderEvents, FreshIsUntouched, WriterExclusive,
         Types
<1>9. Custody'
  BY DEF Custody, Answers, Pending, DeadIsUnreferenced, WriterExclusive,
         HeldEventsAreLive, EventCoversWork, FreshIsUntouched, ReaderEvents,
         DiscardingIsBarred, Types
<1>10. UncertainCustody'
  BY DEF UncertainCustody, DeadIsUnreferenced, DiscardingIsBarred, Types
<1>11. DiscardingIsBarred'
  BY DEF DiscardingIsBarred, Types
<1>12. ReadOrder'
  <2> USE DEF ReadOrder, BehindProducer, Pending, Positions, WriterExclusive,
              FreshIsUntouched, EventCoversWork, HeldEventsAreLive,
              ReaderEvents, DeadIsUnreferenced, Types
  <2>1. CASE DropBuffer
    BY <2>1
  <2>2. CASE DestructorInline
    BY <2>2
  <2>3. CASE DestructorSpawn
    BY <2>3
  <2>4. CASE DestructorSpawnFails
    BY <2>4
  <2>5. CASE WorkerSelect
    BY <2>5
  <2>6. CASE WorkerFinish
    BY <2>6
  <2>7. ASSUME NEW a \in Actors, WorkerSynced(a) PROVE ReadOrder'
    BY <2>7
  <2>8. ASSUME NEW a \in Actors, WorkerSyncFails(a) PROVE ReadOrder'
    BY <2>8
  <2>9. ASSUME NEW a \in Actors, WorkerSkipsSync(a) PROVE ReadOrder'
    BY <2>9
  <2>10. QED
    BY <2>1, <2>2, <2>3, <2>4, <2>5, <2>6, <2>7, <2>8, <2>9
<1>13. QED
  BY <1>1, <1>2, <1>3, <1>4, <1>5, <1>6, <1>7, <1>8, <1>9, <1>10, <1>11, <1>12

LEMMA InitInvariant == Init => IInv
<1> SUFFICES ASSUME Init PROVE IInv
  OBVIOUS
<1> USE DEF Init
<1>1. Types
  BY DEF Types
<1>2. Positions
  BY DEF Positions
<1>3. DeadIsUnreferenced /\ DiscardingIsBarred /\ UncertainCustody
  BY DEF DeadIsUnreferenced, DiscardingIsBarred, UncertainCustody
<1>4. WriterExclusive /\ FreshIsUntouched /\ ReaderEvents /\ EventCoversWork
  BY DEF WriterExclusive, FreshIsUntouched, ReaderEvents, EventCoversWork, Responsible
<1>5. HeldEventsAreLive
  BY DEF HeldEventsAreLive
<1>6. Custody /\ ReadOrder
  BY DEF Custody, ReadOrder, Pending
<1>7. QED
  BY <1>1, <1>2, <1>3, <1>4, <1>5, <1>6 DEF IInv

LEMMA StutterPreserves == IInv /\ UNCHANGED vars => IInv'
<1> SUFFICES ASSUME IInv, UNCHANGED vars PROVE IInv'
  OBVIOUS
<1> USE DEF IInv, vars
<1>1. Types' /\ Positions' /\ DeadIsUnreferenced' /\ DiscardingIsBarred'
  BY DEF Types, Positions, DeadIsUnreferenced, DiscardingIsBarred, Referenced
<1>2. WriterExclusive' /\ FreshIsUntouched' /\ ReaderEvents' /\ EventCoversWork'
  BY DEF WriterExclusive, FreshIsUntouched, ReaderEvents, EventCoversWork, Responsible
<1>3. HeldEventsAreLive' /\ UncertainCustody'
  BY DEF HeldEventsAreLive, UncertainCustody
<1>4. Custody' /\ ReadOrder'
  BY DEF Custody, ReadOrder, Pending, Answers, Responsible, BehindProducer, EventDone
<1>5. QED
  BY <1>1, <1>2, <1>3, <1>4

THEOREM Invariance == Spec => []IInv
<1>1. IInv /\ [Next]_vars => IInv'
  <2> SUFFICES ASSUME IInv, [Next]_vars PROVE IInv'
    OBVIOUS
  <2>1. CASE UNCHANGED vars
    BY <2>1, StutterPreserves
  <2>2. CASE Next
    BY <2>2, StreamPreserves, WriterPreserves, ReaderPreserves, LeasePreserves,
       ReleasePreserves DEF Next
  <2>3. QED
    BY <2>1, <2>2
<1>2. QED
  BY InitInvariant, <1>1, PTL DEF Spec

-----------------------------------------------------------------------------
(* The theorems.                                                            *)

\* Every variable keeps its type, and a position lies within its stream.
THEOREM TypeCorrect == Spec => []TypeOK
<1>1. IInv => TypeOK
  BY DEF IInv, TypeOK
<1>2. QED
  BY Invariance, <1>1, PTL

\* Writing excludes reading, and what was readable is never written again.
THEOREM WriterIsExclusive == Spec => []WriterExclusive
<1>1. IInv => WriterExclusive
  BY DEF IInv
<1>2. QED
  BY Invariance, <1>1, PTL

\* Readers and leases see the producer's complete work.
THEOREM ReadsFollowWrites == Spec => []ReadAfterWrite
<1>1. IInv => ReadAfterWrite
  <2> SUFFICES ASSUME IInv PROVE ReadAfterWrite
    OBVIOUS
  <2> USE DEF IInv, Types, ReadOrder
  <2>1. ASSUME NEW r \in Readers, Executed(r) PROVE ~Pending(Producer)
    <3>1. BehindProducer(r)
      BY <2>1 DEF Executed
    <3>2. QED
      BY <2>1, <3>1 DEF Executed, Pending, BehindProducer, EventDone
  <2>2. QED
    BY <2>1 DEF ReadAfterWrite
<1>2. QED
  BY Invariance, <1>1, PTL

\* No work of the producer or of a reader outlives the release.
THEOREM ReleaseIsSafe == Spec => []NoUseAfterRelease
<1>1. IInv => NoUseAfterRelease
  BY DEF IInv, Custody, NoUseAfterRelease
<1>2. QED
  BY Invariance, <1>1, PTL

\* What is uncertain is never released.
THEOREM UncertainIsKept == Spec => []UncertainNeverReleased
<1>1. IInv => UncertainNeverReleased
  BY DEF IInv, UncertainCustody, UncertainNeverReleased
<1>2. QED
  BY Invariance, <1>1, PTL

\* No operation meets an event that is not recorded or already destroyed.
THEOREM EventsAreLive == Spec => []HeldEventsAreLive
<1>1. IInv => HeldEventsAreLive
  BY DEF IInv
<1>2. QED
  BY Invariance, <1>1, PTL

\* Release leaves nothing pending behind: what Custody says when it happens.
LEMMA ReleaseFindsNothingPending ==
  ASSUME IInv, DestructorInline \/ WorkerFinish, release' = "released"
  PROVE  \A a \in Actors : ~Pending(a)
<1> USE DEF IInv, Types, Custody
<1>1. CASE DestructorInline
  BY <1>1 DEF DestructorInline, ReleaseOwners, OrphanOwners, Answers, Referenced,
     Responsible
<1>2. CASE WorkerFinish
  BY <1>2 DEF WorkerFinish, ReleaseOwners, OrphanOwners
<1>3. QED
  BY <1>1, <1>2

\* The stream and the sources of the producer are kept until its work is done.
THEOREM OwnersAreKept == Spec => OwnersOutliveProducer
<1>1. IInv /\ [Next]_vars => [owners \subseteq owners' \/ ~Pending(Producer)]_vars
  <2> SUFFICES ASSUME IInv, Next PROVE owners \subseteq owners' \/ ~Pending(Producer)
    OBVIOUS
  <2>1. ASSUME NEW s \in Streams, StreamStep(s) PROVE owners \subseteq owners'
    BY <2>1 DEF StreamStep
  <2>2. CASE WriterStep
    <3>1. CASE Cancel
      BY <3>1 DEF Cancel, Pending, IInv, Types
    <3>2. CASE WriterStep /\ ~Cancel
      BY <3>2 DEF WriterStep, GetWriteHandle, GetSynchronizedWriteHandle, RetainOwner,
         ProducerSubmit, Finalize, FinalizeSynchronously, Fail, DropWriter,
         CopyFromHostBlocking, MarkWriterFailed
    <3>3. QED
      BY <2>2, <3>1, <3>2
  <2>3. ASSUME NEW r \in Readers, ReaderStep(r) PROVE owners \subseteq owners'
    BY <2>3 DEF ReaderStep, AcquireReadHandle, ReaderSubmit, FinishRecord, FinishPush,
       FinishMarkFailed, DropReader
  <2>4. ASSUME NEW l \in Leases, LeaseStep(l) PROVE owners \subseteq owners'
    BY <2>4 DEF LeaseStep, AcquireLease, LeaseSynced, LeaseSyncFails, LeaseMarkFailed,
       DropLease
  <2>5. CASE ReleaseStep
    <3>1. CASE DestructorInline \/ WorkerFinish
      <4>1. CASE release' = "released"
        BY <3>1, <4>1, ReleaseFindsNothingPending
      <4>2. CASE release' # "released"
        BY <3>1, <4>2 DEF DestructorInline, WorkerFinish, ReleaseOwners, OrphanOwners
      <4>3. QED
        BY <4>1, <4>2
    <3>2. CASE DropBuffer \/ DestructorSpawn \/ DestructorSpawnFails \/ WorkerSelect
      BY <3>2 DEF DropBuffer, DestructorSpawn, DestructorSpawnFails, WorkerSelect,
         OrphanOwners
    <3>3. ASSUME NEW a \in Actors,
                 WorkerSynced(a) \/ WorkerSyncFails(a) \/ WorkerSkipsSync(a)
          PROVE  owners \subseteq owners'
      BY <3>3 DEF WorkerSynced, WorkerSyncFails, WorkerSkipsSync, DestroyEvent, LeakEvent
    <3>4. QED
      BY <2>5, <3>1, <3>2, <3>3 DEF ReleaseStep
  <2>6. QED
    BY <2>1, <2>2, <2>3, <2>4, <2>5 DEF Next
<1>2. QED
  BY Invariance, <1>1, PTL DEF Spec, OwnersOutliveProducer

-----------------------------------------------------------------------------
(* Events and orphans: a second invariant, on top of the first.             *)

\* An event that exists is held by the state or its worker, or by the reader
\* that is about to hand it over; one that leaked has barred the allocation.
EventsOwned ==
  /\ \A a \in Actors :
       /\ event[a] = "recorded" =>
            a \in events \/ (a \in Readers /\ reader[a] \in {"recorded", "recordFailed"})
       /\ event[a] = "created" => a \in Readers /\ reader[a] = "recordFailed"
       /\ event[a] = "leaked" => recycling = "barred" \/ release = "orphaned"
  /\ release \in {"released", "orphaned"} => events = {}
  /\ release = "released" => recycling = "allowed"

\* Whatever bars or orphans the allocation has a cause among the faults.
BarredHasCause ==
  /\ \A r \in Readers : reader[r] = "recordFailed" => "uncertain" \in faults
  /\ \A l \in Leases : lease[l] = "syncFailed" => "uncertain" \in faults
  /\ recycling = "barred" \/ release = "orphaned" =>
       "uncertain" \in faults \/ "other" \in faults

Accounts == EventsOwned /\ BarredHasCause

LEMMA HandlesKeepAccounts ==
  ASSUME IInv, Accounts,
         \/ \E s \in Streams : StreamStep(s)
         \/ WriterStep
         \/ \E l \in Leases : LeaseStep(l)
  PROVE  Accounts'
<1> USE DEF IInv, Types, Accounts, EventsOwned, BarredHasCause, DeadIsUnreferenced, Referenced
<1>1. ASSUME NEW s \in Streams, StreamStep(s) PROVE Accounts'
  BY <1>1 DEF StreamStep
<1>2. CASE WriterStep
  <2>1. release = "live"
    BY <1>2 DEF WriterStep, GetWriteHandle, GetSynchronizedWriteHandle, RetainOwner,
       ProducerSubmit, Finalize, FinalizeSynchronously, Cancel, Fail, DropWriter,
       CopyFromHostBlocking, Responsible
  <2>2. CASE Finalize
    BY <2>1, <2>2 DEF Finalize, FinalizeRecorded, FinalizeFailed, RecordEvent
  <2>3. CASE Fail \/ DropWriter \/ CopyFromHostBlocking
    BY <2>1, <2>3 DEF Fail, DropWriter, CopyFromHostBlocking, MarkWriterFailed
  <2>4. CASE WriterStep /\ ~Finalize /\ ~(Fail \/ DropWriter \/ CopyFromHostBlocking)
    BY <2>1, <2>4 DEF WriterStep, GetWriteHandle, GetSynchronizedWriteHandle, RetainOwner,
       ProducerSubmit, FinalizeSynchronously, Cancel
  <2>5. QED
    BY <1>2, <2>2, <2>3, <2>4
<1>3. ASSUME NEW l \in Leases, LeaseStep(l) PROVE Accounts'
  BY <1>3 DEF LeaseStep, AcquireLease, LeaseSynced, LeaseSyncFails, LeaseMarkFailed,
     DropLease, SetLease
<1>4. QED
  BY <1>1, <1>2, <1>3

LEMMA ReadersKeepAccounts ==
  ASSUME IInv, Accounts, NEW r \in Readers, ReaderStep(r) PROVE Accounts'
<1> USE DEF IInv, Types, Accounts, EventsOwned, BarredHasCause, DeadIsUnreferenced,
            Referenced, ReaderEvents, SetReader
<1>1. CASE \E s \in Streams : AcquireReadHandle(r, s)
  BY <1>1 DEF AcquireReadHandle
<1>2. CASE ReaderSubmit(r) \/ DropReader(r)
  BY <1>2 DEF ReaderSubmit, DropReader
<1>3. CASE FinishRecord(r)
  BY <1>3 DEF FinishRecord, RecordEvent
<1>4. CASE FinishPush(r)
  BY <1>4 DEF FinishPush
<1>5. CASE FinishMarkFailed(r)
  BY <1>5 DEF FinishMarkFailed
<1>6. QED
  BY <1>1, <1>2, <1>3, <1>4, <1>5 DEF ReaderStep

LEMMA ReleaseKeepsAccounts ==
  ASSUME IInv, Accounts, ReleaseStep PROVE Accounts'
<1> USE DEF IInv, Types, Accounts, EventsOwned, BarredHasCause, DeadIsUnreferenced,
            Referenced, ReaderEvents
<1>1. CASE DropBuffer
  BY <1>1 DEF DropBuffer
<1>2. CASE DestructorInline
  BY <1>2 DEF DestructorInline, ReleaseOwners, OrphanOwners
<1>3. CASE DestructorSpawn
  BY <1>3 DEF DestructorSpawn
<1>4. CASE DestructorSpawnFails
  BY <1>4 DEF DestructorSpawnFails, OrphanOwners
<1>5. CASE WorkerSelect
  BY <1>5 DEF WorkerSelect
<1>6. CASE WorkerFinish
  BY <1>6 DEF WorkerFinish, ReleaseOwners, OrphanOwners
<1>7. ASSUME NEW a \in Actors, WorkerSynced(a) PROVE Accounts'
  BY <1>7 DEF WorkerSynced, DestroyEvent, LeakEvent
<1>8. ASSUME NEW a \in Actors, WorkerSyncFails(a) PROVE Accounts'
  BY <1>8 DEF WorkerSyncFails, DestroyEvent, LeakEvent
<1>9. ASSUME NEW a \in Actors, WorkerSkipsSync(a) PROVE Accounts'
  BY <1>9 DEF WorkerSkipsSync, DestroyEvent, LeakEvent, DiscardingIsBarred
<1>10. QED
  BY <1>1, <1>2, <1>3, <1>4, <1>5, <1>6, <1>7, <1>8, <1>9 DEF ReleaseStep

THEOREM AccountsInvariance == Spec => []Accounts
<1>1. Init => Accounts
  BY DEF Init, Accounts, EventsOwned, BarredHasCause
<1>2. IInv /\ Accounts /\ [Next]_vars => Accounts'
  <2> SUFFICES ASSUME IInv, Accounts, [Next]_vars PROVE Accounts'
    OBVIOUS
  <2>1. CASE UNCHANGED vars
    BY <2>1 DEF vars, Accounts, EventsOwned, BarredHasCause
  <2>2. CASE Next
    BY <2>2, HandlesKeepAccounts, ReadersKeepAccounts, ReleaseKeepsAccounts DEF Next
  <2>3. QED
    BY <2>1, <2>2
<1>3. QED
  BY Invariance, <1>1, <1>2, PTL DEF Spec

\* Every event is destroyed by the end of the release, or has leaked with an
\* orphan.
THEOREM EventsAreAccountedFor == Spec => []EventsAccountedFor
<1>1. IInv /\ Accounts => EventsAccountedFor
  <2> SUFFICES ASSUME IInv, Accounts PROVE EventsAccountedFor
    OBVIOUS
  <2> USE DEF IInv, Types, Accounts, EventsOwned
  <2>1. release # "live" => \A r \in Readers : reader[r] \in {"idle", "gone"}
    BY DEF DeadIsUnreferenced, Referenced
  <2>2. QED
    BY <2>1 DEF EventsAccountedFor
<1>2. QED
  BY Invariance, AccountsInvariance, <1>1, PTL

\* Nothing is orphaned without a cause.
THEOREM OrphansHaveCauses == Spec => []NoSpuriousOrphan
<1>1. Accounts => NoSpuriousOrphan
  BY DEF Accounts, BarredHasCause, NoSpuriousOrphan
<1>2. QED
  BY AccountsInvariance, <1>1, PTL

-----------------------------------------------------------------------------
(* The refinement of AllocationUse.                                         *)

\* A step that leaves the set of pending actors and the status alone.
LEMMA SamePendingStutters ==
  ASSUME \A a \in Actors : Pending(a)' <=> Pending(a),
         release' = release
  PROVE  UNCHANGED Promise!vars
<1>1. {a \in Actors : Pending(a)}' = {a \in Actors : Pending(a)}
  OBVIOUS
<1>2. AllocationStatus' = AllocationStatus
  BY DEF AllocationStatus
<1>3. QED
  BY <1>1, <1>2 DEF Promise!vars

\* Submitting work makes its actor a user, and leaves the others as they are.
LEMMA SubmissionIsUse ==
  ASSUME IInv, NEW a \in Actors, SubmitWork(a), release = "live", release' = release
  PROVE  Promise!Use(a)
<1> USE DEF IInv, Types, SubmitWork, Issue, Pending
<1>1. Pending(a)'
  BY DEF Positions
<1>2. ASSUME NEW b \in Actors, b # a PROVE Pending(b)' <=> Pending(b)
  BY <1>2
<1>3. {b \in Actors : Pending(b)}' = {b \in Actors : Pending(b)} \cup {a}
  BY <1>1, <1>2
<1>4. AllocationStatus = "held" /\ AllocationStatus' = AllocationStatus
  BY DEF AllocationStatus
<1>5. QED
  BY <1>3, <1>4 DEF Promise!Use

LEMMA StreamCompletes ==
  ASSUME IInv, NEW s \in Streams, StreamStep(s) PROVE Promise!Complete
<1> USE DEF IInv, Types, StreamStep, Pending
<1>1. ASSUME NEW a \in Actors, Pending(a)' PROVE Pending(a)
  BY <1>1
<1>2. AllocationStatus' = AllocationStatus
  BY DEF AllocationStatus
<1>3. QED
  BY <1>1, <1>2 DEF Promise!Complete

LEMMA WriterUses ==
  ASSUME IInv, WriterStep PROVE [Promise!Next]_(Promise!vars)
<1> USE DEF IInv, Types, WriterExclusive, FreshIsUntouched
<1>1. CASE ProducerSubmit
  <2>1. Promise!Use(Producer)
    BY <1>1, SubmissionIsUse DEF ProducerSubmit, Responsible, DeadIsUnreferenced
  <2>2. QED
    BY <2>1 DEF Promise!Next
<1>2. CASE Fail /\ SubmitWork(Producer)
  <2>1. Promise!Use(Producer)
    BY <1>2, SubmissionIsUse DEF Fail, Responsible, DeadIsUnreferenced
  <2>2. QED
    BY <2>1 DEF Promise!Next
<1>3. CASE ~ProducerSubmit /\ ~(Fail /\ SubmitWork(Producer))
  <2>1. release' = release
    BY <1>3 DEF WriterStep, GetWriteHandle, GetSynchronizedWriteHandle, RetainOwner,
       Finalize, FinalizeSynchronously, Cancel, Fail, DropWriter, CopyFromHostBlocking
  <2>2. \A a \in Actors : Pending(a)' <=> Pending(a)
    BY <1>3 DEF WriterStep, GetWriteHandle, GetSynchronizedWriteHandle, RetainOwner,
       Finalize, FinalizeRecorded, FinalizeFailed, RecordEvent, FinalizeSynchronously,
       Cancel, Fail, DropWriter, CopyFromHostBlocking, Pending
  <2>3. QED
    BY <2>1, <2>2, SamePendingStutters
<1>4. QED
  BY <1>1, <1>2, <1>3

LEMMA ReaderUses ==
  ASSUME IInv, NEW r \in Readers, ReaderStep(r) PROVE [Promise!Next]_(Promise!vars)
<1> USE DEF IInv, Types, ReaderEvents
<1>1. CASE ReaderSubmit(r)
  <2>1. Promise!Use(r)
    BY <1>1, SubmissionIsUse DEF ReaderSubmit, DeadIsUnreferenced, Referenced
  <2>2. QED
    BY <2>1 DEF Promise!Next
<1>2. CASE ~ReaderSubmit(r)
  <2>1. release' = release
    BY <1>2 DEF ReaderStep, AcquireReadHandle, FinishRecord, FinishPush, FinishMarkFailed,
       DropReader
  <2>2. \A a \in Actors : Pending(a)' <=> Pending(a)
    BY <1>2 DEF ReaderStep, AcquireReadHandle, FinishRecord, RecordEvent, FinishPush,
       FinishMarkFailed, DropReader, Pending
  <2>3. QED
    BY <2>1, <2>2, SamePendingStutters
<1>3. QED
  BY <1>1, <1>2

LEMMA ReleaseIsKept ==
  ASSUME IInv, ReleaseStep PROVE [Promise!Next]_(Promise!vars)
<1> DEFINE using == {a \in Actors : Pending(a)}
<1>1. using' = using
  BY DEF ReleaseStep, DropBuffer, DestructorInline, DestructorSpawn, DestructorSpawnFails,
     WorkerSelect, WorkerFinish, WorkerSynced, WorkerSyncFails, WorkerSkipsSync,
     DestroyEvent, LeakEvent, Pending
<1>2. CASE DestructorInline \/ WorkerFinish
  <2>1. AllocationStatus = "held"
    BY <1>2 DEF DestructorInline, WorkerFinish, AllocationStatus
  <2>2. CASE release' = "released"
    <3>1. using = {}
      BY <1>2, <2>2, ReleaseFindsNothingPending
    <3>2. Promise!Release
      BY <1>1, <2>1, <2>2, <3>1 DEF Promise!Release, AllocationStatus
    <3>3. QED
      BY <3>2 DEF Promise!Next
  <2>3. CASE release' = "orphaned"
    <3>1. Promise!Orphan
      BY <1>1, <2>1, <2>3 DEF Promise!Orphan, AllocationStatus
    <3>2. QED
      BY <3>1 DEF Promise!Next
  <2>4. QED
    BY <1>2, <2>2, <2>3 DEF DestructorInline, WorkerFinish, ReleaseOwners, OrphanOwners
<1>3. CASE DestructorSpawnFails
  <2>1. Promise!Orphan
    BY <1>1, <1>3 DEF DestructorSpawnFails, OrphanOwners, Promise!Orphan, AllocationStatus
  <2>2. QED
    BY <2>1 DEF Promise!Next
<1>4. CASE ~(DestructorInline \/ WorkerFinish \/ DestructorSpawnFails)
  <2>1. AllocationStatus' = AllocationStatus
    BY <1>4 DEF ReleaseStep, DropBuffer, DestructorSpawn, WorkerSelect, WorkerSynced,
       WorkerSyncFails, WorkerSkipsSync, DestroyEvent, LeakEvent, AllocationStatus
  <2>2. QED
    BY <1>1, <2>1 DEF Promise!vars
<1>5. QED
  BY <1>2, <1>3, <1>4

\* ManagedBuffer implements AllocationUse: the allocation goes back at most
\* once, with no work left on it, and an orphan stays an orphan.
THEOREM PromiseIsKept == Spec => KeepsPromise
<1>1. Init => Promise!Init
  <2> SUFFICES ASSUME Init PROVE Promise!Init
    OBVIOUS
  <2>1. \A a \in Actors : ~Pending(a)
    BY DEF Init, Pending
  <2>2. QED
    BY <2>1 DEF Init, Promise!Init, AllocationStatus
<1>2. IInv /\ [Next]_vars => [Promise!Next]_(Promise!vars)
  <2> SUFFICES ASSUME IInv, [Next]_vars PROVE [Promise!Next]_(Promise!vars)
    OBVIOUS
  <2>1. CASE UNCHANGED vars
    BY <2>1, SamePendingStutters DEF vars, Pending
  <2>2. ASSUME NEW s \in Streams, StreamStep(s) PROVE Promise!Next
    BY <2>2, StreamCompletes DEF Promise!Next
  <2>3. ASSUME NEW l \in Leases, LeaseStep(l) PROVE UNCHANGED Promise!vars
    <3>1. release' = release /\ UNCHANGED queueVars
      BY <2>3 DEF LeaseStep, AcquireLease, LeaseSynced, LeaseSyncFails, LeaseMarkFailed,
         DropLease, SetLease
    <3>2. QED
      BY <3>1, SamePendingStutters DEF Pending
  <2>4. QED
    BY <2>1, <2>2, <2>3, WriterUses, ReaderUses, ReleaseIsKept DEF Next
<1>3. QED
  BY Invariance, <1>1, <1>2, PTL DEF Spec, KeepsPromise, Promise!Spec
=============================================================================
