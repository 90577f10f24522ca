---------------------------- MODULE ReleaseTracker ----------------------------
(***************************************************************************)
(* The threads of ~BufferState (buffer.cpp): destructors that run on       *)
(* whichever thread drops the last reference, the workers they detach, the *)
(* process-wide ReleaseTracker that counts the workers under a mutex, and  *)
(* the threads in wait_for_pending_releases.                               *)
(*                                                                         *)
(* A buffer can be what keeps another one alive: behind the owner of an    *)
(* adopted allocation, or as a source the producer retained.  So           *)
(* destructors nest: releasing an owner may run ~BufferState of another    *)
(* buffer on the same thread, on top of the frame that released it.        *)
(***************************************************************************)
EXTENDS Naturals, Sequences, FiniteSets

CONSTANTS
  Buffers,   \* the buffers; a buffer also names its own release worker
  Apps,      \* the other threads that drop references to buffers
  Waiters,   \* the threads that call wait_for_pending_releases
  Async,     \* the buffers that hold events when they are destroyed
  Owner,     \* the buffer behind a buffer's allocation_owner, or Nobody
  Source,    \* the buffer among a buffer's producer_owners, or Nobody
  Nobody     \* no buffer, no thread

Threads == Apps \cup Buffers

ASSUME TrackerAssumption ==
  /\ Apps \cap Buffers = {} /\ Nobody \notin Threads /\ "app" \notin Buffers
  /\ IsFiniteSet(Buffers)
  /\ Async \subseteq Buffers
  /\ Owner \in [Buffers -> Buffers \cup {Nobody}]
  /\ Source \in [Buffers -> Buffers \cup {Nobody}]
  /\ \A b \in Buffers : Owner[b] = Source[b] => Owner[b] = Nobody

VARIABLES
  \* ReleaseTracker
  mutex,    \* the thread that holds it across steps, or Nobody
  count,    \* pending releases
  \* the threads
  stack,    \* the destructor frames of each thread, innermost last
  wait,     \* where a waiter is
  \* the buffers
  refs,     \* what keeps a buffer alive: "app", or the buffers it belongs to
  copies,   \* who holds allocation_owner and the stream owner
  fate      \* what became of them

trackerVars == <<mutex, count, stack, wait, refs, copies, fate>>

Frame(b, pc) == [buf |-> b, pc |-> pc]

Top(t) == stack[t][Len(stack[t])]

At(t, pc) == stack[t] # <<>> /\ Top(t).pc = pc
Buf(t) == Top(t).buf

TrackerInit ==
  /\ mutex = Nobody /\ count = 0
  /\ stack = [t \in Threads |-> <<>>]
  /\ wait = [w \in Waiters |-> "idle"]
  /\ refs = [b \in Buffers |-> {"app"} \cup {x \in Buffers : b \in {Owner[x], Source[x]}}]
  /\ copies = [b \in Buffers |-> {"parent"}]
  /\ fate = [b \in Buffers |-> "held"]

-----------------------------------------------------------------------------
(* References and frames.                                                   *)

\* Thread t drops the reference that x has to b; what runs next on t is the
\* destructor of b if that was the last one, and then rest.
DropRef(t, x, b, rest) ==
  IF b = Nobody
  THEN /\ stack' = [stack EXCEPT ![t] = rest]
       /\ UNCHANGED refs
  ELSE /\ refs' = [refs EXCEPT ![b] = @ \ {x}]
       /\ stack' = [stack EXCEPT ![t] =
                      IF refs[b] \subseteq {x} THEN Append(rest, Frame(b, "begin")) ELSE rest]

\* The innermost frame of t goes on to pc, or returns.
Continue(t, pc) == [stack[t] EXCEPT ![Len(stack[t])] = Frame(Buf(t), pc)]
Leave(t) == SubSeq(stack[t], 1, Len(stack[t]) - 1)

Goto(t, rest) == stack' = [stack EXCEPT ![t] = rest] /\ UNCHANGED refs

\* holder's copies of the owners are reset, which deletes them if no other
\* copies exist.
ResetOwner(t, holder, rest) ==
  LET b == Buf(t) IN
  /\ copies' = [copies EXCEPT ![b] = @ \ {holder}]
  /\ IF copies[b] \subseteq {holder}
     THEN /\ fate' = [fate EXCEPT ![b] = "home"]
          /\ DropRef(t, b, Owner[b], rest)
     ELSE Goto(t, rest) /\ UNCHANGED fate

AppDrops(t, b) ==
  /\ t \in Apps /\ stack[t] = <<>> /\ "app" \in refs[b]
  /\ DropRef(t, "app", b, <<>>)
  /\ UNCHANGED <<mutex, count, wait, copies, fate>>

-----------------------------------------------------------------------------
(* ~BufferState on the thread that dropped the last reference.              *)

\* Without events: the owners are released here, or moved to orphan_storage
\* when the buffer is barred from recycling or its device cannot be selected.
DestroyInline(t) ==
  /\ At(t, "begin") /\ Buf(t) \notin Async
  /\ \/ Goto(t, Continue(t, "owner")) /\ UNCHANGED fate
     \/ Goto(t, Leave(t)) /\ fate' = [fate EXCEPT ![Buf(t)] = "orphaned"]
  /\ UNCHANGED <<mutex, count, wait, copies>>

\* With events: under the lock the release is counted and the worker started,
\* which holds copies of its own.
Spawn(t) ==
  /\ At(t, "begin") /\ Buf(t) \in Async /\ mutex = Nobody
  /\ mutex' = t
  /\ count' = count + 1
  /\ copies' = [copies EXCEPT ![Buf(t)] = {"parent", "worker"}]
  /\ stack' = [stack EXCEPT ![t] = Continue(t, "reset"),
                            ![Buf(t)] = <<Frame(Buf(t), "gate")>>]
  /\ UNCHANGED <<wait, refs, fate>>

\* Mutant of SpawnFails: the lock is not released on the way out.
SpawnFails_KeepsLock(t) ==
  /\ At(t, "begin") /\ Buf(t) \in Async /\ mutex = Nobody
  /\ mutex' = t
  /\ fate' = [fate EXCEPT ![Buf(t)] = "orphaned"]
  /\ Goto(t, Continue(t, "notify"))
  /\ UNCHANGED <<count, wait, copies>>

\* std::thread throws: under the lock the owners are orphaned and the release
\* is taken off the count again.
SpawnFails(t) ==
  /\ At(t, "begin") /\ Buf(t) \in Async /\ mutex = Nobody
  /\ fate' = [fate EXCEPT ![Buf(t)] = "orphaned"]
  /\ Goto(t, Continue(t, "notify"))
  /\ UNCHANGED <<mutex, count, wait, copies>>

\* The parent's copies go, the lock still held.
ParentResets(t) ==
  /\ At(t, "reset")
  /\ ResetOwner(t, "parent", Continue(t, "unlock"))
  /\ UNCHANGED <<mutex, count, wait>>

Unlock(t) ==
  /\ At(t, "unlock")
  /\ mutex' = Nobody
  /\ Goto(t, Leave(t))
  /\ UNCHANGED <<count, wait, copies, fate>>

-----------------------------------------------------------------------------
(* The worker, and what the inline release has in common with it.           *)

\* Mutant of Gate: the worker does not wait for its parent.
Gate_Open(t) ==
  /\ At(t, "gate")
  /\ Goto(t, Continue(t, "sync"))
  /\ UNCHANGED <<mutex, count, wait, copies, fate>>

\* The worker locks the mutex once, and so waits for its parent.
Gate(t) ==
  /\ At(t, "gate") /\ mutex = Nobody
  /\ Goto(t, Continue(t, "sync"))
  /\ UNCHANGED <<mutex, count, wait, copies, fate>>

\* The events are synchronized with and destroyed; the worker then releases
\* the owners if that is safe and otherwise moves them to orphan_storage.
Synchronize(t) ==
  /\ At(t, "sync")
  /\ \/ Goto(t, Continue(t, "owner")) /\ UNCHANGED fate
     \/ /\ Goto(t, Continue(t, "decrement"))
        /\ fate' = [fate EXCEPT ![Buf(t)] = "orphaned"]
  /\ UNCHANGED <<mutex, count, wait, copies>>

ReleaseOwner(t) ==
  /\ At(t, "owner")
  /\ ResetOwner(t, IF t = Buf(t) THEN "worker" ELSE "parent", Continue(t, "sources"))
  /\ UNCHANGED <<mutex, count, wait>>

\* Mutant of ReleaseSources: the release is taken off the count first.
ReleaseSources_CountedOut(t) ==
  /\ At(t, "sources")
  /\ DropRef(t, Buf(t), Source[Buf(t)],
             IF t = Buf(t) THEN Continue(t, "notify") ELSE Leave(t))
  /\ count' = IF t = Buf(t) THEN count - 1 ELSE count
  /\ UNCHANGED <<mutex, wait, copies, fate>>

ReleaseSources(t) ==
  /\ At(t, "sources")
  /\ DropRef(t, Buf(t), Source[Buf(t)],
             IF t = Buf(t) THEN Continue(t, "decrement") ELSE Leave(t))
  /\ UNCHANGED <<mutex, count, wait, copies, fate>>

\* Mutant of Decrement: nobody is told.
Decrement_Silent(t) ==
  /\ At(t, "decrement") /\ mutex = Nobody
  /\ count' = count - 1
  /\ Goto(t, Leave(t))
  /\ UNCHANGED <<mutex, wait, copies, fate>>

Decrement(t) ==
  /\ At(t, "decrement") /\ mutex = Nobody
  /\ count' = count - 1
  /\ Goto(t, Continue(t, "notify"))
  /\ UNCHANGED <<mutex, wait, copies, fate>>

Notify(t) ==
  /\ At(t, "notify")
  /\ wait' = [w \in Waiters |-> IF wait[w] = "waiting" THEN "awake" ELSE wait[w]]
  /\ Goto(t, Leave(t))
  /\ UNCHANGED <<mutex, count, copies, fate>>

-----------------------------------------------------------------------------
(* wait_for_pending_releases.                                               *)

SetWait(w, to) ==
  /\ wait' = [wait EXCEPT ![w] = to]
  /\ UNCHANGED <<mutex, count, stack, refs, copies, fate>>

\* The predicate, on entry and on waking: true is returned when it holds, and
\* false when it does not hold at the deadline.
Look(w) ==
  /\ wait[w] # "waiting" /\ mutex = Nobody
  /\ \/ count = 0 /\ SetWait(w, "idle")
     \/ count > 0 /\ wait[w] # "expired" /\ SetWait(w, "waiting")
     \/ count > 0 /\ wait[w] = "expired" /\ SetWait(w, "idle")

Expire(w) == wait[w] = "waiting" /\ SetWait(w, "expired")

-----------------------------------------------------------------------------
\* What a thread that is in a destructor or is a worker does next.
Run(t) ==
  \/ DestroyInline(t) \/ Spawn(t) \/ SpawnFails(t) \/ ParentResets(t) \/ Unlock(t)
  \/ Gate(t) \/ Synchronize(t) \/ ReleaseOwner(t) \/ ReleaseSources(t)
  \/ Decrement(t) \/ Notify(t)

TrackerNext ==
  \/ \E t \in Threads : Run(t) \/ \E b \in Buffers : AppDrops(t, b)
  \/ \E w \in Waiters : Look(w) \/ Expire(w)

TrackerSpec == TrackerInit /\ [][TrackerNext]_trackerVars

\* Threads run; nobody is obliged to drop a reference.
FairTrackerSpec == TrackerSpec /\ \A t \in Threads : WF_trackerVars(Run(t))

-----------------------------------------------------------------------------
(* Properties.                                                              *)

\* Every variable has its type.
TrackerTypeOK ==
  /\ mutex \in Threads \cup {Nobody}
  /\ count \in 0..Cardinality(Async)
  /\ \A t \in Threads : \A i \in DOMAIN stack[t] :
       stack[t][i] \in [buf : Buffers,
                        pc : {"begin", "owner", "sources", "reset", "unlock", "gate",
                              "sync", "decrement", "notify"}]
  /\ wait \in [Waiters -> {"idle", "waiting", "awake", "expired"}]
  /\ refs \in [Buffers -> SUBSET ({"app"} \cup Buffers)]
  /\ copies \in [Buffers -> SUBSET {"parent", "worker"}]
  /\ fate \in [Buffers -> {"held", "home", "orphaned"}]

\* No owner is deleted while the tracker's mutex is held: when the parent resets
\* its copies the worker still has its own (the lock at the top of the worker).
NoDeleterUnderTracker ==
  \A t \in Threads : At(t, "reset") => "worker" \in copies[Buf(t)]

\* The count is that of the workers that have something left to release, from
\* their start to their last release, nested ones included.  So when
\* wait_for_pending_releases sees zero, no release holds an owner, a stream or a
\* source any more: no worker has anything left to do but to notify, and no parent
\* still has copies of what its worker released (the lock is kept until they are
\* gone; the worker decrements last; a worker that cannot start is not counted).
ZeroMeansReleased ==
  /\ count = Cardinality({b \in Buffers : \E i \in DOMAIN stack[b] : stack[b][i].pc # "notify"})
  /\ count = 0 /\ mutex = Nobody => \A t \in Threads : ~At(t, "reset")

\* A waiter does not sleep through the end of the last release.
WaitersAreTold ==
  \A w \in Waiters : wait[w] = "waiting" /\ count = 0 =>
    \E t \in Threads : At(t, "notify")

\* Every destruction ends, with the allocation home or orphaned, and the count
\* returns to zero: no thread blocks itself or another one for ever on the
\* tracker's mutex, however the destructors nest.
ReleasesComplete ==
  /\ \A b \in Buffers : refs[b] = {} ~> fate[b] # "held"
  /\ count > 0 ~> count = 0

=============================================================================
