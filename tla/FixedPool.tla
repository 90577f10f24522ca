------------------------------ MODULE FixedPool ------------------------------
(***************************************************************************)
(* FixedDeviceMemoryPool (fixed_device_memory_pool.cpp): one allocation    *)
(* cut into blocks that are lent out as buffers.  Threads that acquire,    *)
(* with or without a timeout, and threads that shut the pool down wait on  *)
(* one condition variable; the deleter of a block's token pushes the block *)
(* under the lock and notifies after unlocking.                            *)
(*                                                                         *)
(* What holds the lock throughout is one step.  What happens to a block    *)
(* while it is lent is the subject of ManagedBuffer: here its buffer comes *)
(* to release it or to orphan it.                                          *)
(***************************************************************************)
EXTENDS Sequences, FiniteSets, Naturals

CONSTANTS
  Threads,   \* the threads that use the pool or run a token's deleter
  Blocks,    \* the indices of the blocks
  NoBlock    \* what a thread that has popped no index holds

ASSUME BlocksAssumption ==
  IsFiniteSet(Blocks) /\ Blocks # {} /\ NoBlock \notin Blocks

VARIABLES
  \* PoolState
  free,         \* free_blocks
  mode,         \* "stopping" once the flag of that name is set
  allocation,   \* "freed" once the pool's allocation is reset or destroyed
  \* the facade and the tokens, which share the PoolState
  facade,       \* whether the FixedDeviceMemoryPool object still exists
  lent,         \* blocks whose buffer has been made
  lost,         \* blocks whose token went into orphan_storage
  \* the threads
  call,         \* the pool's operation a thread is in
  at,           \* where in it, or in a token's deleter
  taken         \* the index a thread has popped

poolVars == <<free, mode, allocation>>
shareVars == <<facade, lent, lost>>
threadVars == <<call, at, taken>>
vars == <<poolVars, shareVars, threadVars>>

Calls == {"acquire", "acquire_for", "shutdown"}

\* The threads that hold an index without a token.
Holders == {t \in Threads : at[t] = "popped"}

Init ==
  /\ free \in [1..Cardinality(Blocks) -> Blocks]
  /\ \A b \in Blocks : \E i \in DOMAIN free : free[i] = b
  /\ mode = "running" /\ allocation = "held"
  /\ facade = "alive" /\ lent = {} /\ lost = {}
  /\ call = [t \in Threads |-> "none"]
  /\ at = [t \in Threads |-> "outside"]
  /\ taken = [t \in Threads |-> NoBlock]

-----------------------------------------------------------------------------
(* The condition variable.                                                  *)

Move(t, to) == at' = [at EXCEPT ![t] = to]

\* notify_all, and the notifying thread t goes on to "to".
NotifyAllAndMove(t, to) ==
  at' = [x \in Threads |-> IF x = t THEN to
                           ELSE IF at[x] = "waiting" THEN "awake" ELSE at[x]]

Drained == Len(free) = Cardinality(Blocks)

\* The predicate a call waits for.
Ready(c) == IF c = "shutdown" THEN Drained ELSE mode = "stopping" \/ free # <<>>

SpuriousWake(t) ==
  /\ at[t] = "waiting"
  /\ Move(t, "awake")
  /\ UNCHANGED <<poolVars, shareVars, call, taken>>

\* wait_for gives up for good at its deadline, after one more look.
TimeOut(t) ==
  /\ at[t] = "waiting" /\ call[t] \in {"acquire_for", "shutdown"}
  /\ Move(t, "expired")
  /\ UNCHANGED <<poolVars, shareVars, call, taken>>

-----------------------------------------------------------------------------
(* Acquiring.                                                               *)

\* Leave without a block: nullptr, or the "shutting down" exception.
LeaveAcquire(t) ==
  /\ Move(t, "outside")
  /\ call' = [call EXCEPT ![t] = "none"]
  /\ UNCHANGED <<poolVars, taken>>

Pop(t) ==
  /\ taken' = [taken EXCEPT ![t] = free[Len(free)]]
  /\ free' = SubSeq(free, 1, Len(free) - 1)
  /\ Move(t, "popped")
  /\ UNCHANGED <<mode, allocation>>

\* The lock is held: look at the predicate, and wait, give up or go on.
Examine(t, c) ==
  \/ mode = "stopping" /\ LeaveAcquire(t)
  \/ mode = "running" /\ free # <<>> /\ Pop(t) /\ call' = [call EXCEPT ![t] = c]
  \/ ~Ready(c) /\ at[t] = "expired" /\ LeaveAcquire(t)
  \/ /\ ~Ready(c) /\ at[t] # "expired"
     /\ Move(t, "waiting") /\ call' = [call EXCEPT ![t] = c]
     /\ UNCHANGED <<poolVars, taken>>

Acquire(t, c) ==
  /\ facade = "alive" /\ at[t] = "outside" /\ c \in {"acquire", "acquire_for"}
  /\ Examine(t, c)
  /\ UNCHANGED shareVars

AcquireWakes(t) ==
  /\ at[t] \in {"awake", "expired"} /\ call[t] # "shutdown"
  /\ Examine(t, call[t])
  /\ UNCHANGED shareVars

\* The call is over and its index belongs to a token, or to nobody.
Settle(t, to) ==
  /\ call' = [call EXCEPT ![t] = "none"]
  /\ taken' = [taken EXCEPT ![t] = NoBlock]
  /\ Move(t, to)

\* Token, buffer and write handle are made from base, which is read without
\* the lock.
MakeBlock(t) ==
  /\ at[t] = "popped"
  /\ lent' = lent \cup {taken[t]}
  /\ Settle(t, "outside")
  /\ UNCHANGED <<poolVars, facade, lost>>

\* Mutant of MakeFails: an exception loses the index.
MakeFails_DropsIndex(t) ==
  /\ at[t] = "popped"
  /\ Settle(t, "outside")
  /\ UNCHANGED <<poolVars, shareVars>>

\* One of them cannot be made: the reservation is cancelled and the token's
\* deleter returns the block, unless its buffer has to be orphaned because the
\* device cannot be selected.
MakeFails(t) ==
  /\ at[t] = "popped"
  /\ \/ /\ free' = Append(free, taken[t])
        /\ Settle(t, "notify")
        /\ UNCHANGED lost
     \/ /\ lost' = lost \cup {taken[t]}
        /\ Settle(t, "outside")
        /\ UNCHANGED free
  /\ UNCHANGED <<mode, allocation, facade, lent>>

-----------------------------------------------------------------------------
(* The token of a lent block is released, by whichever thread it is, or     *)
(* orphaned.                                                                *)

\* Mutant of ReturnBlock: the deleter does not get to notify.
ReturnBlock_Silent(t, b) ==
  /\ at[t] = "outside" /\ b \in lent
  /\ lent' = lent \ {b}
  /\ free' = Append(free, b)
  /\ UNCHANGED <<mode, allocation, facade, lost, threadVars>>

ReturnBlock(t, b) ==
  /\ at[t] = "outside" /\ b \in lent
  /\ lent' = lent \ {b}
  /\ free' = Append(free, b)
  /\ Move(t, "notify")
  /\ UNCHANGED <<mode, allocation, facade, lost, call, taken>>

DeleterNotifies(t) ==
  /\ at[t] = "notify"
  /\ NotifyAllAndMove(t, "outside")
  /\ UNCHANGED <<poolVars, shareVars, call, taken>>

LoseBlock(b) ==
  /\ b \in lent
  /\ lent' = lent \ {b}
  /\ lost' = lost \cup {b}
  /\ UNCHANGED <<poolVars, facade, threadVars>>

-----------------------------------------------------------------------------
(* Shutdown and destruction.                                                *)

\* Mutant of Shutdown: the threads that wait for a block are not told.
Shutdown_Quiet(t) ==
  /\ facade = "alive" /\ at[t] = "outside"
  /\ mode' = "stopping"
  /\ \/ Drained /\ allocation' = "freed" /\ UNCHANGED <<at, call>>
     \/ /\ ~Drained
        /\ Move(t, "waiting") /\ call' = [call EXCEPT ![t] = "shutdown"]
        /\ UNCHANGED allocation
  /\ UNCHANGED <<free, shareVars, taken>>

Shutdown(t) ==
  /\ facade = "alive" /\ at[t] = "outside"
  /\ mode' = "stopping"
  /\ \/ Drained /\ allocation' = "freed"
        /\ NotifyAllAndMove(t, "outside") /\ UNCHANGED call
     \/ /\ ~Drained
        /\ NotifyAllAndMove(t, "waiting") /\ call' = [call EXCEPT ![t] = "shutdown"]
        /\ UNCHANGED allocation
  /\ UNCHANGED <<free, shareVars, taken>>

\* Mutant of ShutdownWakes: the allocation is freed at the deadline.
ShutdownWakes_FreesAnyway(t) ==
  /\ at[t] \in {"awake", "expired"} /\ call[t] = "shutdown"
  /\ \/ /\ Drained \/ at[t] = "expired"
        /\ Move(t, "outside") /\ call' = [call EXCEPT ![t] = "none"]
        /\ allocation' = "freed"
     \/ /\ ~Drained /\ at[t] = "awake"
        /\ Move(t, "waiting")
        /\ UNCHANGED <<call, allocation>>
  /\ UNCHANGED <<free, mode, shareVars, taken>>

\* Mutant of ShutdownWakes: every wakeup starts a new wait_for.
ShutdownWakes_RestartsTimeout(t) ==
  /\ at[t] \in {"awake", "expired"} /\ call[t] = "shutdown"
  /\ \/ /\ Drained /\ allocation' = "freed"
        /\ Move(t, "outside") /\ call' = [call EXCEPT ![t] = "none"]
     \/ /\ ~Drained
        /\ Move(t, "waiting")
        /\ UNCHANGED <<call, allocation>>
  /\ UNCHANGED <<free, mode, shareVars, taken>>

\* false is returned at the deadline, and the pool stays as it is.
ShutdownWakes(t) ==
  /\ at[t] \in {"awake", "expired"} /\ call[t] = "shutdown"
  /\ \/ /\ Drained /\ allocation' = "freed"
        /\ Move(t, "outside") /\ call' = [call EXCEPT ![t] = "none"]
     \/ /\ ~Drained /\ at[t] = "expired"
        /\ Move(t, "outside") /\ call' = [call EXCEPT ![t] = "none"]
        /\ UNCHANGED allocation
     \/ /\ ~Drained /\ at[t] = "awake"
        /\ Move(t, "waiting")
        /\ UNCHANGED <<call, allocation>>
  /\ UNCHANGED <<free, mode, shareVars, taken>>

\* The owner of the pool destroys it, none of its operations running.
DropFacade ==
  /\ facade = "alive" /\ \A t \in Threads : call[t] = "none"
  /\ facade' = "dropped"
  /\ UNCHANGED <<poolVars, lent, lost, threadVars>>

\* The PoolState goes with the last of the facade and the tokens.
DestroyState ==
  /\ facade = "dropped" /\ allocation = "held"
  /\ lent = {} /\ lost = {} /\ \A t \in Threads : at[t] # "notify"
  /\ allocation' = "freed"
  /\ UNCHANGED <<free, mode, shareVars, threadVars>>

-----------------------------------------------------------------------------
ThreadStep(t) ==
  \/ \E c \in {"acquire", "acquire_for"} : Acquire(t, c)
  \/ AcquireWakes(t) \/ MakeBlock(t) \/ MakeFails(t)
  \/ \E b \in Blocks : ReturnBlock(t, b)
  \/ DeleterNotifies(t) \/ Shutdown(t) \/ ShutdownWakes(t)
  \/ SpuriousWake(t) \/ TimeOut(t)

Next ==
  \/ \E t \in Threads : ThreadStep(t)
  \/ \E b \in Blocks : LoseBlock(b)
  \/ DropFacade \/ DestroyState

Spec == Init /\ [][Next]_vars

\* A thread that is awake in an operation or a deleter goes on, and a deadline
\* that does not move is reached however often its thread is woken before.
\* Nobody is obliged to return a block.
Fairness ==
  \A t \in Threads :
    /\ WF_vars(AcquireWakes(t)) /\ WF_vars(ShutdownWakes(t))
    /\ WF_vars(MakeBlock(t)) /\ WF_vars(DeleterNotifies(t))
    /\ SF_vars(TimeOut(t))

FairSpec == Spec /\ Fairness

-----------------------------------------------------------------------------
(* Properties.                                                              *)

\* Every variable has its type, and a thread holds an index only after a pop.
TypeOK ==
  /\ free \in Seq(Blocks)
  /\ mode \in {"running", "stopping"}
  /\ allocation \in {"held", "freed"}
  /\ facade \in {"alive", "dropped"}
  /\ lent \in SUBSET Blocks
  /\ lost \in SUBSET Blocks
  /\ call \in [Threads -> Calls \cup {"none"}]
  /\ at \in [Threads -> {"outside", "waiting", "awake", "expired", "popped", "notify"}]
  /\ taken \in [Threads -> Blocks \cup {NoBlock}]
  /\ \A t \in Threads : taken[t] \in Blocks <=> at[t] = "popped"

FreeBlocks == {free[i] : i \in DOMAIN free}
InHand     == {taken[t] : t \in Holders}

\* Every block is in exactly one place: once in the free list, with the one
\* thread that popped it, lent, or lost.  No path of acquire_impl, its error
\* paths included, duplicates a block or drops one.
BlocksConserved ==
  /\ \A i, j \in DOMAIN free : free[i] = free[j] => i = j
  /\ \A t, u \in Holders : taken[t] = taken[u] => t = u
  /\ Blocks = FreeBlocks \cup InHand \cup lent \cup lost
  /\ FreeBlocks \cap (InHand \cup lent \cup lost) = {}
  /\ InHand \cap (lent \cup lost) = {}
  /\ lent \cap lost = {}

\* The allocation is freed, by shutdown or with the PoolState, only when no
\* block is lent or lost and no thread is about to make a buffer from base,
\* and nothing is handed out from it afterwards.
AllocationOutlivesBlocks ==
  allocation = "freed" => Holders = {} /\ lent = {} /\ lost = {}

\* Nobody sleeps through the news: while a thread waits although what it waits
\* for is there, the deleter that brought it has yet to notify.
NoLostWakeup ==
  \A t \in Threads : at[t] = "waiting" /\ Ready(call[t]) =>
    \E d \in Threads : at[d] = "notify"

\* Every call with a timeout returns, however often it is woken in vain.
TimedCallsReturn ==
  \A t \in Threads :
    at[t] = "waiting" /\ call[t] # "acquire" ~> at[t] \in {"outside", "popped"}

\* Once a shutdown has begun no thread stays in acquire for long, not even
\* without a timeout.
StoppingFreesAcquirers ==
  \A t \in Threads : mode = "stopping" ~> call[t] # "acquire"

=============================================================================
