--------------------------- MODULE FixedPoolProofs ---------------------------
(***************************************************************************)
(* Theorems about FixedPool, for any threads and any finite set of blocks: *)
(* no block is lost or handed out twice, the allocation outlives every     *)
(* block that is not in the free list, and no wakeup is lost.              *)
(***************************************************************************)
EXTENDS FixedPool, FiniteSetTheorems, SequenceTheorems, TLAPS

USE BlocksAssumption
USE DEF poolVars, shareVars, threadVars

-----------------------------------------------------------------------------
(* The inductive invariant.                                                 *)

\* Where a thread is says which call it is in.
CallsWhereExpected ==
  /\ \A t \in Threads :
       /\ at[t] \in {"outside", "notify"} <=> call[t] = "none"
       /\ at[t] = "popped" => call[t] # "shutdown"
       /\ call[t] = "shutdown" => mode = "stopping"
  /\ facade = "dropped" => \A t \in Threads : call[t] = "none"

\* An allocation is freed by a pool that no longer hands out blocks.
FreedIsClosed ==
  allocation = "freed" => mode = "stopping" \/ facade = "dropped"

IInv ==
  /\ TypeOK
  /\ BlocksConserved
  /\ CallsWhereExpected
  /\ FreedIsClosed
  /\ AllocationOutlivesBlocks
  /\ NoLostWakeup

-----------------------------------------------------------------------------
(* The free list.                                                           *)

LEMMA CountingInterval ==
  ASSUME NEW n \in Nat PROVE IsFiniteSet(1..n) /\ Cardinality(1..n) = n
<1>1. 1 \in Int /\ n \in Int
  OBVIOUS
<1>2. IsFiniteSet(1..n) /\ Cardinality(1..n) = IF 1 > n THEN 0 ELSE n - 1 + 1
  BY <1>1, FS_Interval
<1>3. QED
  BY <1>2

\* A list without repetitions that is as long as there are blocks holds all of
\* them.
LEMMA DrainedHoldsAll ==
  ASSUME TypeOK, BlocksConserved, Drained PROVE FreeBlocks = Blocks
<1> DEFINE n == Len(free)
<1>1. free \in [1..n -> Blocks] /\ n \in Nat
  BY LenProperties DEF TypeOK
<1>2. free \in Injection(1..n, Blocks)
  BY <1>1 DEF BlocksConserved, Injection, IsInjective
<1>3. IsFiniteSet(1..n) /\ Cardinality(1..n) = n
  BY <1>1, CountingInterval
<1>4. free \in Surjection(1..n, Blocks)
  BY <1>2, <1>3, FS_Injection DEF Drained
<1>5. QED
  BY <1>1, <1>4 DEF Surjection, FreeBlocks

\* Without its last element, a list without repetitions has the others.
LEMMA Shorter ==
  ASSUME NEW S, NEW m \in Nat \ {0}, NEW f \in [1..m -> S],
         NEW g \in [1..(m - 1) -> S], \A i \in 1..(m - 1) : g[i] = f[i],
         \A i, j \in 1..m : f[i] = f[j] => i = j
  PROVE  \A x : (\E i \in 1..(m - 1) : g[i] = x) <=> x # f[m] /\ \E i \in 1..m : f[i] = x
<1>1. \A i \in 1..(m - 1) : i \in 1..m /\ i # m
  OBVIOUS
<1>2. \A i \in 1..m : i = m \/ i \in 1..(m - 1)
  OBVIOUS
<1>3. m \in 1..m
  OBVIOUS
<1>4. QED
  BY <1>1, <1>2, <1>3

\* pop_back takes the last index, and no other, out of the free list.
LEMMA PopFacts ==
  ASSUME TypeOK, BlocksConserved, free # <<>>,
         free' = SubSeq(free, 1, Len(free) - 1)
  PROVE  /\ free' \in Seq(Blocks)
         /\ free[Len(free)] \in FreeBlocks
         /\ FreeBlocks' = FreeBlocks \ {free[Len(free)]}
         /\ \A i, j \in DOMAIN free' : free'[i] = free'[j] => i = j
<1> DEFINE n == Len(free)
<1>1. n \in Nat \ {0} /\ DOMAIN free = 1..n /\ free \in [1..n -> Blocks]
  BY LenProperties, EmptySeq DEF TypeOK
<1>2. /\ free' \in Seq(Blocks) /\ DOMAIN free' = 1..(n - 1)
      /\ \A i \in 1..(n - 1) : free'[i] = free[i]
  BY <1>1 DEF TypeOK
<1>3. \A i, j \in 1..n : free[i] = free[j] => i = j
  BY <1>1 DEF BlocksConserved
<1>4. \A b : (\E i \in 1..(n - 1) : free'[i] = b) <=>
             b # free[n] /\ \E i \in 1..n : free[i] = b
  <2>1. free' \in [1..(n - 1) -> Blocks]
    BY <1>2, LenProperties
  <2> HIDE DEF n
  <2>2. QED
    BY <1>1, <1>2, <1>3, <2>1, Shorter
<1>5. \A i, j \in DOMAIN free' : free'[i] = free'[j] => i = j
  BY <1>1, <1>2, <1>3
<1>6. free[n] \in FreeBlocks
  BY <1>1 DEF FreeBlocks
<1>7. FreeBlocks' = FreeBlocks \ {free[n]}
  <2>1. \A b : b \in FreeBlocks <=> \E i \in 1..n : free[i] = b
    BY <1>1 DEF FreeBlocks
  <2>2. \A b : b \in FreeBlocks' <=> \E i \in 1..(n - 1) : free'[i] = b
    BY <1>2 DEF FreeBlocks
  <2>3. \A b : b \in FreeBlocks' <=> b \in FreeBlocks /\ b # free[n]
    BY <1>4, <2>1, <2>2
  <2>4. QED
    BY <2>3
<1>8. QED
  BY <1>2, <1>5, <1>6, <1>7

\* push_back puts an index that is not there at the end of the free list.
LEMMA PushFacts ==
  ASSUME TypeOK, BlocksConserved, NEW b \in Blocks, b \notin FreeBlocks,
         free' = Append(free, b)
  PROVE  /\ free' \in Seq(Blocks)
         /\ FreeBlocks' = FreeBlocks \cup {b}
         /\ \A i, j \in DOMAIN free' : free'[i] = free'[j] => i = j
<1> DEFINE n == Len(free)
<1>1. n \in Nat /\ DOMAIN free = 1..n /\ free \in [1..n -> Blocks]
  BY LenProperties DEF TypeOK
<1>2. /\ free' \in Seq(Blocks) /\ DOMAIN free' = 1..(n + 1)
      /\ \A i \in 1..n : free'[i] = free[i]
      /\ free'[n + 1] = b
  BY <1>1 DEF TypeOK
<1>3. QED
  BY <1>1, <1>2 DEF BlocksConserved, FreeBlocks

LEMMA InitInvariant == Init => IInv
<1> SUFFICES ASSUME Init PROVE IInv
  OBVIOUS
<1> DEFINE n == Cardinality(Blocks)
<1>1. n \in Nat
  BY FS_CardinalityType
<1>2. free \in Seq(Blocks) /\ DOMAIN free = 1..n
  BY <1>1, IsASeq DEF Init
<1>3. free \in Surjection(1..n, Blocks)
  BY DEF Init, Surjection
<1>4. IsFiniteSet(1..n) /\ Cardinality(1..n) = n
  BY <1>1, CountingInterval
<1>5. free \in Injection(1..n, Blocks)
  BY <1>3, <1>4, FS_SurjSameCardinalityImpliesInj
<1>6. \A i, j \in DOMAIN free : free[i] = free[j] => i = j
  BY <1>2, <1>5 DEF Injection, IsInjective
<1>7. FreeBlocks = Blocks
  BY <1>2 DEF Init, FreeBlocks
<1>8. QED
  BY <1>2, <1>6, <1>7 DEF Init, IInv, TypeOK, BlocksConserved, InHand, Holders,
     CallsWhereExpected, FreedIsClosed, AllocationOutlivesBlocks, NoLostWakeup, Calls

-----------------------------------------------------------------------------
(* Every step preserves the invariant.                                      *)

LEMMA TypesKept ==
  ASSUME IInv, Next PROVE TypeOK'
<1> USE DEF IInv, TypeOK, Calls
<1>1. ASSUME NEW t \in Threads, NEW c \in {"acquire", "acquire_for"},
             Examine(t, c), at[t] # "popped", UNCHANGED shareVars
      PROVE  TypeOK'
  <2>1. CASE LeaveAcquire(t)
    BY <1>1, <2>1 DEF LeaveAcquire, Move
  <2>2. CASE free # <<>> /\ Pop(t) /\ call' = [call EXCEPT ![t] = c]
    <3>1. free' \in Seq(Blocks) /\ free[Len(free)] \in Blocks
      BY <2>2, PopFacts DEF Pop, BlocksConserved
    <3>2. QED
      BY <1>1, <2>2, <3>1 DEF Pop, Move
  <2>3. CASE Move(t, "waiting") /\ call' = [call EXCEPT ![t] = c] /\ UNCHANGED <<poolVars, taken>>
    BY <1>1, <2>3 DEF Move
  <2>4. QED
    BY <1>1, <2>1, <2>2, <2>3 DEF Examine
<1>2. ASSUME NEW t \in Threads, NEW c \in {"acquire", "acquire_for"}, Acquire(t, c)
      PROVE  TypeOK'
  BY <1>1, <1>2 DEF Acquire
<1>3. ASSUME NEW t \in Threads, AcquireWakes(t) PROVE TypeOK'
  BY <1>1, <1>3 DEF AcquireWakes, CallsWhereExpected
<1>4. ASSUME NEW t \in Threads, MakeBlock(t) PROVE TypeOK'
  BY <1>4 DEF MakeBlock, Settle, Move
<1>5. ASSUME NEW t \in Threads, MakeFails(t) PROVE TypeOK'
  <2>1. taken[t] \in Blocks
    BY <1>5 DEF MakeFails
  <2>2. Append(free, taken[t]) \in Seq(Blocks)
    BY <2>1
  <2>3. QED
    BY <1>5, <2>1, <2>2 DEF MakeFails, Settle, Move
<1>6. ASSUME NEW t \in Threads, NEW b \in Blocks, ReturnBlock(t, b) PROVE TypeOK'
  <2>1. Append(free, b) \in Seq(Blocks)
    BY <1>6
  <2>2. QED
    BY <1>6, <2>1 DEF ReturnBlock, Move
<1>7. ASSUME NEW t \in Threads, DeleterNotifies(t) PROVE TypeOK'
  BY <1>7 DEF DeleterNotifies, NotifyAllAndMove
<1>8. ASSUME NEW t \in Threads, Shutdown(t) PROVE TypeOK'
  BY <1>8 DEF Shutdown, NotifyAllAndMove
<1>9. ASSUME NEW t \in Threads, ShutdownWakes(t) PROVE TypeOK'
  BY <1>9 DEF ShutdownWakes, Move
<1>10. ASSUME NEW t \in Threads, SpuriousWake(t) \/ TimeOut(t) PROVE TypeOK'
  BY <1>10 DEF SpuriousWake, TimeOut, Move
<1>11. ASSUME NEW b \in Blocks, LoseBlock(b) PROVE TypeOK'
  BY <1>11 DEF LoseBlock
<1>12. CASE DropFacade
  BY <1>12 DEF DropFacade
<1>13. CASE DestroyState
  BY <1>13 DEF DestroyState
<1>14. QED
  BY <1>2, <1>3, <1>4, <1>5, <1>6, <1>7, <1>8, <1>9, <1>10, <1>11, <1>12, <1>13
     DEF Next, ThreadStep

\* A step that moves no block conserves them.
LEMMA NothingMoved ==
  ASSUME IInv, UNCHANGED <<free, taken, lent, lost>>, Holders' = Holders
  PROVE  BlocksConserved'
BY DEF IInv, BlocksConserved, FreeBlocks, InHand

\* The thread that pops a block is a new holder, and what it holds is no
\* longer free.
LEMMA PopConserves ==
  ASSUME IInv, NEW t \in Threads, at[t] # "popped", free # <<>>, Pop(t),
         UNCHANGED <<lent, lost>>
  PROVE  BlocksConserved'
<1> USE DEF IInv
<1> DEFINE b == free[Len(free)]
<1>1. /\ FreeBlocks' = FreeBlocks \ {b} /\ b \in FreeBlocks
      /\ \A i, j \in DOMAIN free' : free'[i] = free'[j] => i = j
  BY PopFacts DEF Pop
<1>2. Holders' = Holders \cup {t} /\ t \notin Holders
  BY DEF Pop, Move, Holders, TypeOK
<1>3. /\ taken'[t] = b
      /\ \A u \in Holders : u \in Threads /\ taken'[u] = taken[u] /\ taken[u] \in InHand
  BY <1>2 DEF Pop, Holders, TypeOK, InHand
<1>4. InHand' = InHand \cup {b}
  BY <1>2, <1>3 DEF InHand
<1>5. \A u, v \in Holders' : taken'[u] = taken'[v] => u = v
  BY <1>1, <1>2, <1>3 DEF BlocksConserved
<1>6. QED
  BY <1>1, <1>4, <1>5 DEF BlocksConserved

\* A thread that settles what it holds is a holder no longer.
LEMMA SettleFacts ==
  ASSUME IInv, NEW t \in Threads, at[t] = "popped", NEW to, to # "popped", Settle(t, to)
  PROVE  /\ taken[t] \in Blocks /\ taken[t] \in InHand
         /\ InHand' = InHand \ {taken[t]}
         /\ \A u, v \in Holders' : taken'[u] = taken'[v] => u = v
<1> USE DEF IInv
<1>1. Holders' = Holders \ {t} /\ t \in Holders
  BY DEF Settle, Move, Holders, TypeOK
<1>2. \A u \in Holders' : u \in Threads /\ u # t /\ taken'[u] = taken[u]
  BY <1>1 DEF Settle, Holders, TypeOK
<1>3. \A u \in Holders' : taken[u] # taken[t]
  BY <1>1, <1>2 DEF BlocksConserved
<1>4. InHand' = InHand \ {taken[t]}
  BY <1>1, <1>2, <1>3 DEF InHand
<1>5. QED
  BY <1>1, <1>2, <1>4 DEF BlocksConserved, TypeOK, InHand

LEMMA BlocksKept ==
  ASSUME IInv, Next PROVE BlocksConserved'
<1> USE DEF IInv
<1>1. ASSUME NEW t \in Threads, NEW c, Examine(t, c), at[t] # "popped", UNCHANGED shareVars
      PROVE  BlocksConserved'
  <2>1. CASE free # <<>> /\ Pop(t)
    BY <1>1, <2>1, PopConserves
  <2>2. CASE LeaveAcquire(t) \/ (Move(t, "waiting") /\ UNCHANGED <<poolVars, taken>>)
    <3>1. Holders' = Holders
      BY <1>1, <2>2 DEF LeaveAcquire, Move, Holders, TypeOK
    <3>2. QED
      BY <1>1, <2>2, <3>1, NothingMoved DEF LeaveAcquire
  <2>3. QED
    BY <1>1, <2>1, <2>2 DEF Examine
<1>2. ASSUME NEW t \in Threads, NEW c \in {"acquire", "acquire_for"}, Acquire(t, c)
      PROVE  BlocksConserved'
  BY <1>1, <1>2 DEF Acquire
<1>3. ASSUME NEW t \in Threads, AcquireWakes(t) PROVE BlocksConserved'
  BY <1>1, <1>3 DEF AcquireWakes
<1>4. ASSUME NEW t \in Threads, MakeBlock(t) PROVE BlocksConserved'
  <2>1. FreeBlocks' = FreeBlocks
    BY <1>4 DEF MakeBlock, FreeBlocks
  <2>2. QED
    BY <1>4, <2>1, SettleFacts DEF MakeBlock, BlocksConserved
<1>5. ASSUME NEW t \in Threads, MakeFails(t) PROVE BlocksConserved'
  <2>1. CASE free' = Append(free, taken[t]) /\ Settle(t, "notify") /\ UNCHANGED lost
    <3>1. taken[t] \in Blocks /\ taken[t] \in InHand /\ taken[t] \notin FreeBlocks
      BY <1>5, <2>1, SettleFacts DEF MakeFails, BlocksConserved
    <3>2. /\ FreeBlocks' = FreeBlocks \cup {taken[t]}
          /\ \A i, j \in DOMAIN free' : free'[i] = free'[j] => i = j
      BY <2>1, <3>1, PushFacts
    <3>3. QED
      BY <1>5, <2>1, <3>1, <3>2, SettleFacts DEF MakeFails, BlocksConserved
  <2>2. CASE lost' = lost \cup {taken[t]} /\ Settle(t, "outside") /\ UNCHANGED free
    <3>1. FreeBlocks' = FreeBlocks
      BY <2>2 DEF FreeBlocks
    <3>2. QED
      BY <1>5, <2>2, <3>1, SettleFacts DEF MakeFails, BlocksConserved
  <2>3. QED
    BY <1>5, <2>1, <2>2 DEF MakeFails
<1>6. ASSUME NEW t \in Threads, NEW b \in Blocks, ReturnBlock(t, b) PROVE BlocksConserved'
  <2>1. b \notin FreeBlocks
    BY <1>6 DEF ReturnBlock, BlocksConserved
  <2>2. /\ FreeBlocks' = FreeBlocks \cup {b}
        /\ \A i, j \in DOMAIN free' : free'[i] = free'[j] => i = j
    BY <1>6, <2>1, PushFacts DEF ReturnBlock
  <2>3. Holders' = Holders /\ taken' = taken
    BY <1>6 DEF ReturnBlock, Move, Holders, TypeOK
  <2>4. InHand' = InHand
    BY <2>3 DEF InHand
  <2>5. QED
    BY <1>6, <2>1, <2>2, <2>3, <2>4 DEF ReturnBlock, BlocksConserved
<1>7. ASSUME NEW t \in Threads,
             DeleterNotifies(t) \/ Shutdown(t) \/ ShutdownWakes(t) \/ SpuriousWake(t) \/ TimeOut(t)
      PROVE  BlocksConserved'
  <2>1. Holders' = Holders
    BY <1>7 DEF DeleterNotifies, Shutdown, ShutdownWakes, SpuriousWake, TimeOut, Move,
       NotifyAllAndMove, Holders, TypeOK
  <2>2. UNCHANGED <<free, taken, lent, lost>>
    BY <1>7 DEF DeleterNotifies, Shutdown, ShutdownWakes, SpuriousWake, TimeOut
  <2>3. QED
    BY <2>1, <2>2, NothingMoved
<1>8. ASSUME NEW b \in Blocks, LoseBlock(b) PROVE BlocksConserved'
  <2>1. FreeBlocks' = FreeBlocks /\ Holders' = Holders /\ InHand' = InHand /\ taken' = taken
    BY <1>8 DEF LoseBlock, FreeBlocks, Holders, InHand
  <2>2. free' = free
    BY <1>8 DEF LoseBlock
  <2>3. QED
    BY <1>8, <2>1, <2>2 DEF LoseBlock, BlocksConserved
<1>9. CASE DropFacade \/ DestroyState
  BY <1>9, NothingMoved DEF DropFacade, DestroyState, Holders
<1>10. QED
  BY <1>2, <1>3, <1>4, <1>5, <1>6, <1>7, <1>8, <1>9 DEF Next, ThreadStep

LEMMA CallsKept ==
  ASSUME IInv, Next PROVE CallsWhereExpected' /\ FreedIsClosed'
<1> USE DEF IInv, TypeOK, Calls, CallsWhereExpected, FreedIsClosed
<1>1. ASSUME NEW t \in Threads, NEW c \in {"acquire", "acquire_for"}, Examine(t, c),
             at[t] # "popped", facade = "alive", UNCHANGED shareVars
      PROVE  CallsWhereExpected' /\ FreedIsClosed'
  BY <1>1 DEF Examine, LeaveAcquire, Pop, Move
<1>2. ASSUME NEW t \in Threads, NEW c \in {"acquire", "acquire_for"}, Acquire(t, c)
      PROVE  CallsWhereExpected' /\ FreedIsClosed'
  BY <1>1, <1>2 DEF Acquire
<1>3. ASSUME NEW t \in Threads, AcquireWakes(t)
      PROVE  CallsWhereExpected' /\ FreedIsClosed'
  <2>1. call[t] \in {"acquire", "acquire_for"} /\ facade = "alive"
    BY <1>3 DEF AcquireWakes
  <2>2. QED
    BY <1>1, <1>3, <2>1 DEF AcquireWakes
<1>4. ASSUME NEW t \in Threads, MakeBlock(t) \/ MakeFails(t)
      PROVE  CallsWhereExpected' /\ FreedIsClosed'
  BY <1>4 DEF MakeBlock, MakeFails, Settle, Move
<1>5. ASSUME NEW t \in Threads, NEW b \in Blocks, ReturnBlock(t, b)
      PROVE  CallsWhereExpected' /\ FreedIsClosed'
  BY <1>5 DEF ReturnBlock, Move
<1>6. ASSUME NEW t \in Threads, DeleterNotifies(t) \/ Shutdown(t)
      PROVE  CallsWhereExpected' /\ FreedIsClosed'
  BY <1>6 DEF DeleterNotifies, Shutdown, NotifyAllAndMove
<1>7. ASSUME NEW t \in Threads, ShutdownWakes(t) \/ SpuriousWake(t) \/ TimeOut(t)
      PROVE  CallsWhereExpected' /\ FreedIsClosed'
  BY <1>7 DEF ShutdownWakes, SpuriousWake, TimeOut, Move
<1>8. ASSUME NEW b \in Blocks, LoseBlock(b)
      PROVE  CallsWhereExpected' /\ FreedIsClosed'
  BY <1>8 DEF LoseBlock
<1>9. CASE DropFacade \/ DestroyState
  BY <1>9 DEF DropFacade, DestroyState
<1>10. QED
  BY <1>2, <1>3, <1>4, <1>5, <1>6, <1>7, <1>8, <1>9 DEF Next, ThreadStep

\* When the free list is full no block is anywhere else.
LEMMA DrainedLeavesNothing ==
  ASSUME IInv, Drained PROVE Holders = {} /\ lent = {} /\ lost = {}
<1>1. FreeBlocks = Blocks
  BY DrainedHoldsAll DEF IInv
<1>2. InHand = {} /\ lent = {} /\ lost = {}
  BY <1>1 DEF IInv, BlocksConserved
<1>3. QED
  BY <1>2 DEF InHand

LEMMA AllocationKept ==
  ASSUME IInv, Next PROVE AllocationOutlivesBlocks'
<1> USE DEF IInv, TypeOK, AllocationOutlivesBlocks, Holders
<1>1. ASSUME NEW t \in Threads, NEW c, Examine(t, c), at[t] # "popped",
             facade = "alive", UNCHANGED shareVars
      PROVE  AllocationOutlivesBlocks'
  BY <1>1 DEF Examine, LeaveAcquire, Pop, Move, FreedIsClosed
<1>2. ASSUME NEW t \in Threads, NEW c \in {"acquire", "acquire_for"}, Acquire(t, c)
      PROVE  AllocationOutlivesBlocks'
  BY <1>1, <1>2 DEF Acquire
<1>3. ASSUME NEW t \in Threads, AcquireWakes(t) PROVE AllocationOutlivesBlocks'
  BY <1>1, <1>3 DEF AcquireWakes, CallsWhereExpected
<1>4. ASSUME NEW t \in Threads, MakeBlock(t) \/ MakeFails(t)
      PROVE  AllocationOutlivesBlocks'
  BY <1>4 DEF MakeBlock, MakeFails, Settle, Move
<1>5. ASSUME NEW t \in Threads, NEW b \in Blocks, ReturnBlock(t, b)
      PROVE  AllocationOutlivesBlocks'
  BY <1>5 DEF ReturnBlock, Move
<1>6. ASSUME NEW t \in Threads, DeleterNotifies(t) \/ Shutdown(t)
      PROVE  AllocationOutlivesBlocks'
  BY <1>6, DrainedLeavesNothing DEF DeleterNotifies, Shutdown, NotifyAllAndMove
<1>7. ASSUME NEW t \in Threads, ShutdownWakes(t) \/ SpuriousWake(t) \/ TimeOut(t)
      PROVE  AllocationOutlivesBlocks'
  BY <1>7, DrainedLeavesNothing DEF ShutdownWakes, SpuriousWake, TimeOut, Move
<1>8. ASSUME NEW b \in Blocks, LoseBlock(b) PROVE AllocationOutlivesBlocks'
  BY <1>8 DEF LoseBlock
<1>9. CASE DropFacade
  BY <1>9 DEF DropFacade
<1>10. CASE DestroyState
  BY <1>10 DEF DestroyState, CallsWhereExpected
<1>11. QED
  BY <1>2, <1>3, <1>4, <1>5, <1>6, <1>7, <1>8, <1>9, <1>10 DEF Next, ThreadStep

LEMMA WakeupsKept ==
  ASSUME IInv, Next PROVE NoLostWakeup'
<1> USE DEF IInv, TypeOK, NoLostWakeup
<1>1. ASSUME NEW t \in Threads, NEW c \in {"acquire", "acquire_for"}, Examine(t, c),
             at[t] \notin {"popped", "notify"}
      PROVE  NoLostWakeup'
  <2>1. CASE LeaveAcquire(t)
    BY <1>1, <2>1 DEF LeaveAcquire, Move, Ready, Drained
  <2>2. CASE mode = "running" /\ free # <<>> /\ Pop(t) /\ call' = [call EXCEPT ![t] = c]
    <3>1. ASSUME NEW u \in Threads, at'[u] = "waiting", Ready(call[u])'
          PROVE  \E d \in Threads : at'[d] = "notify"
      <4>1. u # t /\ at[u] = "waiting" /\ call'[u] = call[u]
        BY <1>1, <2>2, <3>1 DEF Pop, Move
      <4>2. call[u] # "shutdown"
        BY <2>2, <4>1 DEF CallsWhereExpected
      <4>3. Ready(call[u])
        BY <2>2, <4>2 DEF Ready
      <4>4. QED
        BY <1>1, <2>2, <4>1, <4>3 DEF Pop, Move
    <3>2. QED
      BY <2>2, <3>1 DEF Pop, Move, Ready
  <2>3. CASE ~Ready(c) /\ Move(t, "waiting") /\ call' = [call EXCEPT ![t] = c] /\ UNCHANGED <<poolVars, taken>>
    BY <1>1, <2>3 DEF Move, Ready, Drained
  <2>4. QED
    BY <1>1, <2>1, <2>2, <2>3 DEF Examine
<1>2. ASSUME NEW t \in Threads, NEW c \in {"acquire", "acquire_for"}, Acquire(t, c)
      PROVE  NoLostWakeup'
  BY <1>1, <1>2 DEF Acquire
<1>3. ASSUME NEW t \in Threads, AcquireWakes(t) PROVE NoLostWakeup'
  <2>1. call[t] \in {"acquire", "acquire_for"}
    BY <1>3 DEF AcquireWakes, CallsWhereExpected, Calls
  <2>2. QED
    BY <1>1, <1>3, <2>1 DEF AcquireWakes
<1>4. ASSUME NEW t \in Threads, MakeBlock(t) PROVE NoLostWakeup'
  BY <1>4 DEF MakeBlock, Settle, Move, Ready, Drained
<1>5. ASSUME NEW t \in Threads, MakeFails(t) PROVE NoLostWakeup'
  BY <1>5 DEF MakeFails, Settle, Move, Ready, Drained
<1>6. ASSUME NEW t \in Threads, NEW b \in Blocks, ReturnBlock(t, b) PROVE NoLostWakeup'
  BY <1>6 DEF ReturnBlock, Move
<1>7. ASSUME NEW t \in Threads, DeleterNotifies(t) PROVE NoLostWakeup'
  BY <1>7 DEF DeleterNotifies, NotifyAllAndMove
<1>8. ASSUME NEW t \in Threads, Shutdown(t) PROVE NoLostWakeup'
  BY <1>8 DEF Shutdown, NotifyAllAndMove, Ready, Drained
<1>9. ASSUME NEW t \in Threads, ShutdownWakes(t) PROVE NoLostWakeup'
  BY <1>9 DEF ShutdownWakes, Move, Ready, Drained
<1>10. ASSUME NEW t \in Threads, SpuriousWake(t) \/ TimeOut(t) PROVE NoLostWakeup'
  BY <1>10 DEF SpuriousWake, TimeOut, Move, Ready, Drained
<1>11. ASSUME NEW b \in Blocks, LoseBlock(b) PROVE NoLostWakeup'
  BY <1>11 DEF LoseBlock, Ready, Drained
<1>12. CASE DropFacade \/ DestroyState
  BY <1>12 DEF DropFacade, DestroyState, Ready, Drained
<1>13. QED
  BY <1>2, <1>3, <1>4, <1>5, <1>6, <1>7, <1>8, <1>9, <1>10, <1>11, <1>12
     DEF Next, ThreadStep

THEOREM Invariance == Spec => []IInv
<1>1. IInv /\ [Next]_vars => IInv'
  <2> SUFFICES ASSUME IInv, [Next]_vars PROVE IInv'
    OBVIOUS
  <2>1. CASE UNCHANGED vars
    <3>1. BlocksConserved'
      BY <2>1, NothingMoved DEF vars, Holders
    <3>2. TypeOK' /\ CallsWhereExpected' /\ FreedIsClosed' /\ AllocationOutlivesBlocks'
      BY <2>1 DEF vars, IInv, TypeOK, CallsWhereExpected, FreedIsClosed,
         AllocationOutlivesBlocks, Holders
    <3>3. NoLostWakeup'
      BY <2>1 DEF vars, IInv, NoLostWakeup, Ready, Drained
    <3>4. QED
      BY <3>1, <3>2, <3>3 DEF IInv
  <2>2. CASE Next
    BY <2>2, TypesKept, BlocksKept, CallsKept, AllocationKept, WakeupsKept DEF IInv
  <2>3. QED
    BY <2>1, <2>2
<1>2. QED
  BY InitInvariant, <1>1, PTL DEF Spec

-----------------------------------------------------------------------------
(* The theorems.                                                            *)

\* Every variable keeps its type.
THEOREM TypeCorrect == Spec => []TypeOK
<1>1. IInv => TypeOK
  BY DEF IInv
<1>2. QED
  BY Invariance, <1>1, PTL

\* No block is lost, duplicated or in two places, whatever fails in acquire.
THEOREM BlocksAreConserved == Spec => []BlocksConserved
<1>1. IInv => BlocksConserved
  BY DEF IInv
<1>2. QED
  BY Invariance, <1>1, PTL

\* The allocation is freed only when every block is back in the free list, and
\* nothing is handed out from it afterwards.
THEOREM AllocationIsKept == Spec => []AllocationOutlivesBlocks
<1>1. IInv => AllocationOutlivesBlocks
  BY DEF IInv
<1>2. QED
  BY Invariance, <1>1, PTL

\* A deleter that brings what a thread waits for has yet to notify it.
THEOREM WakeupsAreNotLost == Spec => []NoLostWakeup
<1>1. IInv => NoLostWakeup
  BY DEF IInv
<1>2. QED
  BY Invariance, <1>1, PTL
=============================================================================
