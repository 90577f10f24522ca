-------------------------- MODULE StagingNodeProofs --------------------------
(***************************************************************************)
(* Theorems about StagingNode, for any sizes, messages and limits: no      *)
(* block is recycled while a copy into it may still run, no copy outlives  *)
(* the message it reads from, the pools stay within the limits of the      *)
(* cache, and a block holds the whole tensor that it is for.               *)
(*                                                                         *)
(* The last two are about folds, over the pools and over the dimensions    *)
(* of a shape, and so by induction: over sets of natural numbers, as       *)
(* functions, because no prover here instantiates an operator.             *)
(***************************************************************************)
EXTENDS StagingNode, SequenceTheorems, FiniteSetTheorems, WellFoundedInduction, TLAPS

-----------------------------------------------------------------------------
(* The inductive invariant.                                                 *)

States == {"free", "reserved", "submitted", "finalized", "held", "closing", "lost"}

\* What the steps of blocks rely on of the types.
Typed ==
  /\ blocks \in Seq(Blocks) /\ stream \in Seq(Blocks)
  /\ state \in [Blocks -> States]

\* A block is with the frame exactly while its reservation is not ended, and
\* its buffer retains the message.
FrameOwnsReservations ==
  \A b \in Blocks :
    /\ b \in InFrame <=> state[b] \in {"reserved", "submitted", "finalized"}
    /\ b \in InFrame => b \in sources

IInv ==
  /\ Typed
  /\ FrameOwnsReservations
  /\ NoRecyclingUnderCopy
  /\ InStream \subseteq sources

-----------------------------------------------------------------------------
(* The two sequences.                                                       *)

LEMMA EmptyHasNone == {(<<>>)[i] : i \in DOMAIN (<<>>)} = {}
OBVIOUS

LEMMA AppendAdds ==
  ASSUME NEW S, NEW s \in Seq(S), NEW x \in S
  PROVE  /\ Append(s, x) \in Seq(S)
         /\ {Append(s, x)[i] : i \in DOMAIN Append(s, x)} = {s[i] : i \in DOMAIN s} \union {x}
<1> DEFINE t == Append(s, x)
<1>1. /\ t \in Seq(S) /\ Len(s) \in Nat /\ Len(t) = Len(s) + 1
      /\ DOMAIN t = 1..(Len(s) + 1) /\ DOMAIN s = 1..Len(s)
      /\ \A i \in 1..Len(s) : t[i] = s[i]
      /\ t[Len(s) + 1] = x
  BY AppendProperties, LenProperties
<1> HIDE DEF t
<1>2. \A y : (\E i \in DOMAIN t : t[i] = y) <=> (\E i \in DOMAIN s : s[i] = y) \/ y = x
  <2>1. ASSUME NEW y, NEW i \in DOMAIN t, t[i] = y
        PROVE  (\E j \in DOMAIN s : s[j] = y) \/ y = x
    BY <1>1, <2>1
  <2>2. ASSUME NEW y, NEW i \in DOMAIN s, s[i] = y
        PROVE  \E j \in DOMAIN t : t[j] = y
    BY <1>1, <2>2
  <2>3. Len(s) + 1 \in DOMAIN t
    BY <1>1
  <2>4. QED
    BY <1>1, <2>1, <2>2, <2>3
<1>3. {t[i] : i \in DOMAIN t} = {s[i] : i \in DOMAIN s} \union {x}
  BY <1>2
<1>4. QED
  BY <1>1, <1>3 DEF t

LEMMA TailKeeps ==
  ASSUME NEW S, NEW s \in Seq(S), s # <<>>
  PROVE  /\ Tail(s) \in Seq(S)
         /\ {Tail(s)[i] : i \in DOMAIN Tail(s)} \subseteq {s[i] : i \in DOMAIN s}
<1>1. /\ Tail(s) \in Seq(S) /\ Len(s) \in Nat /\ Len(Tail(s)) = Len(s) - 1
      /\ DOMAIN Tail(s) = 1..(Len(s) - 1) /\ DOMAIN s = 1..Len(s)
      /\ \A i \in 1..(Len(s) - 1) : Tail(s)[i] = s[i + 1]
  BY HeadTailProperties, LenProperties
<1>2. ASSUME NEW i \in DOMAIN Tail(s)
      PROVE  Tail(s)[i] \in {s[j] : j \in DOMAIN s}
  <2>1. i + 1 \in DOMAIN s /\ Tail(s)[i] = s[i + 1]
    BY <1>1, <1>2
  <2>2. QED
    BY <2>1
<1>3. QED
  BY <1>1, <1>2

\* The blocks of the frame, one of them named by its index.
LEMMA FrameBlock ==
  ASSUME Typed, NEW i \in DOMAIN blocks
  PROVE  blocks[i] \in Blocks /\ blocks[i] \in InFrame
<1>1. DOMAIN blocks = 1..Len(blocks) /\ blocks \in [1..Len(blocks) -> Blocks]
  BY LenProperties DEF Typed
<1>2. QED
  BY <1>1 DEF InFrame

-----------------------------------------------------------------------------
(* The steps.                                                               *)

\* Steps that leave frame, blocks and stream alone.
LEMMA AsideKeeps ==
  ASSUME IInv, UNCHANGED <<blocks, state, sources, stream>>
  PROVE  IInv'
BY DEF IInv, Typed, FrameOwnsReservations, NoRecyclingUnderCopy, InFrame, InStream

\* A block that the frame has not yet, and that no copy is under way for,
\* joins the frame.
LEMMA AcquireKeeps ==
  ASSUME IInv, NEW b \in Blocks, Acquire(b)
  PROVE  IInv'
<1> USE DEF Acquire, Free
<1>1. /\ blocks' \in Seq(Blocks) /\ InFrame' = InFrame \union {b}
  <2>1. blocks \in Seq(Blocks) /\ blocks' = Append(blocks, b)
    BY DEF IInv, Typed
  <2>2. /\ Append(blocks, b) \in Seq(Blocks)
        /\ {Append(blocks, b)[i] : i \in DOMAIN Append(blocks, b)}
             = {blocks[i] : i \in DOMAIN blocks} \union {b}
    BY <2>1, AppendAdds
  <2>3. InFrame' = {Append(blocks, b)[i] : i \in DOMAIN Append(blocks, b)}
    BY <2>1, Zenon DEF InFrame
  <2>4. QED
    BY <2>1, <2>2, <2>3, Zenon DEF InFrame
<1>2. InStream' = InStream
  BY DEF InStream
<1>3. Typed'
  BY <1>1 DEF IInv, Typed, States
<1>4. FrameOwnsReservations'
  BY <1>1 DEF IInv, Typed, FrameOwnsReservations
<1>5. NoRecyclingUnderCopy'
  BY <1>2 DEF IInv, Typed, NoRecyclingUnderCopy
<1>6. QED
  BY <1>2, <1>3, <1>4, <1>5 DEF IInv

\* A block that never joined the frame is lost to it.
LEMMA AcquireFailsKeeps ==
  ASSUME IInv, AcquireFails
  PROVE  IInv'
<1> USE DEF AcquireFails
<1>1. CASE UNCHANGED state
  BY <1>1, AsideKeeps
<1>2. ASSUME NEW b \in Free(NextSize), state' = [state EXCEPT ![b] = "lost"]
      PROVE  IInv'
  <2>1. b \in Blocks /\ state[b] = "free"
    BY <1>2 DEF Free
  <2>2. InFrame' = InFrame /\ InStream' = InStream
    BY DEF InFrame, InStream
  <2>3. Typed'
    BY <2>1, <1>2 DEF IInv, Typed, States
  <2>4. FrameOwnsReservations'
    BY <2>1, <2>2, <1>2 DEF IInv, Typed, FrameOwnsReservations
  <2>5. NoRecyclingUnderCopy'
    BY <2>1, <2>2, <1>2 DEF IInv, Typed, NoRecyclingUnderCopy
  <2>6. QED
    BY <2>2, <2>3, <2>4, <2>5 DEF IInv
<1>3. QED
  BY <1>1, <1>2

\* The copy into a block of the frame is submitted, or may have been.
LEMMA SubmitKeeps ==
  ASSUME IInv, NEW i \in DOMAIN blocks, SubmitCopy(i) \/ SubmitCopyFails(i)
  PROVE  IInv'
<1> DEFINE b == blocks[i]
<1>1. b \in Blocks /\ b \in InFrame /\ b \in sources
  BY FrameBlock DEF IInv, FrameOwnsReservations
<1>2. /\ state' = [state EXCEPT ![b] = "submitted"]
      /\ stream' = stream \/ stream' = Append(stream, b)
      /\ UNCHANGED <<blocks, sources>>
  BY DEF SubmitCopy, SubmitCopyFails
<1> HIDE DEF b
<1>3. stream' \in Seq(Blocks) /\ InStream' \subseteq InStream \union {b}
  <2>1. CASE stream' = stream
    BY <2>1 DEF IInv, Typed, InStream
  <2>2. CASE stream' = Append(stream, b)
    BY <2>2, <1>1, AppendAdds DEF IInv, Typed, InStream
  <2>3. QED
    BY <1>2, <2>1, <2>2
<1>4. InFrame' = InFrame
  BY <1>2 DEF InFrame
<1>5. Typed'
  BY <1>1, <1>2, <1>3 DEF IInv, Typed, States
<1>6. FrameOwnsReservations'
  BY <1>1, <1>2, <1>4 DEF IInv, Typed, FrameOwnsReservations
<1>7. NoRecyclingUnderCopy' /\ InStream' \subseteq sources'
  BY <1>1, <1>2, <1>3 DEF IInv, Typed, NoRecyclingUnderCopy
<1>8. QED
  BY <1>2, <1>5, <1>6, <1>7 DEF IInv

LEMMA FinalizeKeeps ==
  ASSUME IInv, NEW i \in DOMAIN blocks, Finalize(i)
  PROVE  IInv'
<1> USE DEF Finalize
<1>1. blocks[i] \in Blocks /\ blocks[i] \in InFrame
  BY FrameBlock DEF IInv
<1>2. InFrame' = InFrame /\ InStream' = InStream
  BY DEF InFrame, InStream
<1>3. Typed'
  BY <1>1 DEF IInv, Typed, States
<1>4. FrameOwnsReservations'
  BY <1>1, <1>2 DEF IInv, Typed, FrameOwnsReservations
<1>5. NoRecyclingUnderCopy'
  BY <1>1, <1>2 DEF IInv, Typed, NoRecyclingUnderCopy
<1>6. QED
  BY <1>2, <1>3, <1>4, <1>5 DEF IInv

LEMMA PublishKeeps ==
  ASSUME IInv, Publish
  PROVE  IInv'
<1> USE DEF Publish, EndFrame
<1>1. InFrame' = {} /\ InStream' = InStream /\ blocks' \in Seq(Blocks)
  BY EmptyHasNone DEF InFrame, InStream
<1>2. \A b \in Blocks : state'[b] = IF b \in InFrame THEN "held" ELSE state[b]
  OBVIOUS
<1>3. Typed'
  BY <1>1 DEF IInv, Typed, States
<1>4. FrameOwnsReservations'
  BY <1>1, <1>2 DEF IInv, FrameOwnsReservations
<1>5. NoRecyclingUnderCopy'
  <2>1. InStream \subseteq Blocks
    BY DEF IInv, Typed, InStream
  <2>2. QED
    BY <1>1, <1>2, <2>1 DEF IInv, NoRecyclingUnderCopy
<1>6. QED
  BY <1>1, <1>3, <1>4, <1>5 DEF IInv

\* Only a block that was reserved and not submitted is free after the frame.
LEMMA UnwindKeeps ==
  ASSUME IInv, Unwind
  PROVE  IInv'
<1> USE DEF Unwind, EndFrame
<1>1. InFrame' = {} /\ InStream' = InStream /\ blocks' \in Seq(Blocks)
  BY EmptyHasNone DEF InFrame, InStream
<1>2. ASSUME NEW b \in Blocks
      PROVE  /\ b \notin InFrame => state'[b] = state[b]
             /\ b \in InFrame => state'[b] \in {"free", "lost", "closing"}
             /\ b \in InFrame /\ state'[b] = "free" => state[b] = "reserved"
  <2>1. state'[b] = IF b \in InFrame THEN Ended(b) ELSE state[b]
    BY <1>2
  <2>2. Ended(b) \in {"free", "lost", "closing"} /\ (Ended(b) = "free" => state[b] = "reserved")
    <3>1. CASE state[b] = "reserved"
      BY <3>1 DEF Ended
    <3>2. CASE state[b] = "submitted"
      BY <3>2 DEF Ended
    <3>3. CASE state[b] \notin {"reserved", "submitted"}
      BY <3>3 DEF Ended
    <3>4. QED
      BY <3>1, <3>2, <3>3
  <2>3. QED
    BY <2>1, <2>2
<1>3. Typed'
  <2>1. \A b \in Blocks : state'[b] \in States
    BY <1>2 DEF IInv, Typed, States
  <2>2. QED
    BY <1>1, <2>1 DEF IInv, Typed
<1>4. FrameOwnsReservations'
  BY <1>1, <1>2 DEF IInv, FrameOwnsReservations
<1>5. InStream \subseteq Blocks
  BY DEF IInv, Typed, InStream
<1>6. NoRecyclingUnderCopy'
  BY <1>1, <1>2, <1>5 DEF IInv, NoRecyclingUnderCopy
<1>7. InStream' \subseteq sources'
  BY <1>1, <1>2, <1>5 DEF IInv, NoRecyclingUnderCopy
<1>8. QED
  BY <1>3, <1>4, <1>6, <1>7 DEF IInv

LEMMA OthersKeep ==
  ASSUME IInv, StreamStep \/ \E b \in Blocks : Consume(b) \/ Release(b)
  PROVE  IInv'
<1>1. CASE StreamStep
  <2> USE <1>1 DEF StreamStep
  <2>1. stream' \in Seq(Blocks) /\ InStream' \subseteq InStream /\ InFrame' = InFrame
    BY TailKeeps DEF IInv, Typed, InStream, InFrame
  <2>2. QED
    BY <2>1 DEF IInv, Typed, FrameOwnsReservations, NoRecyclingUnderCopy
<1>2. ASSUME NEW b \in Blocks, Consume(b) \/ Release(b)
      PROVE  IInv'
  <2>1. /\ state[b] \in {"held", "closing"}
        /\ \E s \in {"closing", "lost", "free"} :
             state' = [state EXCEPT ![b] = s] /\ (s = "free" => b \notin InStream)
        /\ sources' = sources \/ (sources' = sources \ {b} /\ b \notin InStream)
        /\ UNCHANGED <<pc, blocks, stream>>
    BY <1>2 DEF Consume, Release
  <2>2. InFrame' = InFrame /\ InStream' = InStream
    BY <2>1 DEF InFrame, InStream
  <2>3. Typed'
    BY <2>1 DEF IInv, Typed, States
  <2>4. b \notin InFrame
    BY <2>1 DEF IInv, FrameOwnsReservations
  <2>5. FrameOwnsReservations'
    BY <2>1, <2>2, <2>4 DEF IInv, Typed, FrameOwnsReservations
  <2>6. NoRecyclingUnderCopy' /\ InStream' \subseteq sources'
    BY <2>1, <2>2 DEF IInv, Typed, NoRecyclingUnderCopy
  <2>7. QED
    BY <2>1, <2>3, <2>5, <2>6 DEF IInv
<1>3. QED
  BY <1>1, <1>2

-----------------------------------------------------------------------------
(* Types, and the arithmetic of the cache.                                  *)

\* Where there is no callback there is no frame, and a block is acquired for a
\* tensor that has none, and whose size and data were looked at.
FrameFitsMessage ==
  /\ pc = "idle" => blocks = <<>>
  /\ pc = "acquiring" => Missing /\ Readable(NextTensor)
  /\ \A i \in DOMAIN blocks : Readable(message[i])

\* A factor is multiplied exactly, or tensor_byte_size throws: whatever the
\* dimension or the element's size, its check keeps size_t from wrapping.
THEOREM FactorIsExact ==
  ASSUME NEW count \in 0..SizeMax, NEW n \in Int, Times(count, n) # 0
  PROVE  n > 0 /\ Times(count, n) = count * n /\ Times(count, n) \in 1..SizeMax
<1> DEFINE most == SizeMax \div n
<1>1. /\ SizeMax \in Nat /\ count \in Nat /\ count > 0 /\ n > 0
      /\ count <= most /\ Times(count, n) = SizeT(count * n)
  BY StagingAssumption DEF Times
<1>2. most \in Nat /\ most * n <= SizeMax
  BY <1>1
<1> HIDE DEF most
<1>3. count * n \in Nat /\ count * n <= most * n /\ count * n >= 1
  BY <1>1, <1>2
<1>4. count * n \in 1..SizeMax
  BY <1>1, <1>2, <1>3
<1>5. \A k \in 0..SizeMax : SizeT(k) = k
  BY <1>1 DEF SizeT
<1>6. QED
  BY <1>1, <1>4, <1>5

\* The checks of ValidateStagingPoolAddition keep size_t from wrapping.
LEMMA AcceptedIsExact ==
  ASSUME NEW bytes \in Nat, Accepts(bytes), cacheBytes \in 0..SizeMax
  PROVE  NextCacheBytes(bytes) = cacheBytes + bytes * PoolCapacity
<1> DEFINE limit == SizeMax \div PoolCapacity
           all == bytes * PoolCapacity
<1>1. SizeMax \in Nat /\ PoolCapacity \in Nat /\ PoolCapacity > 0 /\ limit \in Nat
  BY StagingAssumption
<1>2. limit * PoolCapacity <= SizeMax
  BY <1>1
<1>3. all \in Nat /\ all <= limit * PoolCapacity
  BY <1>1 DEF Accepts
<1> HIDE DEF limit, all
<1>4. all <= SizeMax
  BY <1>1, <1>2, <1>3
<1>5. \A n \in 0..SizeMax : SizeT(n) = n
  BY <1>1 DEF SizeT
<1>6. SizeT(all) = all
  BY <1>1, <1>3, <1>4, <1>5
<1>7. all <= SizeMax - cacheBytes
  BY <1>6 DEF Accepts, all
<1>8. cacheBytes + all \in 0..SizeMax
  BY <1>1, <1>3, <1>7
<1>9. QED
  BY <1>5, <1>6, <1>8 DEF NextCacheBytes, all

\* A message is a sequence of tensors, with one more for the next block.
LEMMA MessageHasNext ==
  ASSUME TypeOK
  PROVE  /\ message \in Seq(Tensors)
         /\ Missing => message \in Messages /\ Len(blocks) + 1 \in DOMAIN message
<1>1. message \in Messages \union {<<>>} /\ <<>> \in Seq(Tensors) /\ Len(<<>>) = 0
  BY DEF TypeOK
<1>2. message \in Seq(Tensors)
  BY <1>1, StagingAssumption
<1>3. Len(message) \in Nat /\ Len(blocks) \in Nat /\ DOMAIN message = 1..Len(message)
  BY <1>2, LenProperties DEF TypeOK
<1>4. ASSUME Missing PROVE message \in Messages /\ Len(blocks) + 1 \in DOMAIN message
  BY <1>1, <1>3, <1>4 DEF Missing
<1>5. QED
  BY <1>2, <1>4

LEMMA NextSizeIsSize ==
  ASSUME TypeOK, Missing, Readable(NextTensor) PROVE NextSize \in Sizes
<1>1. message \in Messages /\ Len(blocks) + 1 \in DOMAIN message
  BY MessageHasNext
<1>2. QED
  BY <1>1, StagingAssumption DEF NextSize, NextTensor

LEMMA TypesKept ==
  ASSUME TypeOK, FrameFitsMessage, [Next]_vars
  PROVE  TypeOK' /\ FrameFitsMessage'
<1> USE DEF FrameFitsMessage, Missing, NextTensor
<1>0. ASSUME NEW m \in Seq(Tensors) PROVE Len(m) \in Nat
  BY <1>0, LenProperties
<1>1. /\ message \in Seq(Tensors) /\ Len(message) \in Nat /\ Len(blocks) \in Nat
      /\ <<>> \in Seq(Tensors) /\ Len(<<>>) = 0
  BY MessageHasNext, LenProperties DEF TypeOK
<1>2. CASE UNCHANGED vars
  BY <1>2 DEF vars, cacheVars, TypeOK
<1>3. ASSUME NEW m \in Messages, Receive(m) PROVE TypeOK' /\ FrameFitsMessage'
  BY <1>3, <1>0, <1>1, StagingAssumption DEF Receive, cacheVars, TypeOK
<1>4. CASE GetPool
  <2>1. NextSize \in Sizes
    BY <1>4, NextSizeIsSize DEF GetPool
  <2>2. cacheBytes' \in 0..SizeMax
    <3>1. \A n \in Nat : SizeT(n) \in 0..SizeMax
      BY StagingAssumption DEF SizeT
    <3>2. NextSize \in Nat /\ PoolCapacity \in Nat /\ SizeMax \in Nat /\ cacheBytes \in Nat
      BY <2>1, StagingAssumption DEF TypeOK
    <3>3. NextSize * PoolCapacity \in Nat
      BY <3>2
    <3>4. NextCacheBytes(NextSize) \in 0..SizeMax
      BY <3>1, <3>2, <3>3 DEF NextCacheBytes
    <3>5. QED
      BY <3>4, <1>4 DEF GetPool, TypeOK, cacheVars
  <2>3. QED
    BY <1>4, <2>1, <2>2 DEF GetPool, TypeOK, cacheVars
<1>5. CASE GetPoolFails \/ PublishFails \/ \E i \in DOMAIN blocks : FinalizeFails(i)
  BY <1>5 DEF GetPoolFails, PublishFails, FinalizeFails, Throw, TypeOK, cacheVars
<1>6. CASE AcquireFails
  <2>1. state' \in [Blocks -> States]
    BY <1>6 DEF AcquireFails, Free, TypeOK, States
  <2>2. QED
    BY <1>6, <2>1 DEF AcquireFails, Throw, TypeOK, States, cacheVars
<1>7. ASSUME NEW b \in Blocks, Acquire(b) PROVE TypeOK' /\ FrameFitsMessage'
  <2>1. /\ b[1] = tensor_byte_size(message[Len(blocks) + 1]) /\ Len(blocks) < Len(message)
        /\ blocks' = Append(blocks, b) /\ blocks \in Seq(Blocks)
    BY <1>7 DEF Acquire, Free, NextSize, NextTensor, TypeOK
  <2>2. /\ blocks' \in Seq(Blocks) /\ Len(blocks') = Len(blocks) + 1
        /\ DOMAIN blocks' = 1..(Len(blocks) + 1) /\ DOMAIN blocks = 1..Len(blocks)
        /\ \A i \in 1..Len(blocks) : blocks'[i] = blocks[i]
        /\ blocks'[Len(blocks) + 1] = b
    BY <2>1, AppendProperties, LenProperties
  <2>3. \A i \in DOMAIN blocks' : blocks'[i][1] = tensor_byte_size(message[i])
    BY <1>1, <2>1, <2>2 DEF TypeOK
  <2>4. Len(blocks') <= Len(message)
    BY <1>1, <2>1, <2>2
  <2>5. \A i \in DOMAIN blocks' : Readable(message[i])
    BY <1>1, <1>7, <2>2 DEF Acquire
  <2>6. QED
    BY <1>7, <2>2, <2>3, <2>4, <2>5 DEF Acquire, TypeOK, cacheVars
<1>8. ASSUME NEW i \in DOMAIN blocks, SubmitCopy(i) \/ SubmitCopyFails(i) \/ Finalize(i)
      PROVE  TypeOK' /\ FrameFitsMessage'
  <2>1. blocks[i] \in Blocks
    BY FrameBlock DEF TypeOK, Typed, States
  <2>2. stream' \in Seq(Blocks)
    <3>1. stream' = stream \/ stream' = Append(stream, blocks[i])
      BY <1>8 DEF SubmitCopy, SubmitCopyFails, Finalize
    <3>2. stream \in Seq(Blocks)
      BY DEF TypeOK
    <3>3. Append(stream, blocks[i]) \in Seq(Blocks)
      BY <2>1, <3>2, AppendAdds
    <3>4. QED
      BY <3>1, <3>2, <3>3
  <2>3. state' \in [Blocks -> States]
    BY <1>8, <2>1 DEF SubmitCopy, SubmitCopyFails, Finalize, TypeOK, States
  <2>4. pc' = pc \/ pc' \in {"throwing", "throwing_unknown"}
    BY <1>8 DEF SubmitCopy, SubmitCopyFails, Finalize, Throw
  <2>5. UNCHANGED <<message, blocks, sources, cacheVars>>
    BY <1>8 DEF SubmitCopy, SubmitCopyFails, Finalize
  <2>6. QED
    BY <2>2, <2>3, <2>4, <2>5 DEF TypeOK, States, cacheVars
<1>9. CASE Publish \/ Unwind
  <2>1. state' \in [Blocks -> States]
    BY <1>9 DEF Publish, Unwind, Ended, TypeOK, States
  <2>2. pc' = "idle" /\ message' = <<>> /\ blocks' = <<>>
    BY <1>9 DEF Publish, Unwind, EndFrame
  <2>3. sources' \subseteq Blocks /\ UNCHANGED <<stream, cacheVars>>
    BY <1>9 DEF Publish, Unwind, TypeOK
  <2>4. QED
    BY <1>1, <2>1, <2>2, <2>3 DEF TypeOK, States, cacheVars
<1>10. CASE StreamStep
  BY <1>10, TailKeeps DEF StreamStep, TypeOK, cacheVars
<1>11. ASSUME NEW b \in Blocks, Consume(b) \/ Release(b) PROVE TypeOK' /\ FrameFitsMessage'
  BY <1>11 DEF Consume, Release, TypeOK, cacheVars
<1>12. QED
  BY <1>2, <1>3, <1>4, <1>5, <1>6, <1>7, <1>8, <1>9, <1>10, <1>11 DEF Next

-----------------------------------------------------------------------------
(* Induction, and the existence of what a fold computes.                    *)

Less == {p \in Nat \X Nat : p[1] < p[2]}

LEMMA LessIsWellFounded == IsWellFoundedOn(Less, Nat)
BY NatLessThanWellFounded, Zenon DEF OpToRel, Less

\* Induction over a set: what a set that is closed under +1 holds.
LEMMA Induct ==
  ASSUME NEW S, 0 \in S, \A n \in Nat : n \in S => n + 1 \in S
  PROVE  Nat \subseteq S
<1>1. SUFFICES ASSUME NEW k \in Nat, k \notin S PROVE FALSE
  OBVIOUS
<1> DEFINE rest == Nat \ S
<1>2. rest \subseteq Nat /\ rest # {}
  BY <1>1
<1>3. PICK n \in rest : \A m \in rest : <<m, n>> \notin Less
  BY <1>2, LessIsWellFounded, WFMin
<1>4. n # 0 /\ n - 1 \in Nat
  BY <1>3
<1>5. n - 1 \notin rest
  <2>1. <<n - 1, n>> \in Less
    <3>1. n \in Nat /\ n - 1 < n
      BY <1>4
    <3>2. QED
      BY <3>1, <1>4 DEF Less
  <2>2. QED
    BY <2>1, <1>3
<1>6. n - 1 \in S /\ n = (n - 1) + 1
  BY <1>4, <1>5
<1>7. QED
  BY <1>3, <1>4, <1>6

\* A choice of an element leaves a smaller set.
LEMMA OneLess ==
  ASSUME NEW S, IsFiniteSet(S), NEW s \in SUBSET S, NEW x \in s
  PROVE  /\ IsFiniteSet(s) /\ s \ {x} \in SUBSET S
         /\ Cardinality(s) \in Nat /\ Cardinality(s) > 0
         /\ Cardinality(s \ {x}) = Cardinality(s) - 1
<1>1. IsFiniteSet(s)
  BY FS_Subset
<1>2. Cardinality(s) \in Nat /\ Cardinality(s \ {x}) = Cardinality(s) - 1
  BY <1>1, FS_CardinalityType, FS_RemoveElement
<1>3. Cardinality(s) # 0
  BY <1>1, FS_EmptySet
<1>4. QED
  BY <1>1, <1>2, <1>3

\* c chooses an element of every set, h is an operation on the rest, and g is
\* the function by which MapThenFoldSet is defined.
Chooses(c, S) == \A s \in SUBSET S : s # {} => c[s] \in s
Operates(h, S, A) == \A s \in SUBSET S : \A v \in A : s # {} => h[<<s, v>>] \in A
FoldsBy(g, S, base, c, h) ==
  g = [s \in SUBSET S |-> IF s = {} THEN base ELSE h[<<s, g[s \ {c[s]}]>>]]

\* MapThenFoldSet is defined: there is a function that satisfies its equation,
\* whatever finite set, operation and choice of elements it is given.
LEMMA FoldExists ==
  ASSUME NEW S, IsFiniteSet(S), NEW A, NEW base \in A,
         NEW c, Chooses(c, S), NEW h, Operates(h, S, A)
  PROVE  \E g \in [SUBSET S -> A] : FoldsBy(g, S, base, c, h)
<1> USE DEF Chooses, Operates, FoldsBy
<1> DEFINE Small(k) == {s \in SUBSET S : Cardinality(s) <= k}
           Solves(g, D) == \A s \in D : g[s] = IF s = {} THEN base ELSE h[<<s, g[s \ {c[s]}]>>]
           Solved == {k \in Nat : \E g \in [Small(k) -> A] : Solves(g, Small(k))}
<1>1. \A s \in SUBSET S : IsFiniteSet(s) /\ Cardinality(s) \in Nat /\ (Cardinality(s) = 0 <=> s = {})
  BY FS_Subset, FS_CardinalityType, FS_EmptySet
<1>2. \A s \in SUBSET S : s # {} =>
        s \ {c[s]} \in SUBSET S /\ Cardinality(s \ {c[s]}) = Cardinality(s) - 1
  BY OneLess
<1>3. 0 \in Solved
  <2>1. \A s \in Small(0) : s = {}
    BY <1>1
  <2>2. [s \in Small(0) |-> base] \in [Small(0) -> A] /\ Solves([s \in Small(0) |-> base], Small(0))
    BY <2>1
  <2>3. QED
    BY <2>2
<1>4. ASSUME NEW k \in Nat, k \in Solved PROVE k + 1 \in Solved
  <2>1. PICK g \in [Small(k) -> A] : Solves(g, Small(k))
    BY <1>4
  <2> DEFINE gg == [s \in Small(k + 1) |-> IF s = {} THEN base ELSE h[<<s, g[s \ {c[s]}]>>]]
  <2>2. \A s \in Small(k + 1) : s # {} => s \ {c[s]} \in Small(k)
    BY <1>1, <1>2
  <2>3. gg \in [Small(k + 1) -> A]
    <3>1. ASSUME NEW s \in Small(k + 1), s # {} PROVE h[<<s, g[s \ {c[s]}]>>] \in A
      BY <3>1, <2>1, <2>2
    <3>2. QED
      BY <3>1
  <2>4. \A s \in Small(k) : s \in Small(k + 1) /\ gg[s] = g[s]
    BY <1>1, <2>1
  <2>5. ASSUME NEW s \in Small(k + 1)
        PROVE  gg[s] = IF s = {} THEN base ELSE h[<<s, gg[s \ {c[s]}]>>]
    <3>1. gg[s] = IF s = {} THEN base ELSE h[<<s, g[s \ {c[s]}]>>]
      OBVIOUS
    <3> HIDE DEF gg
    <3>2. s # {} => gg[s \ {c[s]}] = g[s \ {c[s]}]
      BY <2>2, <2>4
    <3>3. QED
      BY <3>1, <3>2
  <2> HIDE DEF gg
  <2>6. Solves(gg, Small(k + 1))
    BY <2>5
  <2>7. \E f \in [Small(k + 1) -> A] : Solves(f, Small(k + 1))
    BY <2>3, <2>6
  <2> HIDE DEF Solves, Small
  <2>8. QED
    BY <2>7
<1> HIDE DEF Solved
<1>5. Nat \subseteq Solved
  BY <1>3, <1>4, Induct
<1> DEFINE all == Cardinality(S)
<1>6. all \in Nat /\ Small(all) = SUBSET S
  <2>1. \A s \in SUBSET S : Cardinality(s) <= Cardinality(S)
    BY FS_Subset
  <2>2. QED
    BY <2>1, <1>1
<1>7. PICK g \in [SUBSET S -> A] : Solves(g, SUBSET S)
  <2>1. all \in Solved
    BY <1>5, <1>6
  <2>2. QED
    BY <2>1, <1>6 DEF Solved
<1>8. g = [s \in SUBSET S |-> IF s = {} THEN base ELSE h[<<s, g[s \ {c[s]}]>>]]
  <2>1. \A s \in SUBSET S : g[s] = IF s = {} THEN base ELSE h[<<s, g[s \ {c[s]}]>>]
    BY <1>7
  <2>2. g = [s \in SUBSET S |-> g[s]]
    OBVIOUS
  <2>3. QED
    BY <2>1, <2>2
<1>9. QED
  BY <1>8

-----------------------------------------------------------------------------
(* What the pools take.                                                     *)

Taken(bytes) == bytes * PoolCapacity

\* What all pools take, as CacheWithinLimits has it.
Total(S) == MapThenSumSet(LAMBDA s : s * PoolCapacity, S)

\* The equation of MapThenSumSet over the pools.
Sums(g, S) ==
  g = [s \in SUBSET S |-> IF s = {} THEN 0
                          ELSE LET x == CHOOSE x \in s : TRUE IN Taken(x) + g[s \ {x}]]

LEMMA TakenIsNat == \A n \in Nat : Taken(n) \in Nat
<1>1. PoolCapacity \in Nat
  BY StagingAssumption
<1>2. QED
  BY <1>1 DEF Taken

LEMMA SumSolves ==
  ASSUME NEW S \in SUBSET Nat, IsFiniteSet(S)
  PROVE  \E g : Sums(g, S) /\ Total(S) = g[S]
<1> DEFINE c == [s \in SUBSET S |-> CHOOSE x \in s : TRUE]
           h == [p \in (SUBSET S) \X Nat |-> Taken(CHOOSE x \in p[1] : TRUE) + p[2]]
           g0 == CHOOSE g : Sums(g, S)
<1>1. \A s \in SUBSET S : s # {} => c[s] = (CHOOSE x \in s : TRUE) /\ c[s] \in s
  OBVIOUS
<1>2. \A s \in SUBSET S : \A v \in Nat : h[<<s, v>>] = Taken(CHOOSE x \in s : TRUE) + v
  OBVIOUS
<1>3. ASSUME NEW s \in SUBSET S, NEW v \in Nat, s # {} PROVE h[<<s, v>>] \in Nat
  <2> DEFINE x == CHOOSE x \in s : TRUE
  <2>1. x \in Nat
    BY <1>3
  <2> HIDE DEF c, h, g0
  <2>2. h[<<s, v>>] = Taken(x) + v
    BY <1>2
  <2> HIDE DEF x
  <2>3. Taken(x) \in Nat
    BY <2>1, TakenIsNat
  <2>4. QED
    BY <2>2, <2>3
<1> HIDE DEF c, h
<1>4. PICK g \in [SUBSET S -> Nat] : FoldsBy(g, S, 0, c, h)
  <2>1. Chooses(c, S)
    BY <1>1 DEF Chooses
  <2>2. Operates(h, S, Nat)
    BY <1>3 DEF Operates
  <2> HIDE DEF g0
  <2>3. QED
    BY <2>1, <2>2, FoldExists
<1>5. Sums(g, S)
  <2>1. ASSUME NEW s \in SUBSET S, s # {}
        PROVE  h[<<s, g[s \ {c[s]}]>>] = LET x == CHOOSE x \in s : TRUE IN Taken(x) + g[s \ {x}]
    <3>1. s \ {c[s]} \in SUBSET S
      OBVIOUS
    <3>2. g[s \ {c[s]}] \in Nat
      BY <3>1
    <3>3. QED
      BY <1>1, <1>2, <2>1, <3>2
  <2>2. QED
    BY <1>4, <2>1 DEF Sums, FoldsBy
<1>6. Sums(g0, S)
  BY <1>5
<1>7. Total(S) = g0[S]
  BY DEF Total, MapThenSumSet, MapThenFoldSet, Sums, Taken
<1>8. QED
  BY <1>6, <1>7

\* The sum is that of any element and of the others, whichever is chosen first.
LEMMA SumOfOneMore ==
  ASSUME NEW S \in SUBSET Nat, IsFiniteSet(S), NEW g, Sums(g, S)
  PROVE  \A s \in SUBSET S : g[s] \in Nat /\ \A x \in s : g[s] = Taken(x) + g[s \ {x}]
<1> DEFINE Good(s) == g[s] \in Nat /\ \A x \in s : g[s] = Taken(x) + g[s \ {x}]
           Done == {k \in Nat : \A s \in SUBSET S : Cardinality(s) <= k => Good(s)}
<1>1. \A s \in SUBSET S : IsFiniteSet(s) /\ Cardinality(s) \in Nat /\ (Cardinality(s) = 0 <=> s = {})
  BY FS_Subset, FS_CardinalityType, FS_EmptySet
<1>2. g[{}] = 0
  BY DEF Sums
<1>3. ASSUME NEW s \in SUBSET S, s # {}
      PROVE  \E x \in s : g[s] = Taken(x) + g[s \ {x}]
  <2>1. (CHOOSE x \in s : TRUE) \in s
    BY <1>3
  <2>2. g[s] = LET x == CHOOSE x \in s : TRUE IN Taken(x) + g[s \ {x}]
    BY <1>3 DEF Sums
  <2>3. QED
    BY <2>1, <2>2
<1>4. 0 \in Done
  <2>1. \A s \in SUBSET S : Cardinality(s) <= 0 => s = {}
    BY <1>1
  <2>2. Good({})
    BY <1>2
  <2> HIDE DEF Good
  <2>3. QED
    BY <2>1, <2>2
<1>5. ASSUME NEW k \in Nat, k \in Done PROVE k + 1 \in Done
  <2> SUFFICES ASSUME NEW s \in SUBSET S, Cardinality(s) <= k + 1, s # {} PROVE Good(s)
    <3>1. Good({})
      BY <1>2
    <3> HIDE DEF Good
    <3>2. QED
      BY <3>1
  <2>1. Cardinality(s) <= k + 1
    OBVIOUS
  <2>2. s # {}
    OBVIOUS
  <2>3. PICK y \in s : g[s] = Taken(y) + g[s \ {y}]
    BY <1>3, <2>2
  <2>4. ASSUME NEW x \in s PROVE s \ {x} \in SUBSET S /\ Good(s \ {x})
    <3>1. /\ s \ {x} \in SUBSET S /\ Cardinality(s \ {x}) = Cardinality(s) - 1
          /\ Cardinality(s) \in Nat
      BY OneLess
    <3>2. Cardinality(s \ {x}) <= k
      BY <2>1, <3>1
    <3> HIDE DEF Good
    <3>3. QED
      BY <1>5, <3>1, <3>2
  <2>5. \A x \in s : Taken(x) \in Nat
    BY TakenIsNat
  <2>6. g[s] \in Nat
    <3>1. Taken(y) \in Nat /\ g[s \ {y}] \in Nat
      BY <2>4, <2>5
    <3>2. QED
      BY <2>3, <3>1
  <2>7. ASSUME NEW x \in s, x # y PROVE g[s] = Taken(x) + g[s \ {x}]
    <3> DEFINE r == (s \ {x}) \ {y}
    <3>1. x \in s \ {y} /\ y \in s \ {x} /\ (s \ {y}) \ {x} = r
      BY <2>7
    <3>2. g[s \ {y}] = Taken(x) + g[r] /\ g[s \ {x}] = Taken(y) + g[r]
      BY <3>1, <2>4
    <3>3. g[r] \in Nat
      <4>1. r \in SUBSET S
        OBVIOUS
      <4>2. /\ Cardinality(s \ {x}) = Cardinality(s) - 1 /\ Cardinality(s) \in Nat
            /\ Cardinality(r) = Cardinality(s \ {x}) - 1
        <5> DEFINE q == s \ {x}
        <5>1. q \in SUBSET S /\ y \in q /\ r = q \ {y}
          BY <3>1
        <5> HIDE DEF q, r, Good
        <5>2. Cardinality(r) = Cardinality(q) - 1
          BY <5>1, OneLess
        <5>3. QED
          BY <5>2, OneLess DEF q
      <4>3. Cardinality(r) <= k
        BY <2>1, <4>2
      <4>4. Good(r)
        <5> HIDE DEF Good
        <5> QED
          BY <1>5, <4>1, <4>3
      <4>5. QED
        BY <4>4
    <3>4. Taken(x) \in Nat /\ Taken(y) \in Nat
      BY <2>5
    <3> HIDE DEF r
    <3>5. QED
      BY <2>3, <3>2, <3>3, <3>4
  <2>8. QED
    BY <2>3, <2>6, <2>7
<1> HIDE DEF Done, Good
<1>6. Nat \subseteq Done
  BY <1>4, <1>5, Induct
<1>7. \A s \in SUBSET S : Good(s)
  BY <1>1, <1>6 DEF Done
<1>8. QED
  BY <1>7 DEF Good

\* The sum over a set does not depend on the set that it is computed for.
LEMMA SumsAgree ==
  ASSUME NEW S \in SUBSET Nat, IsFiniteSet(S), NEW T \in SUBSET S,
         NEW f, Sums(f, T), NEW g, Sums(g, S)
  PROVE  f[T] = g[T]
<1> DEFINE Done == {k \in Nat : \A s \in SUBSET T : Cardinality(s) = k => f[s] = g[s]}
<1>1. /\ IsFiniteSet(T) /\ T \in SUBSET Nat
      /\ \A s \in SUBSET T : IsFiniteSet(s) /\ Cardinality(s) \in Nat /\ (Cardinality(s) = 0 <=> s = {})
  BY FS_Subset, FS_CardinalityType, FS_EmptySet
<1>2. f[{}] = 0 /\ g[{}] = 0
  BY DEF Sums
<1>3. 0 \in Done
  <2>1. \A s \in SUBSET T : Cardinality(s) = 0 => s = {}
    BY <1>1
  <2>2. QED
    BY <2>1, <1>2
<1>4. ASSUME NEW k \in Nat, k \in Done PROVE k + 1 \in Done
  <2> SUFFICES ASSUME NEW s \in SUBSET T, Cardinality(s) = k + 1 PROVE f[s] = g[s]
    OBVIOUS
  <2>1. s # {}
    BY <1>1
  <2>2. PICK x \in s : TRUE
    BY <2>1
  <2>3. f[s] = Taken(x) + f[s \ {x}]
    BY <1>1, SumOfOneMore
  <2>4. g[s] = Taken(x) + g[s \ {x}]
    <3>1. \A r \in SUBSET S : g[r] \in Nat /\ \A y \in r : g[r] = Taken(y) + g[r \ {y}]
      BY SumOfOneMore
    <3>2. s \in SUBSET S
      OBVIOUS
    <3>3. QED
      BY <3>1, <3>2
  <2>5. s \ {x} \in SUBSET T /\ Cardinality(s \ {x}) = k
    BY <1>1, OneLess
  <2>6. f[s \ {x}] = g[s \ {x}]
    BY <1>4, <2>5
  <2>7. QED
    BY <2>3, <2>4, <2>6
<1> HIDE DEF Done
<1>5. Nat \subseteq Done
  BY <1>3, <1>4, Induct
<1>6. QED
  BY <1>1, <1>5 DEF Done

\* A pool more takes what it takes more.
LEMMA SumOfUnion ==
  ASSUME NEW S \in SUBSET Nat, IsFiniteSet(S), NEW n \in Nat, n \notin S
  PROVE  Total(S \union {n}) = Total(S) + n * PoolCapacity
<1> DEFINE more == S \union {n}
<1>1. /\ more \in SUBSET Nat /\ IsFiniteSet(more) /\ S \in SUBSET more
      /\ more \ {n} = S /\ more \in SUBSET more /\ n \in more
  BY FS_AddElement
<1>2. PICK f : Sums(f, S) /\ Total(S) = f[S]
  BY SumSolves
<1>3. PICK g : Sums(g, more) /\ Total(more) = g[more]
  <2> HIDE DEF more
  <2>1. QED
    BY <1>1, SumSolves
<1>4. g[more] = Taken(n) + g[S]
  <2> HIDE DEF more
  <2>1. g[more] = Taken(n) + g[more \ {n}]
    <3>1. \A s \in SUBSET more : g[s] \in Nat /\ \A x \in s : g[s] = Taken(x) + g[s \ {x}]
      BY <1>1, <1>3, SumOfOneMore
    <3>2. QED
      BY <1>1, <3>1
  <2>2. QED
    BY <1>1, <2>1
<1>5. f[S] = g[S] /\ f[S] \in Nat
  <2> HIDE DEF more
  <2>1. f[S] = g[S]
    BY <1>1, <1>2, <1>3, SumsAgree
  <2>2. f[S] \in Nat
    BY <1>2, SumOfOneMore
  <2>3. QED
    BY <2>1, <2>2
<1>6. Taken(n) \in Nat /\ Taken(n) = n * PoolCapacity
  BY TakenIsNat DEF Taken
<1>7. Total(more) = f[S] + n * PoolCapacity
  BY <1>3, <1>4, <1>5, <1>6
<1>8. QED
  BY <1>2, <1>7

LEMMA SumOfNone == Total({}) = 0
<1>1. {} \in SUBSET Nat /\ IsFiniteSet({})
  BY FS_EmptySet
<1>2. PICK g : Sums(g, {}) /\ Total({}) = g[{}]
  BY <1>1, SumSolves
<1>3. QED
  BY <1>2 DEF Sums

-----------------------------------------------------------------------------
(* What tensor_byte_size multiplies.                                        *)

LEMMA MaxIsGreatest ==
  ASSUME NEW n \in Nat, NEW s \in SUBSET (1..n), s # {}
  PROVE  Max(s) \in s /\ \A y \in s : y <= Max(s)
<1> DEFINE below == {n - y : y \in s}
<1>1. below \subseteq Nat /\ below # {}
  <2>1. \A y \in s : n - y \in Nat
    OBVIOUS
  <2>2. QED
    BY <2>1
<1>2. PICK d \in below : \A m \in below : <<m, d>> \notin Less
  <2> HIDE DEF below
  <2>1. QED
    BY <1>1, LessIsWellFounded, WFMin
<1>3. PICK x \in s : d = n - x
  BY <1>2
<1>4. ASSUME NEW y \in s PROVE x >= y
  <2>1. n - y \in Nat /\ d \in Nat /\ n - y \in below
    BY <1>1
  <2>2. <<n - y, d>> \notin Less
    BY <1>2, <2>1
  <2>3. ~ (n - y < d)
    <3> HIDE DEF below
    <3>1. QED
      BY <2>1, <2>2 DEF Less
  <2>4. x \in 1..n /\ y \in 1..n
    OBVIOUS
  <2>5. QED
    BY <1>3, <2>3, <2>4
<1>5. \E z \in s : \A y \in s : z >= y
  BY <1>4
<1>6. Max(s) \in s /\ \A y \in s : Max(s) >= y
  BY <1>5 DEF Max
<1>7. QED
  BY <1>6

LEMMA MaxOfRange == ASSUME NEW n \in Nat, n # 0 PROVE Max(1..n) = n
<1>1. 1..n \in SUBSET (1..n) /\ n \in 1..n
  OBVIOUS
<1>2. Max(1..n) \in 1..n /\ n <= Max(1..n)
  BY <1>1, MaxIsGreatest
<1>3. QED
  BY <1>2

\* The equations of FoldLeft, for the product that is checked and for the one
\* that is meant.
Checked(g, q) ==
  g = [s \in SUBSET DOMAIN q |-> IF s = {} THEN 1
                                 ELSE LET x == Max(s) IN Times(g[s \ {x}], q[x])]

Meant(g, q, e) ==
  g = [s \in SUBSET DOMAIN q |-> IF s = {} THEN e
                                 ELSE LET x == Max(s) IN g[s \ {x}] * q[x]]

LEMMA TimesIsSize == \A count \in 0..SizeMax, n \in Int : Times(count, n) \in 0..SizeMax
<1>1. SUFFICES ASSUME NEW count \in 0..SizeMax, NEW n \in Int
               PROVE  Times(count, n) \in 0..SizeMax
  OBVIOUS
<1>2. SizeMax \in Nat
  BY StagingAssumption
<1>3. CASE Times(count, n) = 0
  BY <1>2, <1>3
<1>4. CASE Times(count, n) # 0
  BY <1>2, <1>4, FactorIsExact
<1>5. QED
  BY <1>3, <1>4

\* How a shape's dimensions are chosen: the last one first.
LEMMA LastIsChosen ==
  ASSUME NEW q \in Seq(Int)
  PROVE  /\ Len(q) \in Nat /\ DOMAIN q = 1..Len(q) /\ IsFiniteSet(DOMAIN q)
         /\ Chooses([s \in SUBSET DOMAIN q |-> Max(s)], DOMAIN q)
         /\ \A s \in SUBSET DOMAIN q : s # {} => Max(s) \in DOMAIN q /\ q[Max(s)] \in Int
<1>1. Len(q) \in Nat /\ DOMAIN q = 1..Len(q) /\ q \in [1..Len(q) -> Int]
  BY LenProperties
<1>2. IsFiniteSet(DOMAIN q)
  BY <1>1, FS_Interval
<1>3. \A s \in SUBSET DOMAIN q : s # {} => Max(s) \in s
  BY <1>1, MaxIsGreatest
<1>4. QED
  BY <1>1, <1>2, <1>3 DEF Chooses

LEMMA CheckedSolves ==
  ASSUME NEW q \in Seq(Int)
  PROVE  \E g : Checked(g, q) /\ FoldLeft(Times, 1, q) = g[DOMAIN q]
<1> DEFINE S == DOMAIN q
           A == 0..SizeMax
           c == [s \in SUBSET S |-> Max(s)]
           h == [p \in (SUBSET S) \X A |-> Times(p[2], q[Max(p[1])])]
           g0 == CHOOSE g : Checked(g, q)
<1>1. IsFiniteSet(S) /\ Chooses(c, S)
  BY LastIsChosen
<1>2. \A s \in SUBSET S : c[s] = Max(s) /\ \A v \in A : h[<<s, v>>] = Times(v, q[Max(s)])
  OBVIOUS
<1>3. 1 \in A
  BY StagingAssumption
<1>4. Operates(h, S, A)
  <2>1. \A s \in SUBSET S : s # {} => q[Max(s)] \in Int
    BY LastIsChosen
  <2> HIDE DEF h, c, g0
  <2>2. QED
    BY <1>2, <2>1, TimesIsSize DEF Operates
<1> HIDE DEF c, h, A, S, g0
<1>5. PICK g \in [SUBSET S -> A] : FoldsBy(g, S, 1, c, h)
  BY <1>1, <1>3, <1>4, FoldExists
<1>6. Checked(g, q)
  <2>1. ASSUME NEW s \in SUBSET S, s # {}
        PROVE  h[<<s, g[s \ {c[s]}]>>] = LET x == Max(s) IN Times(g[s \ {x}], q[x])
    <3>1. g[s \ {c[s]}] \in A
      OBVIOUS
    <3>2. QED
      BY <1>2, <3>1
  <2>2. QED
    BY <1>5, <2>1 DEF Checked, FoldsBy, S
<1>7. Checked(g0, q)
  BY <1>6 DEF g0
<1>8. FoldLeft(Times, 1, q) = g0[DOMAIN q]
  BY DEF FoldLeft, MapThenFoldSet, Checked, g0
<1>9. QED
  BY <1>7, <1>8

LEMMA MeantSolves ==
  ASSUME NEW q \in Seq(Int), NEW e \in Int
  PROVE  \E g : Meant(g, q, e) /\ FoldLeft(LAMBDA x, y : x * y, e, q) = g[DOMAIN q]
<1> DEFINE S == DOMAIN q
           c == [s \in SUBSET S |-> Max(s)]
           h == [p \in (SUBSET S) \X Int |-> p[2] * q[Max(p[1])]]
           g0 == CHOOSE g : Meant(g, q, e)
<1>1. IsFiniteSet(S) /\ Chooses(c, S)
  BY LastIsChosen
<1>2. \A s \in SUBSET S : c[s] = Max(s) /\ \A v \in Int : h[<<s, v>>] = v * q[Max(s)]
  OBVIOUS
<1>3. Operates(h, S, Int)
  <2>1. \A s \in SUBSET S : s # {} => q[Max(s)] \in Int
    BY LastIsChosen
  <2>2. \A i, j \in Int : i * j \in Int
    OBVIOUS
  <2> HIDE DEF h, c, g0
  <2>3. QED
    BY <1>2, <2>1, <2>2 DEF Operates
<1> HIDE DEF c, h, S, g0
<1>4. PICK g \in [SUBSET S -> Int] : FoldsBy(g, S, e, c, h)
  BY <1>1, <1>3, FoldExists
<1>5. Meant(g, q, e)
  <2>1. ASSUME NEW s \in SUBSET S, s # {}
        PROVE  h[<<s, g[s \ {c[s]}]>>] = LET x == Max(s) IN g[s \ {x}] * q[x]
    <3>1. g[s \ {c[s]}] \in Int
      OBVIOUS
    <3>2. QED
      BY <1>2, <3>1
  <2>2. QED
    BY <1>4, <2>1 DEF Meant, FoldsBy, S
<1>6. Meant(g0, q, e)
  BY <1>5 DEF g0
<1>7. FoldLeft(LAMBDA x, y : x * y, e, q) = g0[DOMAIN q]
  BY DEF FoldLeft, MapThenFoldSet, Meant, g0
<1>8. QED
  BY <1>6, <1>7

LEMMA ProductIsExact ==
  ASSUME NEW q \in Seq(Int), NEW e \in Int, NEW g, Checked(g, q), NEW f, Meant(f, q, e)
  PROVE  \A n \in 0..Len(q) :
           g[1..n] # 0 => /\ \A k \in 1..n : q[k] > 0
                          /\ g[1..n] \in 1..SizeMax
                          /\ f[1..n] = e * g[1..n]
<1> DEFINE Exact(n) == g[1..n] # 0 => /\ \A k \in 1..n : q[k] > 0
                                      /\ g[1..n] \in 1..SizeMax
                                      /\ f[1..n] = e * g[1..n]
           Done == {n \in Nat : n <= Len(q) => Exact(n)}
<1>1. /\ Len(q) \in Nat /\ DOMAIN q = 1..Len(q) /\ \A k \in 1..Len(q) : q[k] \in Int
  BY LenProperties
<1>2. 0 \in Done
  <2>1. 1..0 = {} /\ g[{}] = 1 /\ f[{}] = e
    BY DEF Checked, Meant
  <2>2. 1 \in 1..SizeMax /\ e = e * 1
    BY StagingAssumption
  <2>3. QED
    BY <2>1, <2>2
<1>3. ASSUME NEW n \in Nat, n \in Done PROVE n + 1 \in Done
  <2> SUFFICES ASSUME n + 1 <= Len(q), g[1..(n + 1)] # 0
               PROVE  /\ \A k \in 1..(n + 1) : q[k] > 0
                      /\ g[1..(n + 1)] \in 1..SizeMax
                      /\ f[1..(n + 1)] = e * g[1..(n + 1)]
    OBVIOUS
  <2> DEFINE s == 1..(n + 1)
             a == g[1..n]
             b == q[n + 1]
  <2>1. s \in SUBSET DOMAIN q /\ s # {} /\ Max(s) = n + 1 /\ s \ {n + 1} = 1..n
    <3>1. s \in SUBSET DOMAIN q /\ s # {}
      <4>1. n + 1 \in s /\ \A k \in s : k \in 1..Len(q)
        BY <1>1
      <4>2. QED
        BY <1>1, <4>1
    <3>2. n + 1 \in Nat /\ n + 1 # 0
      OBVIOUS
    <3>3. Max(s) = n + 1
      BY <3>2, MaxOfRange
    <3>4. \A k : k \in s \ {n + 1} <=> k \in 1..n
      OBVIOUS
    <3>5. QED
      BY <3>1, <3>3, <3>4
  <2>2. g[s] = Times(a, b) /\ f[s] = f[1..n] * b
    <3> HIDE DEF s
    <3>1. g[s] = LET x == Max(s) IN Times(g[s \ {x}], q[x])
      BY <2>1 DEF Checked
    <3>2. f[s] = LET x == Max(s) IN f[s \ {x}] * q[x]
      BY <2>1 DEF Meant
    <3>3. QED
      BY <2>1, <3>1, <3>2
  <2>3. a # 0 /\ b \in Int
    BY <1>1, <2>2 DEF Times
  <2>4. (\A k \in 1..n : q[k] > 0) /\ a \in 1..SizeMax /\ f[1..n] = e * a
    BY <1>3, <2>3
  <2> HIDE DEF a, b
  <2>5. a \in 0..SizeMax /\ Times(a, b) # 0
    BY <2>2, <2>4
  <2>6. b > 0 /\ Times(a, b) = a * b /\ Times(a, b) \in 1..SizeMax
    BY <2>3, <2>5, FactorIsExact
  <2>7. f[s] = e * Times(a, b)
    <3>1. a \in Int
      BY <2>4
    <3>2. (e * a) * b = e * (a * b)
      BY <2>3, <3>1
    <3>3. QED
      BY <2>2, <2>4, <2>6, <3>2
  <2>8. \A k \in 1..(n + 1) : q[k] > 0
    <3>1. ASSUME NEW k \in 1..(n + 1), k \notin 1..n PROVE k = n + 1
      BY <3>1
    <3>2. QED
      BY <2>4, <2>6, <3>1 DEF b
  <2>9. QED
    BY <2>2, <2>6, <2>7, <2>8
<1> HIDE DEF Done, Exact
<1>4. Nat \subseteq Done
  BY <1>2, <1>3, Induct
<1>5. \A n \in 0..Len(q) : Exact(n)
  BY <1>1, <1>4 DEF Done
<1>6. QED
  BY <1>5 DEF Exact

\* A size that tensor_byte_size returns is the product of the element's bytes and
\* of all dimensions, which are positive: of no shape does size_t wrap.
THEOREM SizeIsExact ==
  ASSUME NEW t \in Tensors, tensor_byte_size(t) # 0
  PROVE  /\ t.shape # <<>> /\ \A k \in DOMAIN t.shape : t.shape[k] > 0
         /\ FoldLeft(LAMBDA x, y : x * y, t.element, t.shape) = tensor_byte_size(t)
<1> DEFINE q == t.shape
           e == t.element
<1>1. q \in Seq(Int) /\ e \in Int
  BY DEF Tensors
<1>2. q # <<>> /\ tensor_byte_size(t) = Times(FoldLeft(Times, 1, q), e)
  BY DEF tensor_byte_size
<1> HIDE DEF q, e
<1>3. PICK g : Checked(g, q) /\ FoldLeft(Times, 1, q) = g[DOMAIN q]
  BY <1>1, CheckedSolves
<1>4. PICK f : Meant(f, q, e) /\ FoldLeft(LAMBDA x, y : x * y, e, q) = f[DOMAIN q]
  BY <1>1, MeantSolves
<1> DEFINE all == g[DOMAIN q]
<1>5. tensor_byte_size(t) = Times(all, e) /\ all # 0
  BY <1>2, <1>3 DEF Times
<1>6. Len(q) \in Nat /\ DOMAIN q = 1..Len(q) /\ Len(q) \in 0..Len(q)
  BY <1>1, LenProperties
<1>7. (\A k \in DOMAIN q : q[k] > 0) /\ all \in 1..SizeMax /\ f[DOMAIN q] = e * all
  <2>1. Checked(g, q) /\ Meant(f, q, e)
    BY <1>3, <1>4
  <2>2. QED
    BY <1>1, <1>5, <1>6, <2>1, ProductIsExact
<1> HIDE DEF all
<1>8. Times(all, e) = all * e
  <2>1. all \in 0..SizeMax
    BY <1>7
  <2>2. QED
    BY <1>1, <1>5, <2>1, FactorIsExact
<1>9. all * e = e * all
  BY <1>1, <1>7
<1>10. QED
  BY <1>2, <1>4, <1>5, <1>7, <1>8, <1>9 DEF q, e

-----------------------------------------------------------------------------
(* The theorems.                                                            *)

LEMMA InitTypes == Init => TypeOK /\ FrameFitsMessage
<1> SUFFICES ASSUME Init PROVE TypeOK /\ FrameFitsMessage
  OBVIOUS
<1>1. Len(<<>>) = 0 /\ DOMAIN (<<>>) = {}
  OBVIOUS
<1>2. QED
  BY <1>1, StagingAssumption DEF Init, TypeOK, FrameFitsMessage

LEMMA InitInvariant == Init => IInv
<1> SUFFICES ASSUME Init PROVE IInv
  OBVIOUS
<1>1. InFrame = {} /\ InStream = {}
  BY EmptyHasNone DEF Init, InFrame, InStream
<1>2. Typed
  BY DEF Init, Typed, States
<1>3. QED
  BY <1>1, <1>2 DEF Init, IInv, FrameOwnsReservations, NoRecyclingUnderCopy

LEMMA StepInvariant ==
  ASSUME IInv, [Next]_vars
  PROVE  IInv'
<1>1. CASE UNCHANGED vars
  BY <1>1, AsideKeeps DEF vars
<1>2. CASE \/ (\E m \in Messages : Receive(m)) \/ GetPool \/ GetPoolFails \/ PublishFails
           \/ \E i \in DOMAIN blocks : FinalizeFails(i)
  BY <1>2, AsideKeeps DEF Receive, GetPool, GetPoolFails, PublishFails, FinalizeFails
<1>3. CASE AcquireFails \/ Publish \/ Unwind
  BY <1>3, AcquireFailsKeeps, PublishKeeps, UnwindKeeps
<1>4. CASE StreamStep \/ \E b \in Blocks : Acquire(b) \/ Consume(b) \/ Release(b)
  BY <1>4, AcquireKeeps, OthersKeep
<1>5. CASE \E i \in DOMAIN blocks : SubmitCopy(i) \/ SubmitCopyFails(i) \/ Finalize(i)
  BY <1>5, SubmitKeeps, FinalizeKeeps
<1>6. QED
  BY <1>1, <1>2, <1>3, <1>4, <1>5 DEF Next

\* The inductive invariant holds in every reachable state of the staging node.
THEOREM Invariance == Spec => []IInv
<1>1. Init => IInv
  BY InitInvariant
<1>2. IInv /\ [Next]_vars => IInv'
  BY StepInvariant
<1>3. QED
  BY <1>1, <1>2, PTL DEF Spec

\* Every variable of the staging node keeps its type, and blocks are reserved
\* for the tensors of the message, in their order.
THEOREM TypeCorrect == Spec => []TypeOK
<1>1. Init => TypeOK /\ FrameFitsMessage
  BY InitTypes
<1>2. TypeOK /\ FrameFitsMessage /\ [Next]_vars => (TypeOK /\ FrameFitsMessage)'
  BY TypesKept
<1>3. QED
  BY <1>1, <1>2, PTL DEF Spec

\* How the cache changes: by one pool, within both limits and exactly, or not at all.
LEMMA CacheStep ==
  ASSUME TypeOK, [Next]_vars
  PROVE  \/ pools' = pools /\ cacheBytes' = cacheBytes
         \/ \E bytes \in Sizes :
              /\ pools' = pools \union {bytes} /\ bytes \notin pools
              /\ Cardinality(pools) < MaxCacheEntries
              /\ cacheBytes' = cacheBytes + bytes * PoolCapacity
              /\ cacheBytes' <= MaxCacheBytes
<1>1. SUFFICES ASSUME ~(pools' = pools /\ cacheBytes' = cacheBytes)
               PROVE  \E bytes \in Sizes :
                        /\ pools' = pools \union {bytes} /\ bytes \notin pools
                        /\ Cardinality(pools) < MaxCacheEntries
                        /\ cacheBytes' = cacheBytes + bytes * PoolCapacity
                        /\ cacheBytes' <= MaxCacheBytes
  OBVIOUS
<1>2. GetPool
  BY <1>1 DEF Next, vars, cacheVars, Receive, GetPoolFails, AcquireFails, PublishFails, Publish,
              Unwind, Acquire, Consume, Release, SubmitCopy, SubmitCopyFails, Finalize,
              FinalizeFails, StreamStep
<1>3. /\ NextSize \notin pools /\ Accepts(NextSize)
      /\ pools' = pools \union {NextSize} /\ cacheBytes' = NextCacheBytes(NextSize)
  BY <1>1, <1>2 DEF GetPool, cacheVars
<1>4. NextSize \in Sizes /\ NextSize \in Nat
  <2>1. NextSize \in Sizes
    BY <1>2, NextSizeIsSize DEF GetPool
  <2>2. QED
    BY <2>1, StagingAssumption
<1>5. cacheBytes' = cacheBytes + NextSize * PoolCapacity
  BY <1>3, <1>4, AcceptedIsExact DEF TypeOK
<1>6. Cardinality(pools) < MaxCacheEntries /\ cacheBytes' <= MaxCacheBytes
  BY <1>3 DEF Accepts
<1>7. QED
  BY <1>3, <1>4, <1>5, <1>6

\* A pool joins the cache only within both limits, and pool_cache_bytes_ grows by
\* exactly what the pool takes: size_t never wraps.
THEOREM CacheGrowsExactly ==
  Spec => [][ pools' # pools =>
                \E bytes \in Sizes :
                  /\ pools' = pools \union {bytes} /\ bytes \notin pools
                  /\ Cardinality(pools) < MaxCacheEntries
                  /\ cacheBytes' = cacheBytes + bytes * PoolCapacity
                  /\ cacheBytes' <= MaxCacheBytes ]_vars
<1>1. ASSUME TypeOK, [Next]_vars, pools' # pools
      PROVE  \E bytes \in Sizes :
               /\ pools' = pools \union {bytes} /\ bytes \notin pools
               /\ Cardinality(pools) < MaxCacheEntries
               /\ cacheBytes' = cacheBytes + bytes * PoolCapacity
               /\ cacheBytes' <= MaxCacheBytes
  BY <1>1, CacheStep
<1>2. QED
  BY <1>1, TypeCorrect, PTL DEF Spec

\* What is counted is what the pools take, of which there are finitely many.
CacheIsCounted ==
  /\ IsFiniteSet(pools)
  /\ Total(pools) = cacheBytes
  /\ cacheBytes <= MaxCacheBytes /\ Cardinality(pools) <= MaxCacheEntries

LEMMA InitCounted == Init => CacheIsCounted
<1> SUFFICES ASSUME Init PROVE CacheIsCounted
  OBVIOUS
<1>1. pools = {} /\ cacheBytes = 0
  BY DEF Init
<1>2. IsFiniteSet({}) /\ Cardinality({}) = 0
  BY FS_EmptySet
<1>3. MaxCacheBytes \in Nat /\ MaxCacheEntries \in Nat
  BY StagingAssumption
<1>4. QED
  BY <1>1, <1>2, <1>3, SumOfNone DEF CacheIsCounted

LEMMA StepCounted ==
  ASSUME TypeOK, CacheIsCounted, [Next]_vars
  PROVE  CacheIsCounted'
<1>1. CASE pools' = pools /\ cacheBytes' = cacheBytes
  BY <1>1 DEF CacheIsCounted
<1>2. ASSUME NEW bytes \in Sizes,
             pools' = pools \union {bytes}, bytes \notin pools,
             Cardinality(pools) < MaxCacheEntries,
             cacheBytes' = cacheBytes + bytes * PoolCapacity, cacheBytes' <= MaxCacheBytes
      PROVE  CacheIsCounted'
  <2>1. pools \in SUBSET Nat /\ bytes \in Nat /\ MaxCacheEntries \in Nat /\ IsFiniteSet(pools)
    BY StagingAssumption DEF TypeOK, CacheIsCounted
  <2>2. /\ IsFiniteSet(pools') /\ Cardinality(pools') = Cardinality(pools) + 1
        /\ Cardinality(pools) \in Nat
    BY <1>2, <2>1, FS_AddElement, FS_CardinalityType
  <2>3. Total(pools') = Total(pools) + bytes * PoolCapacity
    BY <1>2, <2>1, SumOfUnion
  <2>4. Total(pools') = cacheBytes' /\ Cardinality(pools') <= MaxCacheEntries
    BY <1>2, <2>1, <2>2, <2>3 DEF CacheIsCounted
  <2>5. QED
    BY <1>2, <2>2, <2>4 DEF CacheIsCounted
<1>3. QED
  BY <1>1, <1>2, CacheStep

\* Whatever sizes the messages bring, the pools together take no more than the
\* limit and are no more than the limit, and pool_cache_bytes_ is what they take.
THEOREM CacheStaysWithinLimits == Spec => []CacheWithinLimits
<1>1. Init => TypeOK /\ FrameFitsMessage /\ CacheIsCounted
  BY InitTypes, InitCounted
<1>2. TypeOK /\ FrameFitsMessage /\ CacheIsCounted /\ [Next]_vars
        => (TypeOK /\ FrameFitsMessage /\ CacheIsCounted)'
  BY TypesKept, StepCounted
<1>3. CacheIsCounted => CacheWithinLimits
  BY DEF CacheIsCounted, CacheWithinLimits, Total
<1>4. QED
  BY <1>1, <1>2, <1>3, PTL DEF Spec

\* A block that a copy may still be written to is neither free nor reserved
\* for another copy, however many tensors a message has and whichever fails.
THEOREM BlocksAreKeptFromReuse == Spec => []NoRecyclingUnderCopy
<1>1. IInv => NoRecyclingUnderCopy
  BY DEF IInv
<1>2. QED
  BY <1>1, Invariance, PTL

\* While the stream may still copy from a message, the message is retained.
THEOREM SourcesAreKept == Spec => []SourcesOutliveCopies
<1>1. IInv => SourcesOutliveCopies
  BY DEF IInv, SourcesOutliveCopies
<1>2. QED
  BY <1>1, Invariance, PTL

\* A copy never reads beyond the data of the message: the block of a tensor has
\* the size that was compared with the data.
THEOREM CopiesStayInData ==
  Spec => [](\A i \in DOMAIN blocks : blocks[i][1] \in 1..message[i].data)
<1>1. TypeOK /\ FrameFitsMessage => \A i \in DOMAIN blocks : blocks[i][1] \in 1..message[i].data
  BY DEF TypeOK, FrameFitsMessage, Readable
<1>2. Init => TypeOK /\ FrameFitsMessage
  BY InitTypes
<1>3. TypeOK /\ FrameFitsMessage /\ [Next]_vars => (TypeOK /\ FrameFitsMessage)'
  BY TypesKept
<1>4. QED
  BY <1>1, <1>2, <1>3, PTL DEF Spec

LEMMA SizesFit == TypeOK /\ FrameFitsMessage => BlocksFitTensors
<1> SUFFICES ASSUME TypeOK, FrameFitsMessage, NEW i \in DOMAIN blocks
             PROVE  LET t == message[i]
                        product == FoldLeft(LAMBDA x, y : x * y, t.element, t.shape)
                    IN  /\ t.shape # <<>> /\ \A k \in DOMAIN t.shape : t.shape[k] > 0
                        /\ product = blocks[i][1] /\ product <= t.data
  BY DEF BlocksFitTensors
<1> DEFINE t == message[i]
<1>1. t \in Tensors
  <2>1. message \in Seq(Tensors) /\ blocks \in Seq(Blocks) /\ Len(blocks) <= Len(message)
    BY MessageHasNext DEF TypeOK
  <2>2. /\ DOMAIN blocks = 1..Len(blocks) /\ Len(blocks) \in Nat /\ Len(message) \in Nat
        /\ message \in [1..Len(message) -> Tensors]
    BY <2>1, LenProperties
  <2>3. i \in 1..Len(message)
    BY <2>1, <2>2
  <2>4. QED
    BY <2>2, <2>3
<1>2. blocks[i][1] = tensor_byte_size(t) /\ tensor_byte_size(t) \in 1..t.data
  BY DEF TypeOK, FrameFitsMessage, Readable
<1> HIDE DEF t
<1>3. tensor_byte_size(t) # 0 /\ tensor_byte_size(t) <= t.data
  BY <1>1, <1>2 DEF Tensors
<1>4. /\ t.shape # <<>> /\ \A k \in DOMAIN t.shape : t.shape[k] > 0
      /\ FoldLeft(LAMBDA x, y : x * y, t.element, t.shape) = tensor_byte_size(t)
  BY <1>1, <1>3, SizeIsExact
<1>5. QED
  BY <1>2, <1>3, <1>4 DEF t

\* The block of a tensor holds all of its elements, and the message has the data
\* to fill it, whatever dimensions the message claims.
THEOREM BlocksHoldTensors == Spec => []BlocksFitTensors
<1>1. Init => TypeOK /\ FrameFitsMessage
  BY InitTypes
<1>2. TypeOK /\ FrameFitsMessage /\ [Next]_vars => (TypeOK /\ FrameFitsMessage)'
  BY TypesKept
<1>3. QED
  BY <1>1, <1>2, SizesFit, PTL DEF Spec
=============================================================================
