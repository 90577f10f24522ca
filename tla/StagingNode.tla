----------------------------- MODULE StagingNode -----------------------------
(***************************************************************************)
(* StdToManagedHipTensorBundleNode (managed_hip_tensor_bundle_nodes.cpp):  *)
(* copies the tensors of a standard message into blocks of device memory,  *)
(* asynchronously and on one stream, and publishes the blocks.  The blocks *)
(* come from a cache of pools, one for each size of tensor that was seen,  *)
(* within limits that staging_pool_limits.hpp checks.  The sizes are       *)
(* computed from shapes that the message brings (tensor_bundle.cpp).       *)
(*                                                                         *)
(* Callbacks come one at a time (one mutually exclusive callback group).   *)
(* A pool is its free blocks, as in FixedPool; a block ends as in          *)
(* ManagedBuffer: a cancelled one is free again, a failed one never is,    *)
(* and a finalized one is free when its last holder is gone and its copy   *)
(* is done.                                                                *)
(***************************************************************************)
EXTENDS Integers, Sequences, FiniteSets, FiniteSetsExt, SequencesExt

CONSTANTS
  Sizes,            \* byte sizes of tensors
  Messages,         \* the tensors of each message that may come
  PoolCapacity,     \* managed_pool_capacity
  MaxTensorBytes,   \* managed_max_tensor_bytes
  MaxCacheBytes,    \* managed_pool_cache_max_bytes
  MaxCacheEntries,  \* managed_pool_cache_max_entries
  SizeMax           \* the largest size_t

\* A tensor of a message: its shape, the bytes of one element of its type (0 for
\* a type there is not) and the bytes of its data.
Tensors == [shape : Seq(Int), element : {0, 1, 2, 4, 8}, data : 0..SizeMax]

SizeT(n) == n % (SizeMax + 1)

-----------------------------------------------------------------------------
(* The size of a tensor.  0 stands for an exception: no tensor is empty.    *)

\* Mutant of Times: the product is not checked.
Times_Unchecked(count, n) == IF count = 0 \/ n <= 0 THEN 0 ELSE SizeT(count * n)

\* One factor more, in the loop over the dimensions and after it.
Times(count, n) ==
  IF count = 0 \/ n <= 0 \/ count > SizeMax \div n THEN 0 ELSE SizeT(count * n)

tensor_byte_size(t) ==
  IF t.shape = <<>> THEN 0 ELSE Times(FoldLeft(Times, 1, t.shape), t.element)

\* The size is valid, and the message has as much data.
Readable(t) == tensor_byte_size(t) \in 1..t.data

ASSUME StagingAssumption ==
  /\ SizeMax \in Nat
  /\ Sizes \subseteq 1..SizeMax
  /\ \A m \in Messages : m \in Seq(Tensors)
  /\ \A m \in Messages : \A i \in DOMAIN m : Readable(m[i]) => tensor_byte_size(m[i]) \in Sizes
  /\ {PoolCapacity, MaxTensorBytes, MaxCacheBytes, MaxCacheEntries} \subseteq 1..SizeMax

VARIABLES
  pc,          \* where OnTensorBundle is
  message,     \* the tensors of the message
  blocks,      \* the blocks of this frame, in the order of the tensors
  state,       \* what has become of each block
  sources,     \* blocks whose buffer retains the message it is filled from
  stream,      \* blocks whose copies the stream has not executed yet
  pools,       \* sizes that pools_ has a pool for
  cacheBytes   \* pool_cache_bytes_

cacheVars == <<pools, cacheBytes>>
vars == <<pc, message, blocks, state, sources, stream, cacheVars>>

Blocks == Sizes \X (1..PoolCapacity)

InFrame == {blocks[i] : i \in DOMAIN blocks}
InStream == {stream[i] : i \in DOMAIN stream}
Init ==
  /\ pc = "idle" /\ message = <<>> /\ blocks = <<>>
  /\ state = [b \in Blocks |-> "free"]
  /\ sources = {} /\ stream = <<>>
  /\ pools = {} /\ cacheBytes = 0

-----------------------------------------------------------------------------
(* The cache of pools.                                                      *)

NextCacheBytes(bytes) == SizeT(cacheBytes + SizeT(bytes * PoolCapacity))

\* Mutant of Accepts: the products and sums are compared as they come out.
Accepts_Unchecked(bytes) ==
  /\ bytes # 0 /\ bytes <= MaxTensorBytes
  /\ Cardinality(pools) < MaxCacheEntries
  /\ NextCacheBytes(bytes) <= MaxCacheBytes

\* ValidateStagingPoolAddition.
Accepts(bytes) ==
  /\ bytes # 0 /\ bytes <= MaxTensorBytes
  /\ Cardinality(pools) < MaxCacheEntries
  /\ bytes <= SizeMax \div PoolCapacity
  /\ SizeT(bytes * PoolCapacity) <= SizeMax - cacheBytes
  /\ NextCacheBytes(bytes) <= MaxCacheBytes

-----------------------------------------------------------------------------
(* The callback.                                                            *)

\* Almost everything throws a std::exception; the handler has a case for
\* what is not one.
Throw == pc' \in {"throwing", "throwing_unknown"}

Receive(m) ==
  /\ pc = "idle"
  /\ pc' = "reserving" /\ message' = m
  /\ UNCHANGED <<blocks, state, sources, stream, cacheVars>>

Missing == Len(blocks) < Len(message)
NextTensor == message[Len(blocks) + 1]
NextSize == tensor_byte_size(NextTensor)

\* The pool of the next tensor is found, or made and counted.
GetPool ==
  /\ pc = "reserving" /\ Missing /\ Readable(NextTensor)
  /\ \/ NextSize \in pools /\ UNCHANGED cacheVars
     \/ /\ NextSize \notin pools /\ Accepts(NextSize)
        /\ pools' = pools \union {NextSize}
        /\ cacheBytes' = NextCacheBytes(NextSize)
  /\ pc' = "acquiring"
  /\ UNCHANGED <<message, blocks, state, sources, stream>>

\* The tensor has no size or too little data, its pool is beyond the limits, or
\* the device has no memory for it.
GetPoolFails ==
  /\ pc = "reserving" /\ Missing
  /\ Throw
  /\ UNCHANGED <<message, blocks, state, sources, stream, cacheVars>>

Free(bytes) == {b \in Blocks : b[1] = bytes /\ state[b] = "free"}

\* Mutant of Acquire: the message is not retained.
Acquire_Bare(b) ==
  /\ pc = "acquiring" /\ b \in Free(NextSize)
  /\ state' = [state EXCEPT ![b] = "reserved"]
  /\ blocks' = Append(blocks, b)
  /\ pc' = "reserving"
  /\ UNCHANGED <<message, sources, stream, cacheVars>>

\* acquire_for and retain_owner.
Acquire(b) ==
  /\ pc = "acquiring" /\ b \in Free(NextSize)
  /\ state' = [state EXCEPT ![b] = "reserved"]
  /\ sources' = sources \union {b}
  /\ blocks' = Append(blocks, b)
  /\ pc' = "reserving"
  /\ UNCHANGED <<message, stream, cacheVars>>

\* The deadline passes, or the block's buffer cannot be made; or retain_owner
\* throws, and the handle of the block that is not in the frame yet is
\* destroyed as it is.
AcquireFails ==
  /\ pc = "acquiring"
  /\ \/ UNCHANGED state
     \/ \E b \in Free(NextSize) : state' = [state EXCEPT ![b] = "lost"]
  /\ Throw
  /\ UNCHANGED <<message, blocks, sources, stream, cacheVars>>

\* The tensor whose copy is made, or has been submitted and is not finalized.
Copying(i) ==
  /\ pc = "reserving" /\ ~Missing
  /\ i \in DOMAIN blocks
  /\ \A j \in 1..(i - 1) : state[blocks[j]] = "finalized"

SubmitCopy(i) ==
  /\ Copying(i) /\ state[blocks[i]] = "reserved"
  /\ state' = [state EXCEPT ![blocks[i]] = "submitted"]
  /\ stream' = Append(stream, blocks[i])
  /\ UNCHANGED <<pc, message, blocks, sources, cacheVars>>

\* Mutant of SubmitCopyFails: copy_submitted is set when the call has returned.
SubmitCopyFails_Late(i) ==
  /\ Copying(i) /\ state[blocks[i]] = "reserved"
  /\ stream' \in {stream, Append(stream, blocks[i])}
  /\ Throw
  /\ UNCHANGED <<message, blocks, state, sources, cacheVars>>

\* hipMemcpyAsync reports an error, its own or an earlier one: the copy may be
\* under way or not.
SubmitCopyFails(i) ==
  /\ Copying(i) /\ state[blocks[i]] = "reserved"
  /\ state' = [state EXCEPT ![blocks[i]] = "submitted"]
  /\ stream' \in {stream, Append(stream, blocks[i])}
  /\ Throw
  /\ UNCHANGED <<message, blocks, sources, cacheVars>>

Finalize(i) ==
  /\ Copying(i) /\ state[blocks[i]] = "submitted"
  /\ state' = [state EXCEPT ![blocks[i]] = "finalized"]
  /\ UNCHANGED <<pc, message, blocks, sources, stream, cacheVars>>

\* The event cannot be recorded, and the buffer is failed already.
FinalizeFails(i) ==
  /\ Copying(i) /\ state[blocks[i]] = "submitted"
  /\ Throw
  /\ UNCHANGED <<message, blocks, state, sources, stream, cacheVars>>

\* The tensor over a finalized block, or the bundle, cannot be made or sent.
PublishFails ==
  /\ pc = "reserving" /\ ~Missing
  /\ \A b \in InFrame : state[b] \in {"reserved", "finalized"}
  /\ blocks # <<>> => state[blocks[1]] = "finalized"
  /\ Throw
  /\ UNCHANGED <<message, blocks, state, sources, stream, cacheVars>>

EndFrame == message' = <<>> /\ blocks' = <<>> /\ pc' = "idle"

Publish ==
  /\ pc = "reserving" /\ ~Missing
  /\ \A b \in InFrame : state[b] = "finalized"
  /\ state' = [b \in Blocks |-> IF b \in InFrame THEN "held" ELSE state[b]]
  /\ EndFrame
  /\ UNCHANGED <<sources, stream, cacheVars>>

\* How the handlers end a block, and the destruction of the frame's blocks
\* after them: what was reserved only is cancelled, what was submitted fails.
Ended(b) ==
  CASE state[b] = "reserved" -> IF pc = "throwing" THEN "free" ELSE "lost"
    [] state[b] = "submitted" -> "lost"
    [] OTHER -> "closing"

Unwind ==
  /\ pc \in {"throwing", "throwing_unknown"}
  /\ state' = [b \in Blocks |-> IF b \in InFrame THEN Ended(b) ELSE state[b]]
  /\ sources' = {b \in sources : state'[b] # "free"}
  /\ EndFrame
  /\ UNCHANGED <<stream, cacheVars>>

-----------------------------------------------------------------------------
(* The stream, the subscribers and the buffers' release.                    *)

StreamStep ==
  /\ stream # <<>>
  /\ stream' = Tail(stream)
  /\ UNCHANGED <<pc, message, blocks, state, sources, cacheVars>>

\* A subscriber lets go of a tensor; it may have failed the buffer.
Consume(b) ==
  /\ state[b] = "held"
  /\ \E s \in {"closing", "lost"} : state' = [state EXCEPT ![b] = s]
  /\ UNCHANGED <<pc, message, blocks, sources, stream, cacheVars>>

\* The release worker synchronizes with the copy, and the block is free; or
\* it cannot.
Release(b) ==
  /\ state[b] = "closing"
  /\ \/ /\ b \notin InStream
        /\ state' = [state EXCEPT ![b] = "free"]
        /\ sources' = sources \ {b}
     \/ state' = [state EXCEPT ![b] = "lost"] /\ UNCHANGED sources
  /\ UNCHANGED <<pc, message, blocks, stream, cacheVars>>

-----------------------------------------------------------------------------
Next ==
  \/ \E m \in Messages : Receive(m)
  \/ GetPool \/ GetPoolFails \/ AcquireFails \/ PublishFails \/ Publish \/ Unwind
  \/ \E b \in Blocks : Acquire(b) \/ Consume(b) \/ Release(b)
  \/ \E i \in DOMAIN blocks :
       SubmitCopy(i) \/ SubmitCopyFails(i) \/ Finalize(i) \/ FinalizeFails(i)
  \/ StreamStep

Spec == Init /\ [][Next]_vars

-----------------------------------------------------------------------------
(* Properties.                                                              *)

\* Every variable has its type, and blocks are for the tensors of the message.
TypeOK ==
  /\ pc \in {"idle", "reserving", "acquiring", "throwing", "throwing_unknown"}
  /\ message \in Messages \union {<<>>}
  /\ blocks \in Seq(Blocks) /\ Len(blocks) <= Len(message)
  /\ \A i \in DOMAIN blocks : blocks[i][1] = tensor_byte_size(message[i])
  /\ state \in [Blocks ->
       {"free", "reserved", "submitted", "finalized", "held", "closing", "lost"}]
  /\ sources \subseteq Blocks
  /\ stream \in Seq(Blocks)
  /\ pools \subseteq Sizes
  /\ cacheBytes \in 0..SizeMax

\* What the pools of the cache really take stays within both limits, whatever
\* sizes the messages bring and however size_t wraps, and is what is counted.
CacheWithinLimits ==
  /\ MapThenSumSet(LAMBDA s : s * PoolCapacity, pools) = cacheBytes
  /\ cacheBytes <= MaxCacheBytes
  /\ Cardinality(pools) <= MaxCacheEntries

\* A block holds its tensor whole, and the copy reads no further than the data of
\* the message, whatever dimensions the message claims and however their product
\* wraps (the checks of tensor_byte_size and of the data's size).
BlocksFitTensors ==
  \A i \in DOMAIN blocks :
    LET t == message[i]
        product == FoldLeft(LAMBDA x, y : x * y, t.element, t.shape)
    IN  /\ t.shape # <<>> /\ \A k \in DOMAIN t.shape : t.shape[k] > 0
        /\ product = blocks[i][1] /\ product <= t.data

\* A block whose copy may still be executed is not free, and is not reserved
\* for another copy: whatever fails, and whenever, it is not recycled.
NoRecyclingUnderCopy ==
  \A b \in InStream : state[b] \notin {"free", "reserved"}

\* The message a copy reads from is retained, by the frame or by the block.
SourcesOutliveCopies == InStream \subseteq sources \union InFrame

=============================================================================
