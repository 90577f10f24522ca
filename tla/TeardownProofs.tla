----------------------------- MODULE TeardownProofs -----------------------------
(***************************************************************************)
(* Proofs about what is taken down while other threads are in it: the      *)
(* buffers of ReleaseTracker, whose destructors nest and whose workers the *)
(* tracker counts, and the node of NodeLifecycle, whose destructor drains  *)
(* its callbacks and views.  For any number of threads, buffers and        *)
(* waiters, and for each transport.                                        *)
(***************************************************************************)
EXTENDS ReleaseTracker, NodeLifecycle, FiniteSetTheorems, SequenceTheorems, TLAPS

-----------------------------------------------------------------------------
(* The threads of ~BufferState.                                             *)

\* Where a destructor's frame can be.
FrameSteps ==
  {"begin", "owner", "sources", "reset", "unlock", "gate", "sync", "decrement", "notify"}
Frames == [buf : Buffers, pc : FrameSteps]

\* The types, with the stacks as sequences of frames.
TrackerTyped ==
  /\ mutex \in Threads \cup {Nobody}
  /\ count \in Nat
  /\ stack \in [Threads -> Seq(Frames)]
  /\ wait \in [Waiters -> {"idle", "waiting", "awake", "expired"}]
  /\ refs \in [Buffers -> SUBSET ({"app"} \cup Buffers)]
  /\ copies \in [Buffers -> SUBSET {"parent", "worker"}]
  /\ fate \in [Buffers -> {"held", "home", "orphaned"}]

\* A destructor that has another one on top of it has released an owner, or a
\* source, and goes on with what follows that.
OnlyReleasesNest ==
  \A t \in Threads : \A i \in 1..Len(stack[t]) :
    i # Len(stack[t]) => stack[t][i].pc \in {"sources", "decrement"}

\* A worker's own frame is the first of its thread; it is the only frame of its
\* buffer that waits at the gate, synchronizes or decrements, and it never is where
\* the parent starts or unlocks.
WorkersAreAtTheBottom ==
  \A t \in Threads : \A i \in 1..Len(stack[t]) :
    /\ stack[t][i].pc \in {"gate", "sync", "decrement"} => t = stack[t][i].buf
    /\ t = stack[t][i].buf => i = 1 /\ stack[t][i].pc \notin {"begin", "reset", "unlock"}
    /\ t \in Buffers => t \in Async /\ (i = 1 => t = stack[t][i].buf)

\* Whoever resets the parent's copies, or is about to unlock, holds the mutex, and
\* the worker it has just started is still behind it at the gate.
LockHeld ==
  \A t \in Threads : \A i \in 1..Len(stack[t]) :
    /\ stack[t][i].pc \in {"reset", "unlock"} => mutex = t
    /\ stack[t][i].pc = "reset" =>
         Len(stack[stack[t][i].buf]) # 0 /\ stack[stack[t][i].buf][1].pc = "gate"

\* A buffer that somebody still refers to is not being destroyed.
Quiet ==
  \A b \in Buffers : refs[b] # {} =>
    /\ \A t \in Threads : \A i \in 1..Len(stack[t]) : stack[t][i].buf # b
    /\ copies[b] = {"parent"} /\ fate[b] = "held"

\* The steps at which a frame has its source still to release.
Releasing == {"begin", "owner", "sources", "gate", "sync"}

\* A buffer is destroyed once: at most one of its frames has anything to release,
\* and while its destructor has not begun there is no other frame of it.
OneDestruction ==
  \A b \in Buffers : \A t, u \in Threads :
  \A i \in 1..Len(stack[t]) : \A j \in 1..Len(stack[u]) :
    /\ stack[t][i].buf = b /\ stack[u][j].buf = b
    /\ stack[t][i].pc \in Releasing
    /\ stack[u][j].pc \in Releasing \/ stack[t][i].pc = "begin"
    => t = u /\ i = j

\* The steps at which a frame has not yet dropped its copies of the owners.
Holding == {"begin", "owner", "gate", "sync"}

\* Who has not reset its copies has them, and the owners are not yet settled.
HeldUntilReset ==
  \A t \in Threads : \A i \in 1..Len(stack[t]) :
    /\ stack[t][i].pc \in Holding =>
         /\ fate[stack[t][i].buf] = "held"
         /\ t = stack[t][i].buf => "worker" \in copies[stack[t][i].buf]
         /\ t # stack[t][i].buf => "parent" \in copies[stack[t][i].buf]
    /\ stack[t][i].pc = "begin" => copies[stack[t][i].buf] = {"parent"}

\* As long as somebody has a copy of a buffer's owners, the buffer they belong to
\* is referred to.
OwnersHeld ==
  \A b \in Buffers : Owner[b] # Nobody /\ copies[b] # {} => b \in refs[Owner[b]]

\* As long as a buffer lives or has its source to release, the source is referred
\* to.
SourcesHeld ==
  \A b \in Buffers : Source[b] # Nobody =>
    /\ refs[b] # {} => b \in refs[Source[b]]
    /\ \A t \in Threads : \A i \in 1..Len(stack[t]) :
         stack[t][i].buf = b /\ stack[t][i].pc \in Releasing => b \in refs[Source[b]]

\* The workers that are not past their decrement.
Counting == {b \in Buffers : Len(stack[b]) # 0 /\ stack[b][1].pc # "notify"}
Counted == count = Cardinality(Counting)

\* What the destructors keep true, whatever the count is.
TrackerInv ==
  /\ TrackerTyped /\ OnlyReleasesNest /\ WorkersAreAtTheBottom /\ LockHeld /\ Quiet
  /\ OneDestruction /\ HeldUntilReset /\ OwnersHeld /\ SourcesHeld

\* A sequence without its last element.
LEMMA FrontFacts ==
  ASSUME NEW S, NEW s \in Seq(S), s # <<>>
  PROVE  /\ SubSeq(s, 1, Len(s) - 1) \in Seq(S)
         /\ Len(SubSeq(s, 1, Len(s) - 1)) = Len(s) - 1
         /\ \A i \in 1..(Len(s) - 1) : SubSeq(s, 1, Len(s) - 1)[i] = s[i]
<1>1. /\ Len(s) \in Nat /\ 0 < Len(s) /\ Len(s) - 1 \in Int
      /\ \A i \in 1..Len(s) : s[i] \in S
  BY LenProperties, ElementOfSeq, EmptySeq
<1>2. PICK n \in Int : n = Len(s) - 1 /\ n >= 0
  BY <1>1
<1>3. /\ SubSeq(s, 1, n) \in Seq(S)
      /\ Len(SubSeq(s, 1, n)) = IF 1 <= n THEN n - 1 + 1 ELSE 0
      /\ \A i \in 1..(n - 1 + 1) : SubSeq(s, 1, n)[i] = s[1 + i - 1]
  BY <1>1, <1>2, SubSeqProperties, 1 \in Int
<1>4. QED
  BY <1>2, <1>3

\* The frame on top of a stack, and the stack when that frame goes on or returns.
LEMMA StackFacts ==
  ASSUME stack \in [Threads -> Seq(Frames)], NEW t \in Threads,
         NEW p \in FrameSteps, At(t, p), NEW pc \in FrameSteps
  PROVE  /\ Len(stack[t]) \in Nat /\ 0 < Len(stack[t])
         /\ stack[t][Len(stack[t])] \in Frames /\ Buf(t) \in Buffers
         /\ stack[t][Len(stack[t])] = Frame(Buf(t), p)
         /\ Continue(t, pc) \in Seq(Frames)
         /\ Len(Continue(t, pc)) = Len(stack[t])
         /\ \A i \in 1..Len(stack[t]) :
              Continue(t, pc)[i] =
                IF i = Len(stack[t]) THEN Frame(Buf(t), pc) ELSE stack[t][i]
         /\ Leave(t) \in Seq(Frames)
         /\ Len(Leave(t)) = Len(stack[t]) - 1
         /\ \A i \in 1..(Len(stack[t]) - 1) : Leave(t)[i] = stack[t][i]
<1>1. stack[t] \in Seq(Frames) /\ stack[t] # <<>>
  BY DEF At
<1>2. Len(stack[t]) \in Nat /\ 0 < Len(stack[t])
  BY <1>1
<1>3. stack[t][Len(stack[t])] \in Frames
  BY <1>1, <1>2
<1>4. /\ Buf(t) \in Buffers /\ stack[t][Len(stack[t])] = Frame(Buf(t), p)
      /\ Frame(Buf(t), pc) \in Frames
  BY <1>3 DEF At, Top, Buf, Frame, Frames
<1>5. /\ Continue(t, pc) \in Seq(Frames)
      /\ Len(Continue(t, pc)) = Len(stack[t])
      /\ \A i \in 1..Len(stack[t]) :
              Continue(t, pc)[i] =
                IF i = Len(stack[t]) THEN Frame(Buf(t), pc) ELSE stack[t][i]
  BY <1>1, <1>2, <1>4, ExceptSeq DEF Continue
<1>6. /\ Leave(t) \in Seq(Frames)
      /\ Len(Leave(t)) = Len(stack[t]) - 1
      /\ \A i \in 1..(Len(stack[t]) - 1) : Leave(t)[i] = stack[t][i]
  BY <1>1, FrontFacts DEF Leave
<1>7. QED
  BY <1>2, <1>3, <1>4, <1>5, <1>6

\* A stack with the destructor of b on top.
LEMMA PushFacts ==
  ASSUME NEW s \in Seq(Frames), NEW b \in Buffers
  PROVE  /\ Append(s, Frame(b, "begin")) \in Seq(Frames)
         /\ Len(Append(s, Frame(b, "begin"))) = Len(s) + 1 /\ Len(s) \in Nat
         /\ \A i \in 1..(Len(s) + 1) :
              Append(s, Frame(b, "begin"))[i] =
                IF i = Len(s) + 1 THEN Frame(b, "begin") ELSE s[i]
BY DEF Frame, Frames, FrameSteps

\* x's reference to c goes, and b is c if that was the last one.
Drops(x, c, b) ==
  /\ refs' \in [Buffers -> SUBSET ({"app"} \cup Buffers)]
  /\ \A d \in Buffers : refs'[d] = IF d = c THEN refs[d] \ {x} ELSE refs[d]
  /\ IF c # Nobody /\ refs'[c] = {} THEN b = c ELSE b = Nobody

\* What is on top of the frames that t keeps: the destructor of b, or nothing.
Begins(t, n, b) ==
  /\ stack' \in [Threads -> Seq(Frames)]
  /\ \A u \in Threads : Len(stack[u]) \in Nat /\ Len(stack'[u]) \in Nat
  /\ \A u \in Threads : u # t => stack'[u] = stack[u]
  /\ Len(stack'[t]) = IF b = Nobody THEN n ELSE n + 1
  /\ b # Nobody => stack'[t][n + 1] = Frame(b, "begin")

\* Dropping a reference: either nothing starts, or the destructor of the buffer
\* whose last reference it was.
LEMMA Dropping ==
  ASSUME TrackerTyped, NEW t \in Threads, NEW x, NEW c \in Buffers \cup {Nobody},
         NEW rest \in Seq(Frames), DropRef(t, x, c, rest)
  PROVE  \E b \in Buffers \cup {Nobody} :
           /\ Drops(x, c, b) /\ Begins(t, Len(rest), b)
           /\ \A i \in 1..Len(rest) : stack'[t][i] = rest[i]
<1>0. /\ Nobody \notin Buffers /\ stack \in [Threads -> Seq(Frames)]
      /\ refs \in [Buffers -> SUBSET ({"app"} \cup Buffers)]
      /\ \A u \in Threads : Len(stack[u]) \in Nat
      /\ Len(rest) \in Nat
  BY TrackerAssumption, LenProperties DEF TrackerTyped, Threads
<1>1. CASE c = Nobody
  <2>1. /\ stack' = [stack EXCEPT ![t] = rest] /\ refs' = refs
    BY <1>1 DEF DropRef
  <2>2. stack' \in [Threads -> Seq(Frames)] /\ stack'[t] = rest
    BY <2>1, <1>0
  <2>3. Drops(x, c, Nobody)
    BY <1>0, <1>1, <2>1 DEF Drops
  <2>4. Begins(t, Len(rest), Nobody)
    BY <1>0, <2>1, <2>2 DEF Begins
  <2>5. QED
    BY <2>2, <2>3, <2>4
<1>2. CASE c # Nobody /\ ~ (refs[c] \subseteq {x})
  <2>1. stack' = [stack EXCEPT ![t] = rest] /\ refs' = [refs EXCEPT ![c] = @ \ {x}]
    BY <1>2 DEF DropRef
  <2>2. stack' \in [Threads -> Seq(Frames)] /\ stack'[t] = rest
    BY <2>1, <1>0
  <2>3. refs' \in [Buffers -> SUBSET ({"app"} \cup Buffers)]
    BY <1>0, <2>1
  <2>4. Drops(x, c, Nobody)
    BY <1>0, <1>2, <2>1, <2>3 DEF Drops
  <2>5. Begins(t, Len(rest), Nobody)
    BY <1>0, <2>1, <2>2 DEF Begins
  <2>6. QED
    BY <2>2, <2>4, <2>5
<1>3. CASE c # Nobody /\ refs[c] \subseteq {x}
  <2> DEFINE s == Append(rest, Frame(c, "begin"))
  <2>1. stack' = [stack EXCEPT ![t] = s] /\ refs' = [refs EXCEPT ![c] = @ \ {x}]
    BY <1>3 DEF DropRef
  <2>2. /\ s \in Seq(Frames) /\ Len(s) = Len(rest) + 1 /\ Len(s) \in Nat
        /\ s[Len(rest) + 1] = Frame(c, "begin")
        /\ \A i \in 1..Len(rest) : s[i] = rest[i]
    BY <1>0, <1>3, PushFacts
  <2>3. stack' \in [Threads -> Seq(Frames)] /\ stack'[t] = s
    BY <2>1, <2>2, <1>0
  <2>4. refs' \in [Buffers -> SUBSET ({"app"} \cup Buffers)]
    BY <1>0, <2>1
  <2>5. Drops(x, c, c)
    BY <1>0, <1>3, <2>1, <2>4 DEF Drops
  <2> HIDE DEF s
  <2>6. Begins(t, Len(rest), c)
    BY <1>0, <1>3, <2>1, <2>2, <2>3 DEF Begins
  <2>7. QED
    BY <2>2, <2>3, <2>5, <2>6, <1>3
<1>4. QED
  BY <1>1, <1>2, <1>3

\* OneDestruction, of two frames at hand.
LEMMA SameFrame ==
  ASSUME OneDestruction, NEW b \in Buffers, NEW t \in Threads, NEW u \in Threads,
         NEW i \in 1..Len(stack[t]), NEW j \in 1..Len(stack[u]),
         stack[t][i].buf = b, stack[u][j].buf = b, stack[t][i].pc \in Releasing,
         stack[u][j].pc \in Releasing \/ stack[t][i].pc = "begin"
  PROVE  t = u /\ i = j
BY DEF OneDestruction

\* Each frame is that of b, which begins on t, or it was there and has gone on.
Evolves(t, b) ==
  \A u \in Threads : \A i \in 1..Len(stack'[u]) :
    \/ b # Nobody /\ u = t /\ i = Len(stack'[t]) /\ stack'[u][i] = Frame(b, "begin")
    \/ /\ i \in 1..Len(stack[u]) /\ stack'[u][i].buf = stack[u][i].buf
       /\ stack'[u][i].pc \in Releasing => stack[u][i].pc \in Releasing
       /\ stack'[u][i].pc \in Holding => stack[u][i].pc \in Holding
       /\ stack'[u][i].pc = "begin" => stack[u][i].pc = "begin"
       /\ stack'[u][i].pc = "reset" => stack[u][i].pc = "reset"
       /\ stack'[u][i].pc = "unlock" => stack[u][i].pc \in {"reset", "unlock"}
       /\ i # Len(stack'[u]) => stack'[u][i].pc \in {"sources", "decrement"}
       /\ stack'[u][i].pc \in {"gate", "sync", "decrement"} => u = stack'[u][i].buf
       /\ u = stack'[u][i].buf => stack'[u][i].pc \notin {"begin", "reset", "unlock"}

\* A step after which every frame is new or has gone on keeps the shape of the
\* stacks and what is known of the references to the source.
LEMMA EvolvingKeepsShape ==
  ASSUME TrackerInv, NEW t \in Threads, NEW x,
         NEW c \in Buffers \cup {Nobody}, NEW b \in Buffers \cup {Nobody},
         Drops(x, c, b), Evolves(t, b),
         \A d \in Buffers : refs[d] # {} => copies'[d] = copies[d] /\ fate'[d] = fate[d],
         c # Nobody => x \in refs[c],
         x \in Buffers => refs[x] = {},
         c # Nobody /\ x \in Buffers /\ c = Source[x] =>
           \A u \in Threads : \A i \in 1..Len(stack'[u]) :
             stack'[u][i].buf = x => stack'[u][i].pc \notin Releasing,
         b # Nobody /\ t \in Buffers => 1 # Len(stack'[t])
  PROVE  /\ OnlyReleasesNest' /\ WorkersAreAtTheBottom' /\ Quiet'
         /\ OneDestruction' /\ SourcesHeld'
<1>0. OneDestruction
  BY DEF TrackerInv
<1>1. Nobody \notin Buffers
  BY TrackerAssumption DEF Threads
<1>2. b # Nobody => b = c /\ b # x /\ refs[b] # {} /\ refs'[b] = {}
                    /\ \A u \in Threads : \A i \in 1..Len(stack[u]) : stack[u][i].buf # b
  BY DEF Drops, TrackerInv, Quiet
<1>3. OnlyReleasesNest'
  BY DEF Evolves, OnlyReleasesNest
<1>4. WorkersAreAtTheBottom'
  <2> SUFFICES ASSUME NEW u \in Threads, NEW i \in 1..Len(stack'[u])
               PROVE  /\ stack'[u][i].pc \in {"gate", "sync", "decrement"} =>
                           u = stack'[u][i].buf
                      /\ u = stack'[u][i].buf =>
                           i = 1 /\ stack'[u][i].pc \notin {"begin", "reset", "unlock"}
                      /\ u \in Buffers => u \in Async /\ (i = 1 => u = stack'[u][i].buf)
    BY DEF WorkersAreAtTheBottom
  <2>1. CASE b # Nobody /\ u = t /\ i = Len(stack'[t]) /\ stack'[u][i] = Frame(b, "begin")
    <3>1. ASSUME t \in Buffers
          PROVE  t \in Async /\ t # b /\ i # 1
      <4>1. 1 \in 1..Len(stack'[t]) /\ 1 # Len(stack'[t])
        BY <2>1, <3>1
      <4>2. 1 \in 1..Len(stack[t]) /\ stack'[t][1].buf = stack[t][1].buf
        BY <4>1 DEF Evolves
      <4>3. t \in Async /\ stack[t][1].buf = t
        BY <4>2, <3>1 DEF TrackerInv, WorkersAreAtTheBottom
      <4>4. QED
        BY <4>1, <4>2, <4>3, <2>1, <1>2
    <3>2. stack'[u][i].buf = b /\ stack'[u][i].pc = "begin" /\ b \in Buffers
      BY <2>1 DEF Frame
    <3>3. QED
      BY <2>1, <3>1, <3>2
  <2>2. CASE /\ i \in 1..Len(stack[u]) /\ stack'[u][i].buf = stack[u][i].buf
             /\ stack'[u][i].pc \in {"gate", "sync", "decrement"} => u = stack'[u][i].buf
             /\ u = stack'[u][i].buf => stack'[u][i].pc \notin {"begin", "reset", "unlock"}
    BY <2>2 DEF TrackerInv, WorkersAreAtTheBottom
  <2>3. QED
    BY <2>1, <2>2 DEF Evolves
<1>5. Quiet'
  <2> SUFFICES ASSUME NEW d \in Buffers, refs'[d] # {}
               PROVE  /\ \A u \in Threads :
                           \A i \in 1..Len(stack'[u]) : stack'[u][i].buf # d
                      /\ copies'[d] = {"parent"} /\ fate'[d] = "held"
    BY DEF Quiet
  <2>1. refs[d] # {} /\ d # b
    BY <1>1, <1>2 DEF Drops
  <2>2. copies'[d] = {"parent"} /\ fate'[d] = "held"
    BY <2>1 DEF TrackerInv, Quiet
  <2>3. \A u \in Threads : \A i \in 1..Len(stack'[u]) : stack'[u][i].buf # d
    BY <2>1 DEF Evolves, TrackerInv, Quiet, Frame
  <2>4. QED
    BY <2>2, <2>3
<1>6. OneDestruction'
  <2> SUFFICES ASSUME NEW d \in Buffers, NEW u \in Threads, NEW w \in Threads,
                      NEW i \in 1..Len(stack'[u]), NEW j \in 1..Len(stack'[w]),
                      stack'[u][i].buf = d, stack'[w][j].buf = d,
                      stack'[u][i].pc \in Releasing,
                      stack'[w][j].pc \in Releasing \/ stack'[u][i].pc = "begin"
               PROVE  u = w /\ i = j
    BY DEF OneDestruction
  <2> DEFINE Starts(v, k) == /\ b # Nobody /\ v = t /\ k = Len(stack'[t])
                             /\ stack'[v][k] = Frame(b, "begin")
  <2>1. CASE ~ Starts(u, i) /\ ~ Starts(w, j)
    <3>1. /\ i \in 1..Len(stack[u]) /\ stack'[u][i].buf = stack[u][i].buf
          /\ stack'[u][i].pc \in Releasing => stack[u][i].pc \in Releasing
          /\ stack'[u][i].pc = "begin" => stack[u][i].pc = "begin"
      BY <2>1 DEF Evolves
    <3>2. /\ j \in 1..Len(stack[w]) /\ stack'[w][j].buf = stack[w][j].buf
          /\ stack'[w][j].pc \in Releasing => stack[w][j].pc \in Releasing
      BY <2>1 DEF Evolves
    <3>3. /\ stack[u][i].buf = d /\ stack[w][j].buf = d
          /\ stack[u][i].pc \in Releasing
          /\ stack[w][j].pc \in Releasing \/ stack[u][i].pc = "begin"
      BY <3>1, <3>2
    <3>4. i \in 1..Len(stack[u]) /\ j \in 1..Len(stack[w])
      BY <3>1, <3>2
    <3>5. QED
      BY <3>3, <3>4, <1>0, SameFrame
  <2>2. CASE Starts(u, i)
    <3>1. stack'[w][j].buf = b
      BY <2>2 DEF Frame
    <3>2. ~ (j \in 1..Len(stack[w]) /\ stack'[w][j].buf = stack[w][j].buf)
      BY <2>2, <3>1, <1>2
    <3>3. w = t /\ j = Len(stack'[t])
      BY <3>2 DEF Evolves
    <3>4. QED
      BY <2>2, <3>3
  <2>3. CASE Starts(w, j)
    <3>1. stack'[u][i].buf = b
      BY <2>3 DEF Frame
    <3>2. ~ (i \in 1..Len(stack[u]) /\ stack'[u][i].buf = stack[u][i].buf)
      BY <2>3, <3>1, <1>2
    <3>3. u = t /\ i = Len(stack'[t])
      BY <3>2 DEF Evolves
    <3>4. QED
      BY <2>3, <3>3
  <2>4. QED
    BY <2>1, <2>2, <2>3
<1>7. SourcesHeld'
  <2> SUFFICES ASSUME NEW d \in Buffers, Source[d] # Nobody
               PROVE  /\ refs'[d] # {} => d \in refs'[Source[d]]
                      /\ \A u \in Threads : \A i \in 1..Len(stack'[u]) :
                           stack'[u][i].buf = d /\ stack'[u][i].pc \in Releasing
                             => d \in refs'[Source[d]]
    BY DEF SourcesHeld
  <2>1. Source[d] \in Buffers
    BY TrackerAssumption
  <2>2. d \in refs[Source[d]] /\ (d = x => Source[d] # c) => d \in refs'[Source[d]]
    BY <2>1, <1>1 DEF Drops
  <2>3. refs'[d] # {} => refs[d] # {}
    BY DEF Drops
  <2>4. refs'[d] # {} => d \in refs'[Source[d]]
    BY <2>2, <2>3 DEF TrackerInv, SourcesHeld
  <2>5. ASSUME NEW u \in Threads, NEW i \in 1..Len(stack'[u]),
               stack'[u][i].buf = d, stack'[u][i].pc \in Releasing
        PROVE  d \in refs'[Source[d]]
    <3>1. CASE b # Nobody /\ stack'[u][i] = Frame(b, "begin")
      <4>1. d = b /\ refs[d] # {} /\ d # x
        BY <3>1, <2>5, <1>2 DEF Frame
      <4>2. QED
        BY <4>1, <2>2 DEF TrackerInv, SourcesHeld
    <3>2. CASE /\ i \in 1..Len(stack[u]) /\ stack'[u][i].buf = stack[u][i].buf
               /\ stack[u][i].pc \in Releasing
      <4>1. d \in refs[Source[d]]
        BY <3>2, <2>5 DEF TrackerInv, SourcesHeld
      <4>2. d = x => Source[d] # c
        BY <2>1, <2>5, <1>1
      <4>3. QED
        BY <4>1, <4>2, <2>2
    <3>3. QED
      BY <3>1, <3>2, <2>5 DEF Evolves
  <2>6. QED
    BY <2>4, <2>5
<1>8. QED
  BY <1>3, <1>4, <1>5, <1>6, <1>7

\* The same of the copies of the owners: they are dropped only by whoever goes on
\* to the next step, or by the parent whose worker has its own.
LEMMA EvolvingKeepsCustody ==
  ASSUME TrackerInv, NEW t \in Threads, NEW x,
         NEW c \in Buffers \cup {Nobody}, NEW b \in Buffers \cup {Nobody},
         Drops(x, c, b), Evolves(t, b),
         \A d \in Buffers : refs[d] # {} => copies'[d] = copies[d] /\ fate'[d] = fate[d],
         \A d \in Buffers : copies[d] = {} => copies'[d] = {},
         c # Nobody => x \in refs[c],
         c # Nobody /\ x \in Buffers /\ c = Owner[x] => copies'[x] = {},
         b # t,
         \A u \in Threads : \A i \in 1..Len(stack'[u]) : stack'[u][i].pc \in Holding =>
           /\ fate'[stack'[u][i].buf] = fate[stack'[u][i].buf]
           /\ \/ copies'[stack'[u][i].buf] = copies[stack'[u][i].buf]
              \/ /\ copies'[stack'[u][i].buf] = copies[stack'[u][i].buf] \ {"parent"}
                 /\ u = stack'[u][i].buf /\ stack'[u][i].pc # "begin"
  PROVE  HeldUntilReset' /\ OwnersHeld'
<1>1. Nobody \notin Buffers
  BY TrackerAssumption DEF Threads
<1>2. b # Nobody => /\ copies'[b] = {"parent"} /\ fate'[b] = "held"
                    /\ \A u \in Threads : \A i \in 1..Len(stack[u]) : stack[u][i].buf # b
  BY DEF Drops, TrackerInv, Quiet
<1>3. HeldUntilReset'
  <2> SUFFICES ASSUME NEW u \in Threads, NEW i \in 1..Len(stack'[u]),
                      stack'[u][i].pc \in Holding
               PROVE  LET d == stack'[u][i].buf IN
                      /\ fate'[d] = "held"
                      /\ u = d => "worker" \in copies'[d]
                      /\ u # d => "parent" \in copies'[d]
                      /\ stack'[u][i].pc = "begin" => copies'[d] = {"parent"}
    BY DEF HeldUntilReset, Holding
  <2>1. CASE b # Nobody /\ u = t /\ i = Len(stack'[t]) /\ stack'[u][i] = Frame(b, "begin")
    BY <2>1, <1>2 DEF Frame
  <2>2. CASE /\ i \in 1..Len(stack[u]) /\ stack'[u][i].buf = stack[u][i].buf
             /\ stack[u][i].pc \in Holding
             /\ stack'[u][i].pc = "begin" => stack[u][i].pc = "begin"
    <3> DEFINE d == stack[u][i].buf
    <3>1. /\ fate[d] = "held"
          /\ u = d => "worker" \in copies[d]
          /\ u # d => "parent" \in copies[d]
          /\ stack[u][i].pc = "begin" => copies[d] = {"parent"}
      BY <2>2 DEF TrackerInv, HeldUntilReset
    <3>2. /\ fate'[d] = fate[d]
          /\ \/ copies'[d] = copies[d]
             \/ copies'[d] = copies[d] \ {"parent"} /\ u = d /\ stack'[u][i].pc # "begin"
      BY <2>2
    <3> HIDE DEF d
    <3>3. d = stack'[u][i].buf
      BY <2>2 DEF d
    <3>4. QED
      BY <2>2, <3>1, <3>2, <3>3
  <2>3. QED
    BY <2>1, <2>2 DEF Evolves
<1>4. OwnersHeld'
  <2> SUFFICES ASSUME NEW d \in Buffers, Owner[d] # Nobody, copies'[d] # {}
               PROVE  d \in refs'[Owner[d]]
    BY DEF OwnersHeld
  <2>1. Owner[d] \in Buffers /\ d \in refs[Owner[d]]
    BY TrackerAssumption DEF TrackerInv, OwnersHeld
  <2>2. QED
    BY <2>1, <1>1 DEF Drops
<1>5. QED
  BY <1>3, <1>4

\* The thread in parent's reset keeps the lock, and its worker waits.
LEMMA EvolvingKeepsLock ==
  ASSUME TrackerInv, NEW t \in Threads, NEW b \in Buffers \cup {Nobody},
         Evolves(t, b), mutex' = mutex,
         \A u \in Threads : u # t => stack'[u] = stack[u],
         t \in Buffers /\ At(t, "gate") => mutex = Nobody,
         t \in Buffers => stack[t] # <<>>
  PROVE  LockHeld'
<1>1. Nobody \notin Threads
  BY TrackerAssumption
<1> SUFFICES ASSUME NEW u \in Threads, NEW i \in 1..Len(stack'[u]),
                    stack'[u][i].pc \in {"reset", "unlock"}
             PROVE  /\ mutex' = u
                    /\ stack'[u][i].pc = "reset" =>
                         /\ Len(stack'[stack'[u][i].buf]) # 0
                         /\ stack'[stack'[u][i].buf][1].pc = "gate"
  BY DEF LockHeld
<1>2. /\ i \in 1..Len(stack[u]) /\ stack'[u][i].buf = stack[u][i].buf
      /\ stack'[u][i].pc = "reset" => stack[u][i].pc = "reset"
      /\ stack[u][i].pc \in {"reset", "unlock"}
  BY DEF Evolves, Frame
<1>3. mutex = u
  BY <1>2 DEF TrackerInv, LockHeld
<1>4. ASSUME stack'[u][i].pc = "reset"
      PROVE  Len(stack'[stack'[u][i].buf]) # 0 /\ stack'[stack'[u][i].buf][1].pc = "gate"
  <2> DEFINE d == stack[u][i].buf
  <2>1. Len(stack[d]) # 0 /\ stack[d][1].pc = "gate"
    BY <1>2, <1>4 DEF TrackerInv, LockHeld
  <2>2. stack \in [Threads -> Seq(Frames)]
    BY DEF TrackerInv, TrackerTyped
  <2>3. d \in Buffers /\ d \in Threads
    <3>1. stack[u] \in Seq(Frames)
      BY <2>2
    <3>2. stack[u][i] \in Frames
      BY <1>2, <3>1, ElementOfSeq
    <3>3. QED
      BY <3>2 DEF Frames, Threads
  <2>4. CASE d = t
    <3>1. Len(stack[t]) \in Nat /\ 1 \in 1..Len(stack[t])
      BY <2>1, <2>2, <2>4, LenProperties
    <3>2. Len(stack[t]) = 1
      BY <3>1, <2>1, <2>4 DEF TrackerInv, OnlyReleasesNest
    <3>3. At(t, "gate")
      BY <3>2, <2>1, <2>3, <2>4 DEF At, Top
    <3>4. QED
      BY <3>3, <2>3, <2>4, <1>1, <1>3
  <2>5. CASE d # t
    BY <2>1, <2>3, <2>5, <1>2
  <2>6. QED
    BY <2>4, <2>5
<1>5. QED
  BY <1>3, <1>4

\* The innermost frame goes on, and may start a destructor on top of it.
LEMMA ContinueEvolves ==
  ASSUME TrackerInv, NEW t \in Threads, NEW p \in FrameSteps, At(t, p),
         NEW pc \in FrameSteps \ {"begin"},
         NEW x, NEW c \in Buffers \cup {Nobody}, DropRef(t, x, c, Continue(t, pc)),
         c # Nobody => pc \in {"sources", "decrement"},
         pc \in Releasing => p \in Releasing,
         pc \in Holding => p \in Holding,
         pc = "reset" => p = "reset",
         pc = "unlock" => p = "reset",
         pc \in {"gate", "sync", "decrement"} => t = Buf(t),
         t = Buf(t) => pc \notin {"reset", "unlock"}
  PROVE  \E b \in Buffers \cup {Nobody} :
           /\ Drops(x, c, b) /\ Evolves(t, b) /\ Begins(t, Len(stack[t]), b)
           /\ b # Nobody => Len(stack'[t]) # 1
           /\ \A i \in 1..Len(stack[t]) :
                stack'[t][i] = IF i = Len(stack[t]) THEN Frame(Buf(t), pc) ELSE stack[t][i]
<1>1. stack \in [Threads -> Seq(Frames)] /\ TrackerTyped
  BY DEF TrackerInv, TrackerTyped
<1>2. /\ Len(stack[t]) \in Nat /\ 0 < Len(stack[t])
      /\ stack[t][Len(stack[t])] = Frame(Buf(t), p)
      /\ Continue(t, pc) \in Seq(Frames)
      /\ Len(Continue(t, pc)) = Len(stack[t])
      /\ \A i \in 1..Len(stack[t]) :
           Continue(t, pc)[i] = IF i = Len(stack[t]) THEN Frame(Buf(t), pc) ELSE stack[t][i]
  BY <1>1, StackFacts
<1>3. PICK b \in Buffers \cup {Nobody} :
           /\ Drops(x, c, b) /\ Begins(t, Len(stack[t]), b)
           /\ \A i \in 1..Len(stack[t]) : stack'[t][i] = Continue(t, pc)[i]
  BY <1>1, <1>2, Dropping
<1>4. \A i \in 1..Len(stack[t]) :
        stack'[t][i] = IF i = Len(stack[t]) THEN Frame(Buf(t), pc) ELSE stack[t][i]
  BY <1>2, <1>3
<1>5. b # Nobody => c # Nobody /\ Len(stack'[t]) # 1
  BY <1>2, <1>3 DEF Drops, Begins
<1>6. Evolves(t, b)
  <2> SUFFICES ASSUME NEW u \in Threads, NEW i \in 1..Len(stack'[u]),
                      ~ (/\ b # Nobody /\ u = t /\ i = Len(stack'[t])
                         /\ stack'[u][i] = Frame(b, "begin"))
               PROVE
       /\ i \in 1..Len(stack[u]) /\ stack'[u][i].buf = stack[u][i].buf
       /\ stack'[u][i].pc \in Releasing => stack[u][i].pc \in Releasing
       /\ stack'[u][i].pc \in Holding => stack[u][i].pc \in Holding
       /\ stack'[u][i].pc = "begin" => stack[u][i].pc = "begin"
       /\ stack'[u][i].pc = "reset" => stack[u][i].pc = "reset"
       /\ stack'[u][i].pc = "unlock" => stack[u][i].pc \in {"reset", "unlock"}
       /\ i # Len(stack'[u]) => stack'[u][i].pc \in {"sources", "decrement"}
       /\ stack'[u][i].pc \in {"gate", "sync", "decrement"} => u = stack'[u][i].buf
       /\ u = stack'[u][i].buf => stack'[u][i].pc \notin {"begin", "reset", "unlock"}
    BY DEF Evolves
  <2>1. CASE u = t /\ i = Len(stack[t])
    <3>1. /\ stack'[u][i] = Frame(Buf(t), pc) /\ stack[u][i] = Frame(Buf(t), p)
          /\ i \in 1..Len(stack[u])
      BY <2>1, <1>2, <1>4
    <3>2. i # Len(stack'[u]) => pc \in {"sources", "decrement"}
      BY <2>1, <1>2, <1>3, <1>5 DEF Begins
    <3>3. QED
      BY <3>1, <3>2, <2>1 DEF Frame
  <2>2. CASE ~ (u = t /\ i = Len(stack[t]))
    <3>1. /\ stack'[u][i] = stack[u][i] /\ i \in 1..Len(stack[u])
          /\ i # Len(stack'[u]) => i # Len(stack[u])
      <4>1. CASE u # t
        BY <4>1, <1>3 DEF Begins
      <4>2. CASE u = t
        <5>1. /\ i # Len(stack[t]) /\ stack[t] = stack[u] /\ stack'[t] = stack'[u]
              /\ Len(stack'[t]) = IF b = Nobody THEN Len(stack[t]) ELSE Len(stack[t]) + 1
              /\ b # Nobody => stack'[t][Len(stack[t]) + 1] = Frame(b, "begin")
          BY <4>2, <2>2, <1>3 DEF Begins
        <5>2. i \in 1..Len(stack[t])
          BY <5>1, <4>2, <1>2
        <5>3. QED
          BY <5>1, <5>2, <1>4
      <4>3. QED
        BY <4>1, <4>2
    <3>2. /\ i # Len(stack'[u]) => stack[u][i].pc \in {"sources", "decrement"}
          /\ stack[u][i].pc \in {"gate", "sync", "decrement"} => u = stack[u][i].buf
          /\ u = stack[u][i].buf => stack[u][i].pc \notin {"begin", "reset", "unlock"}
      BY <3>1, <2>2 DEF TrackerInv, OnlyReleasesNest, WorkersAreAtTheBottom
    <3>3. QED
      BY <3>1, <3>2
  <2>3. QED
    BY <2>1, <2>2
<1>7. QED
  BY <1>3, <1>4, <1>5, <1>6

\* The innermost frame returns, and may start a destructor in its place.
LEMMA LeaveEvolves ==
  ASSUME TrackerInv, NEW t \in Threads, NEW p \in FrameSteps, At(t, p),
         NEW x, NEW c \in Buffers \cup {Nobody}, DropRef(t, x, c, Leave(t)),
         c # Nobody => t # Buf(t)
  PROVE  \E b \in Buffers \cup {Nobody} :
           /\ Drops(x, c, b) /\ Evolves(t, b) /\ Begins(t, Len(stack[t]) - 1, b)
           /\ b # Nobody /\ t \in Buffers => Len(stack'[t]) # 1
           /\ \A i \in 1..(Len(stack[t]) - 1) : stack'[t][i] = stack[t][i]
<1>1. stack \in [Threads -> Seq(Frames)] /\ TrackerTyped
  BY DEF TrackerInv, TrackerTyped
<1>2. /\ Len(stack[t]) \in Nat /\ 0 < Len(stack[t])
      /\ stack[t][Len(stack[t])] = Frame(Buf(t), p)
      /\ Leave(t) \in Seq(Frames)
      /\ Len(Leave(t)) = Len(stack[t]) - 1
      /\ \A i \in 1..(Len(stack[t]) - 1) : Leave(t)[i] = stack[t][i]
  BY <1>1, StackFacts
<1>3. PICK b \in Buffers \cup {Nobody} :
           /\ Drops(x, c, b) /\ Begins(t, Len(stack[t]) - 1, b)
           /\ \A i \in 1..(Len(stack[t]) - 1) : stack'[t][i] = Leave(t)[i]
  BY <1>1, <1>2, Dropping
<1>4. \A i \in 1..(Len(stack[t]) - 1) : stack'[t][i] = stack[t][i]
  BY <1>2, <1>3
<1>5. b # Nobody /\ t \in Buffers => Len(stack'[t]) # 1
  <2> SUFFICES ASSUME b # Nobody, t \in Buffers, Len(stack[t]) = 1 PROVE FALSE
    BY <1>2, <1>3 DEF Begins
  <2>1. t = Buf(t)
    BY <1>2 DEF TrackerInv, WorkersAreAtTheBottom, Frame
  <2>2. QED
    BY <2>1, <1>3 DEF Drops
<1>6. Evolves(t, b)
  <2> SUFFICES ASSUME NEW u \in Threads, NEW i \in 1..Len(stack'[u]),
                      ~ (/\ b # Nobody /\ u = t /\ i = Len(stack'[t])
                         /\ stack'[u][i] = Frame(b, "begin"))
               PROVE
       /\ i \in 1..Len(stack[u]) /\ stack'[u][i] = stack[u][i]
       /\ i # Len(stack'[u]) => stack'[u][i].pc \in {"sources", "decrement"}
       /\ stack'[u][i].pc \in {"gate", "sync", "decrement"} => u = stack'[u][i].buf
       /\ u = stack'[u][i].buf => stack'[u][i].pc \notin {"begin", "reset", "unlock"}
    BY DEF Evolves
  <2>1. /\ stack'[u][i] = stack[u][i] /\ i \in 1..Len(stack[u])
        /\ i = Len(stack[u]) => i = Len(stack'[u])
    BY <1>2, <1>3, <1>4 DEF Begins
  <2>2. QED
    BY <2>1 DEF TrackerInv, OnlyReleasesNest, WorkersAreAtTheBottom
<1>7. QED
  BY <1>3, <1>4, <1>5, <1>6

\* What an action on Buf(t)'s destruction leaves of everything but the types.
TrackerKept ==
  /\ OnlyReleasesNest' /\ WorkersAreAtTheBottom' /\ LockHeld' /\ Quiet'
  /\ OneDestruction' /\ HeldUntilReset' /\ OwnersHeld' /\ SourcesHeld'

\* What an action keeps in which the innermost frame goes on from p to pc.
LEMMA ContinueKeeps ==
  ASSUME TrackerInv, NEW t \in Threads, NEW p \in FrameSteps, At(t, p),
         NEW pc \in FrameSteps \ {"begin"},
         NEW c \in Buffers \cup {Nobody}, DropRef(t, Buf(t), c, Continue(t, pc)),
         mutex' = mutex,
         c # Nobody => Buf(t) \in refs[c] /\ pc \in {"sources", "decrement"},
         c # Nobody /\ c = Source[Buf(t)] => p \in Releasing /\ pc \notin Releasing,
         c # Nobody /\ c = Owner[Buf(t)] => copies'[Buf(t)] = {},
         pc \in Releasing => p \in Releasing,
         pc \in Holding => p \in Holding,
         pc = "reset" => p = "reset",
         pc = "unlock" => p = "reset",
         pc \in {"gate", "sync", "decrement"} => t = Buf(t),
         t = Buf(t) => pc \notin {"reset", "unlock"},
         p = "gate" => mutex = Nobody,
         \A d \in Buffers \ {Buf(t)} : copies'[d] = copies[d] /\ fate'[d] = fate[d],
         copies[Buf(t)] = {} => copies'[Buf(t)] = {},
         \/ copies'[Buf(t)] = copies[Buf(t)] /\ fate'[Buf(t)] = fate[Buf(t)]
         \/ p \in Holding /\ pc \notin Holding
         \/ /\ p = "reset" /\ copies'[Buf(t)] = copies[Buf(t)] \ {"parent"}
            /\ fate'[Buf(t)] = fate[Buf(t)]
  PROVE  /\ TrackerKept
         /\ stack' \in [Threads -> Seq(Frames)]
         /\ refs' \in [Buffers -> SUBSET ({"app"} \cup Buffers)]
         /\ (t = Buf(t) => p # "notify" /\ pc # "notify") => Counting' = Counting
         /\ p = "decrement" /\ pc = "notify" => t \in Counting /\ Counting' = Counting \ {t}
<1> DEFINE n == Len(stack[t])
           x == Buf(t)
<1>1. PICK b \in Buffers \cup {Nobody} :
           /\ Drops(x, c, b) /\ Evolves(t, b) /\ Begins(t, n, b)
           /\ b # Nobody => Len(stack'[t]) # 1
           /\ \A i \in 1..n :
                stack'[t][i] = IF i = n THEN Frame(x, pc) ELSE stack[t][i]
  BY ContinueEvolves
<1>2. stack \in [Threads -> Seq(Frames)] /\ OneDestruction
  BY DEF TrackerInv, TrackerTyped
<1>3. n \in Nat /\ n \in 1..n /\ x \in Buffers /\ stack[t][n] = Frame(x, p)
  BY <1>2, StackFacts
<1>4. refs[x] = {}
  BY <1>3 DEF TrackerInv, Quiet, Frame
<1> HIDE DEF n, x
<1>5. \A d \in Buffers : refs[d] # {} => copies'[d] = copies[d] /\ fate'[d] = fate[d]
  BY <1>4 DEF x
<1>6. ASSUME c # Nobody, c = Source[x],
             NEW u \in Threads, NEW i \in 1..Len(stack'[u]),
             stack'[u][i].buf = x, stack'[u][i].pc \in Releasing
      PROVE  FALSE
  <2>1. b # x
    BY <1>1, <1>3, <1>4, <1>6, TrackerAssumption DEF Drops, x, Threads
  <2>2. i \in 1..Len(stack[u]) /\ stack[u][i].buf = x /\ stack[u][i].pc \in Releasing
    BY <1>1, <1>6, <2>1 DEF Evolves, Frame
  <2>3. stack[t][n].buf = x /\ stack[t][n].pc \in Releasing
    BY <1>3, <1>6 DEF Frame, x
  <2>5. t = u /\ n = i
    BY <1>2, <1>3, <2>2, <2>3, SameFrame DEF n
  <2>6. QED
    BY <2>5, <1>1, <1>3, <1>6 DEF Frame, x
<1>7. /\ OnlyReleasesNest' /\ WorkersAreAtTheBottom' /\ Quiet'
      /\ OneDestruction' /\ SourcesHeld'
  BY <1>1, <1>4, <1>5, <1>6, EvolvingKeepsShape DEF x
<1>8. ASSUME NEW u \in Threads, NEW i \in 1..Len(stack'[u]), stack'[u][i].pc \in Holding
      PROVE  /\ fate'[stack'[u][i].buf] = fate[stack'[u][i].buf]
             /\ \/ copies'[stack'[u][i].buf] = copies[stack'[u][i].buf]
                \/ /\ copies'[stack'[u][i].buf] = copies[stack'[u][i].buf] \ {"parent"}
                   /\ u = stack'[u][i].buf /\ stack'[u][i].pc # "begin"
  <2>0. stack'[u][i].buf \in Buffers
    <3>1. stack'[u] \in Seq(Frames)
      BY <1>1 DEF Begins
    <3>2. stack'[u][i] \in Frames
      BY <3>1, <1>8, ElementOfSeq
    <3>3. QED
      BY <3>2 DEF Frames
  <2>1. CASE stack'[u][i].buf # x
    BY <2>0, <2>1 DEF x
  <2>2. CASE stack'[u][i].buf = x
    <3>1. b # x
      BY <1>1, <1>3, <1>4, TrackerAssumption DEF Drops, x, Threads
    <3>2. /\ i \in 1..Len(stack[u]) /\ stack[u][i].buf = x /\ stack[u][i].pc \in Holding
          /\ stack'[u][i].pc = "begin" => stack[u][i].pc = "begin"
      BY <1>1, <1>8, <2>2, <3>1 DEF Evolves, Frame
    <3>3. CASE p \in Holding /\ pc \notin Holding
      <4>1. /\ stack[t][n].buf = x /\ stack[t][n].pc \in Releasing
            /\ stack[u][i].pc \in Releasing
        BY <1>3, <3>2, <3>3 DEF Frame, Releasing, Holding
      <4>2. t = u /\ n = i
        BY <1>2, <1>3, <3>2, <4>1, SameFrame DEF n
      <4>3. QED
        BY <4>2, <1>1, <1>3, <1>8, <3>3 DEF Frame
    <3>4. CASE /\ p = "reset" /\ copies'[Buf(t)] = copies[Buf(t)] \ {"parent"}
               /\ fate'[Buf(t)] = fate[Buf(t)]
      <4>1. Len(stack[x]) # 0 /\ stack[x][1].pc = "gate" /\ x \in Threads
        BY <1>3, <3>4 DEF TrackerInv, LockHeld, Frame, n, Threads
      <4>2. 1 \in 1..Len(stack[x])
        <5>1. Len(stack[x]) \in Nat
          BY <1>2, <4>1, LenProperties
        <5>2. QED
          BY <5>1, <4>1
      <4>3. stack[x][1].buf = x
        BY <1>3, <4>1, <4>2 DEF TrackerInv, WorkersAreAtTheBottom
      <4>4. stack[x][1].pc \in Releasing /\ stack[u][i].pc \in Releasing
        BY <4>1, <3>2 DEF Releasing, Holding
      <4>5. u = x /\ i = 1
        BY <1>2, <1>3, <3>2, <4>1, <4>2, <4>3, <4>4, SameFrame
      <4>6. QED
        BY <4>5, <4>1, <3>2, <3>4, <2>2 DEF x
    <3>5. QED
      BY <3>3, <3>4, <2>2 DEF x
  <2>3. QED
    BY <2>1, <2>2
<1>11. b # t
  <2>1. CASE b = Nobody
    BY <2>1, TrackerAssumption
  <2>2. CASE b # Nobody
    <3>1. /\ n + 1 \in 1..Len(stack'[t])
          /\ stack'[t][n + 1].buf = b /\ stack'[t][n + 1].pc = "begin"
      BY <2>2, <1>1, <1>3 DEF Begins, Frame
    <3>2. QED
      BY <3>1, <1>7 DEF WorkersAreAtTheBottom
  <2>3. QED
    BY <2>1, <2>2
<1>9. HeldUntilReset' /\ OwnersHeld'
  BY <1>1, <1>11, <1>5, <1>7, <1>8, EvolvingKeepsCustody DEF x
<1>10. LockHeld'
  BY <1>1, EvolvingKeepsLock DEF At, Begins
<1>12. TrackerKept
  BY <1>7, <1>9, <1>10 DEF TrackerKept
<1>13. /\ stack' \in [Threads -> Seq(Frames)]
       /\ refs' \in [Buffers -> SUBSET ({"app"} \cup Buffers)]
  BY <1>1 DEF Begins, Drops
<1>14. ASSUME NEW d \in Buffers, d # t \/ n # 1
       PROVE  d \in Counting' <=> d \in Counting
  <2>1. d \in Threads
    BY DEF Threads
  <2>2. CASE d # t
    BY <2>1, <2>2, <1>1 DEF Begins, Counting
  <2>3. CASE d = t
    <3>1. 1 \in 1..n /\ 1 # n /\ Len(stack[d]) # 0 /\ Len(stack'[d]) # 0
      BY <2>3, <1>14, <1>3, <1>1 DEF Begins, n
    <3>2. QED
      BY <3>1, <2>3, <1>1 DEF Counting
  <2>4. QED
    BY <2>2, <2>3
<1>15. ASSUME t \in Buffers, n = 1
       PROVE  /\ t = x
              /\ t \in Counting <=> p # "notify"
              /\ t \in Counting' <=> pc # "notify"
  <2>1. t = x
    BY <1>3, <1>15 DEF TrackerInv, WorkersAreAtTheBottom, Frame, n
  <2>2. /\ Len(stack[t]) # 0 /\ Len(stack'[t]) # 0
        /\ stack[t][1].pc = p /\ stack'[t][1].pc = pc
    BY <1>1, <1>3, <1>15 DEF Begins, Frame, n
  <2>3. QED
    BY <2>1, <2>2, <1>15 DEF Counting
<1>16. Counting \subseteq Buffers /\ Counting' \subseteq Buffers
  BY DEF Counting
<1>17. (t = Buf(t) => p # "notify" /\ pc # "notify") => Counting' = Counting
  <2> SUFFICES ASSUME t = Buf(t) => p # "notify" /\ pc # "notify", NEW d \in Buffers
               PROVE  d \in Counting' <=> d \in Counting
    BY <1>16
  <2>1. QED
    BY <1>14, <1>15 DEF x
<1>18. p = "decrement" /\ pc = "notify" => t \in Counting /\ Counting' = Counting \ {t}
  <2> SUFFICES ASSUME p = "decrement", pc = "notify"
               PROVE  t \in Counting /\ Counting' = Counting \ {t}
    OBVIOUS
  <2>0. n \in 1..Len(stack[t]) /\ stack[t][n].buf = x /\ stack[t][n].pc = "decrement"
    BY <1>3 DEF Frame, n
  <2>1. t = x /\ n = 1
    BY <2>0 DEF TrackerInv, WorkersAreAtTheBottom
  <2>2. t \in Counting /\ t \notin Counting'
    BY <2>1, <1>3, <1>15
  <2>3. \A d \in Buffers \ {t} : d \in Counting' <=> d \in Counting
    BY <1>14
  <2>4. QED
    BY <2>2, <2>3, <1>16
<1>19. QED
  BY <1>12, <1>13, <1>17, <1>18

\* The same when no reference is dropped.
LEMMA GoesOnKeeps ==
  ASSUME TrackerInv, NEW t \in Threads, NEW p \in FrameSteps, At(t, p),
         NEW pc \in FrameSteps \ {"begin", "reset", "unlock", "gate"},
         Goto(t, Continue(t, pc)), UNCHANGED <<mutex, copies>>,
         pc \in Releasing => p \in Releasing,
         pc \in Holding => p \in Holding,
         pc \in {"sync", "decrement"} => t = Buf(t),
         p = "gate" => mutex = Nobody,
         \A d \in Buffers \ {Buf(t)} : fate'[d] = fate[d],
         \/ fate'[Buf(t)] = fate[Buf(t)]
         \/ p \in Holding /\ pc \notin Holding
  PROVE  /\ TrackerKept
         /\ stack' \in [Threads -> Seq(Frames)]
         /\ refs' \in [Buffers -> SUBSET ({"app"} \cup Buffers)]
         /\ (t = Buf(t) => p # "notify" /\ pc # "notify") => Counting' = Counting
         /\ p = "decrement" /\ pc = "notify" => t \in Counting /\ Counting' = Counting \ {t}
<1>1. DropRef(t, Buf(t), Nobody, Continue(t, pc))
  BY DEF Goto, DropRef
<1>2. /\ pc \in FrameSteps \ {"begin"} /\ Nobody \in Buffers \cup {Nobody}
      /\ pc # "reset" /\ pc # "unlock" /\ pc # "gate"
      /\ mutex' = mutex /\ copies' = copies
  OBVIOUS
<1>3. \/ copies'[Buf(t)] = copies[Buf(t)] /\ fate'[Buf(t)] = fate[Buf(t)]
      \/ p \in Holding /\ pc \notin Holding
  BY <1>2
<1>4. \A d \in Buffers \ {Buf(t)} : copies'[d] = copies[d] /\ fate'[d] = fate[d]
  BY <1>2
<1>5. pc \in {"gate", "sync", "decrement"} => t = Buf(t)
  BY <1>2
<1>6. QED
  BY <1>1, <1>2, <1>3, <1>4, <1>5, ContinueKeeps

\* What an action keeps in which the innermost frame returns.
LEMMA LeaveKeeps ==
  ASSUME TrackerInv, NEW t \in Threads, NEW p \in FrameSteps \ {"gate"}, At(t, p),
         NEW c \in Buffers \cup {Nobody}, DropRef(t, Buf(t), c, Leave(t)),
         mutex' = IF p = "unlock" THEN Nobody ELSE mutex,
         c # Nobody =>
           Buf(t) \in refs[c] /\ p = "sources" /\ c = Source[Buf(t)] /\ t # Buf(t),
         t = Buf(t) => p = "notify",
         copies' = copies,
         \A d \in Buffers \ {Buf(t)} : fate'[d] = fate[d],
         p = "begin" \/ fate'[Buf(t)] = fate[Buf(t)]
  PROVE  /\ TrackerKept
         /\ stack' \in [Threads -> Seq(Frames)]
         /\ refs' \in [Buffers -> SUBSET ({"app"} \cup Buffers)]
         /\ Counting' = Counting
<1> DEFINE n == Len(stack[t])
           x == Buf(t)
<1>1. PICK b \in Buffers \cup {Nobody} :
           /\ Drops(x, c, b) /\ Evolves(t, b) /\ Begins(t, n - 1, b)
           /\ b # Nobody /\ t \in Buffers => Len(stack'[t]) # 1
           /\ \A i \in 1..(n - 1) : stack'[t][i] = stack[t][i]
  BY LeaveEvolves
<1>2. stack \in [Threads -> Seq(Frames)] /\ OneDestruction
  BY DEF TrackerInv, TrackerTyped
<1>3. n \in Nat /\ n \in 1..n /\ x \in Buffers /\ stack[t][n] = Frame(x, p)
  BY <1>2, StackFacts
<1>4. refs[x] = {}
  BY <1>3 DEF TrackerInv, Quiet, Frame
<1> HIDE DEF n, x
<1>5. \A d \in Buffers : refs[d] # {} => copies'[d] = copies[d] /\ fate'[d] = fate[d]
  BY <1>4 DEF x
<1>6. ASSUME c # Nobody \/ p = "begin",
             NEW u \in Threads, NEW i \in 1..Len(stack'[u]), stack'[u][i].buf = x
      PROVE  stack'[u][i].pc \notin Releasing
  <2> SUFFICES ASSUME stack'[u][i].pc \in Releasing PROVE FALSE
    OBVIOUS
  <2>1. b # x
    BY <1>1, <1>3, <1>4, <1>6, TrackerAssumption DEF Drops, x, Threads
  <2>2. i \in 1..Len(stack[u]) /\ stack[u][i].buf = x /\ stack[u][i].pc \in Releasing
    BY <1>1, <1>6, <2>1 DEF Evolves, Frame
  <2>3. stack[t][n].buf = x /\ stack[t][n].pc \in Releasing
    BY <1>3, <1>6 DEF Frame, x, Releasing
  <2>4. t = u /\ n = i
    BY <1>2, <1>3, <2>2, <2>3, SameFrame DEF n
  <2>5. Len(stack'[t]) = n /\ b # Nobody /\ stack'[t][n] = Frame(b, "begin")
    BY <2>4, <1>1, <1>3, <1>6 DEF Begins
  <2>6. QED
    BY <2>1, <2>4, <2>5, <1>6 DEF Frame
<1>7. /\ OnlyReleasesNest' /\ WorkersAreAtTheBottom' /\ Quiet'
      /\ OneDestruction' /\ SourcesHeld'
  BY <1>1, <1>4, <1>5, <1>6, EvolvingKeepsShape DEF x
<1>8. ASSUME NEW u \in Threads, NEW i \in 1..Len(stack'[u]), stack'[u][i].pc \in Holding
      PROVE  /\ fate'[stack'[u][i].buf] = fate[stack'[u][i].buf]
             /\ \/ copies'[stack'[u][i].buf] = copies[stack'[u][i].buf]
                \/ /\ copies'[stack'[u][i].buf] = copies[stack'[u][i].buf] \ {"parent"}
                   /\ u = stack'[u][i].buf /\ stack'[u][i].pc # "begin"
  <2>1. stack'[u][i].buf \in Buffers
    <3>1. stack'[u] \in Seq(Frames)
      BY <1>1 DEF Begins
    <3>2. stack'[u][i] \in Frames
      BY <3>1, <1>8, ElementOfSeq
    <3>3. QED
      BY <3>2 DEF Frames
  <2>2. stack'[u][i].pc \in Releasing
    BY <1>8 DEF Holding, Releasing
  <2>3. stack'[u][i].buf = x => p # "begin"
    BY <1>6, <2>2
  <2>4. QED
    BY <2>1, <2>3 DEF x
<1>9. b # t
  <2>1. CASE b = Nobody
    BY <2>1, TrackerAssumption
  <2>2. CASE b # Nobody
    <3>1. n \in 1..Len(stack'[t]) /\ stack'[t][n].buf = b /\ stack'[t][n].pc = "begin"
      BY <2>2, <1>1, <1>3 DEF Begins, Frame
    <3>2. QED
      BY <3>1, <1>7 DEF WorkersAreAtTheBottom
  <2>3. QED
    BY <2>1, <2>2
<1>10. HeldUntilReset' /\ OwnersHeld'
  <2>1. c # Nobody => c # Owner[x]
    BY <1>3, TrackerAssumption DEF x
  <2>2. QED
    BY <2>1, <1>1, <1>9, <1>5, <1>8, EvolvingKeepsCustody DEF x
<1>11. LockHeld'
  <2>1. CASE p # "unlock"
    BY <2>1, <1>1, EvolvingKeepsLock DEF At, Begins
  <2>2. CASE p = "unlock"
    <3> SUFFICES ASSUME NEW u \in Threads, NEW i \in 1..Len(stack'[u]),
                        stack'[u][i].pc \in {"reset", "unlock"}
                 PROVE  FALSE
      BY DEF LockHeld
    <3>1. b = Nobody
      BY <2>2, <1>1 DEF Drops
    <3>2. i \in 1..Len(stack[u]) /\ stack[u][i].pc \in {"reset", "unlock"}
      BY <1>1, <3>1 DEF Evolves
    <3>3. mutex = u
      BY <3>2 DEF TrackerInv, LockHeld
    <3>4. n \in 1..Len(stack[t]) /\ stack[t][n].pc = "unlock"
      BY <2>2, <1>3 DEF Frame, n
    <3>5. mutex = t
      BY <3>4 DEF TrackerInv, LockHeld
    <3>6. i \in 1..(n - 1)
      BY <3>1, <3>3, <3>5, <1>1, <1>3 DEF Begins
    <3>7. i # Len(stack[t])
      BY <3>6, <1>3 DEF n
    <3>8. stack[u][i].pc \in {"sources", "decrement"}
      BY <3>2, <3>3, <3>5, <3>7 DEF TrackerInv, OnlyReleasesNest
    <3>9. QED
      BY <3>2, <3>8
  <2>3. QED
    BY <2>1, <2>2
<1>12. TrackerKept
  BY <1>7, <1>10, <1>11 DEF TrackerKept
<1>13. /\ stack' \in [Threads -> Seq(Frames)]
       /\ refs' \in [Buffers -> SUBSET ({"app"} \cup Buffers)]
  BY <1>1 DEF Begins, Drops
<1>14. ASSUME NEW d \in Buffers
       PROVE  d \in Counting' <=> d \in Counting
  <2>1. d \in Threads
    BY DEF Threads
  <2>2. CASE d # t
    BY <2>1, <2>2, <1>1 DEF Begins, Counting
  <2>3. CASE d = t /\ n # 1
    <3>1. 1 \in 1..(n - 1) /\ Len(stack[d]) # 0 /\ Len(stack'[d]) # 0
      <4>0. n \in Nat /\ n > 1
        BY <2>3, <1>3
      <4>1. Len(stack[d]) = n /\ n \in Nat /\ n > 1
        BY <4>0, <2>3 DEF n
      <4>2. Len(stack'[d]) \in {n - 1, (n - 1) + 1}
        BY <2>3, <1>1 DEF Begins
      <4>3. QED
        BY <4>1, <4>2
    <3>2. QED
      BY <3>1, <2>3, <1>1 DEF Counting
  <2>4. CASE d = t /\ n = 1
    <3>1. n \in 1..Len(stack[t]) /\ stack[t][n].buf = x /\ stack[t][n].pc = p
      BY <1>3 DEF Frame, n
    <3>2. t = x
      BY <3>1, <2>4 DEF TrackerInv, WorkersAreAtTheBottom
    <3>3. p = "notify" /\ b = Nobody
      BY <3>2, <1>1 DEF x, Drops
    <3>4. Len(stack'[t]) = 0
      BY <3>3, <2>4, <1>1 DEF Begins
    <3>5. QED
      BY <3>1, <3>3, <3>4, <2>4 DEF Counting
  <2>5. QED
    BY <2>2, <2>3, <2>4
<1>15. Counting' = Counting
  BY <1>14 DEF Counting
<1>16. QED
  BY <1>12, <1>13, <1>15

\* What AppDrops and the waiters do to the invariant.
LEMMA AppDropsKeeps ==
  ASSUME TrackerInv, NEW t \in Threads, NEW d \in Buffers, AppDrops(t, d)
  PROVE  /\ TrackerKept
         /\ stack' \in [Threads -> Seq(Frames)]
         /\ refs' \in [Buffers -> SUBSET ({"app"} \cup Buffers)]
         /\ Counting' = Counting
<1>1. /\ t \notin Buffers /\ "app" \notin Buffers /\ Nobody \notin Buffers
      /\ DropRef(t, "app", d, <<>>) /\ stack[t] = <<>> /\ "app" \in refs[d]
      /\ UNCHANGED <<mutex, copies, fate>>
  BY TrackerAssumption DEF AppDrops, Threads
<1>2. <<>> \in Seq(Frames) /\ Len(<<>>) = 0 /\ TrackerTyped
  BY DEF TrackerInv
<1>3. PICK b \in Buffers \cup {Nobody} : Drops("app", d, b) /\ Begins(t, 0, b)
  BY <1>1, <1>2, Dropping
<1>4. Evolves(t, b)
  <2> SUFFICES ASSUME NEW u \in Threads, NEW i \in 1..Len(stack'[u]),
                      ~ (/\ b # Nobody /\ u = t /\ i = Len(stack'[t])
                         /\ stack'[u][i] = Frame(b, "begin"))
               PROVE
       /\ i \in 1..Len(stack[u]) /\ stack'[u] = stack[u]
       /\ i # Len(stack[u]) => stack[u][i].pc \in {"sources", "decrement"}
       /\ stack[u][i].pc \in {"gate", "sync", "decrement"} => u = stack[u][i].buf
       /\ u = stack[u][i].buf => stack[u][i].pc \notin {"begin", "reset", "unlock"}
    BY DEF Evolves
  <2>1. u # t
    <3>1. CASE b = Nobody
      BY <3>1, <1>3 DEF Begins
    <3>2. CASE b # Nobody
      <4>1. Len(stack'[t]) = 1 /\ stack'[t][1] = Frame(b, "begin")
        BY <3>2, <1>3 DEF Begins
      <4>2. SUFFICES ASSUME u = t PROVE FALSE
        OBVIOUS
      <4>3. i \in 1..1
        BY <4>1, <4>2
      <4>4. i = 1
        BY <4>3
      <4>5. QED
        BY <3>2, <4>1, <4>2, <4>4
    <3>3. QED
      BY <3>1, <3>2
  <2>2. stack'[u] = stack[u]
    BY <2>1, <1>3 DEF Begins
  <2>3. QED
    BY <2>2 DEF TrackerInv, OnlyReleasesNest, WorkersAreAtTheBottom
<1>5. /\ OnlyReleasesNest' /\ WorkersAreAtTheBottom' /\ Quiet'
      /\ OneDestruction' /\ SourcesHeld'
  BY <1>1, <1>3, <1>4, EvolvingKeepsShape
<1>6. b # t
  BY <1>1, TrackerAssumption
<1>7. HeldUntilReset' /\ OwnersHeld'
  BY <1>1, <1>3, <1>4, <1>6, EvolvingKeepsCustody
<1>8. LockHeld'
  BY <1>1, <1>3, <1>4, EvolvingKeepsLock DEF Begins
<1>9. Counting' = Counting
  BY <1>1, <1>3 DEF Counting, Begins, Threads
<1>10. QED
  BY <1>3, <1>5, <1>7, <1>8, <1>9 DEF TrackerKept, Begins, Drops

\* Where the two frames of a destruction are that has started its worker.
LEMMA SpawnKeeps ==
  ASSUME TrackerInv, NEW t \in Threads, Spawn(t)
  PROVE  /\ TrackerKept
         /\ stack' \in [Threads -> Seq(Frames)]
         /\ Buf(t) \in Buffers /\ Buf(t) \notin Counting
         /\ Counting' = Counting \cup {Buf(t)}
<1> DEFINE n == Len(stack[t])
           x == Buf(t)
<1>1. /\ stack \in [Threads -> Seq(Frames)] /\ OneDestruction
      /\ "begin" \in FrameSteps /\ "reset" \in FrameSteps /\ "gate" \in FrameSteps
      /\ copies \in [Buffers -> SUBSET {"parent", "worker"}]
  BY DEF TrackerInv, TrackerTyped, FrameSteps
<1>2. /\ n \in Nat /\ n \in 1..n /\ x \in Buffers /\ stack[t][n] = Frame(x, "begin")
      /\ Continue(t, "reset") \in Seq(Frames) /\ Len(Continue(t, "reset")) = n
      /\ \A i \in 1..n :
           Continue(t, "reset")[i] = IF i = n THEN Frame(x, "reset") ELSE stack[t][i]
  BY <1>1, StackFacts DEF Spawn
<1>3. x \in Async /\ mutex = Nobody /\ mutex' = t /\ refs' = refs /\ fate' = fate
      /\ copies' = [copies EXCEPT ![x] = {"parent", "worker"}]
      /\ stack' = [stack EXCEPT ![t] = Continue(t, "reset"), ![x] = <<Frame(x, "gate")>>]
  BY DEF Spawn
<1>4. /\ n \in 1..Len(stack[t]) /\ stack[t][n].buf = x /\ stack[t][n].pc = "begin"
      /\ x \in Threads
  BY <1>2 DEF Frame, n, Threads
<1> HIDE DEF n, x
\* x has no other frame.
<1>5. \A u \in Threads : \A i \in 1..Len(stack[u]) : stack[u][i].buf = x => u = t /\ i = n
  BY <1>1, <1>2, <1>4 DEF OneDestruction, Releasing
<1>6. t # x
  BY <1>4 DEF TrackerInv, WorkersAreAtTheBottom
<1>7. Len(stack[x]) = 0
  <2> SUFFICES ASSUME Len(stack[x]) # 0 PROVE FALSE
    OBVIOUS
  <2>1. 1 \in 1..Len(stack[x])
    <3>1. Len(stack[x]) \in Nat
      BY <1>1, <1>4, LenProperties
    <3>2. QED
      BY <3>1
  <2>2. stack[x][1].buf = x
    BY <2>1, <1>2, <1>4 DEF TrackerInv, WorkersAreAtTheBottom
  <2>3. QED
    BY <1>4, <1>5, <1>6, <2>1, <2>2
<1>8. /\ stack' \in [Threads -> Seq(Frames)]
      /\ Len(stack'[t]) = n /\ stack'[t][n] = Frame(x, "reset")
      /\ \A i \in 1..n : i # n => stack'[t][i] = stack[t][i]
      /\ Len(stack'[x]) = 1 /\ stack'[x][1] = Frame(x, "gate")
      /\ \A u \in Threads : u # t /\ u # x => stack'[u] = stack[u]
  <2>1. <<Frame(x, "gate")>> \in Seq(Frames)
    BY <1>1, <1>2 DEF Frame, Frames
  <2>2. /\ stack' \in [Threads -> Seq(Frames)]
        /\ stack'[t] = Continue(t, "reset") /\ stack'[x] = <<Frame(x, "gate")>>
        /\ \A u \in Threads : u # t /\ u # x => stack'[u] = stack[u]
    BY <2>1, <1>1, <1>2, <1>3, <1>4, <1>6
  <2>3. QED
    BY <2>2, <1>2
\* Each frame is one of the two new ones, or it was there.
<1>9. \A u \in Threads : \A i \in 1..Len(stack'[u]) :
        \/ u = t /\ i = n /\ stack'[u][i] = Frame(x, "reset") /\ i = Len(stack'[u])
        \/ u = x /\ i = 1 /\ stack'[u][i] = Frame(x, "gate") /\ i = Len(stack'[u])
        \/ /\ i \in 1..Len(stack[u]) /\ stack'[u][i] = stack[u][i] /\ stack[u][i].buf # x
           /\ i = Len(stack'[u]) <=> i = Len(stack[u])
  <2> SUFFICES ASSUME NEW u \in Threads, NEW i \in 1..Len(stack'[u])
               PROVE
        \/ u = t /\ i = n /\ stack'[u][i] = Frame(x, "reset") /\ i = Len(stack'[u])
        \/ u = x /\ i = 1 /\ stack'[u][i] = Frame(x, "gate") /\ i = Len(stack'[u])
        \/ /\ i \in 1..Len(stack[u]) /\ stack'[u][i] = stack[u][i] /\ stack[u][i].buf # x
           /\ i = Len(stack'[u]) <=> i = Len(stack[u])
    OBVIOUS
  <2>1. CASE u = t
    BY <2>1, <1>2, <1>5, <1>8 DEF n
  <2>2. CASE u = x
    BY <2>2, <1>8
  <2>3. CASE u # t /\ u # x
    BY <2>3, <1>5, <1>8
  <2>4. QED
    BY <2>1, <2>2, <2>3
<1>10. OnlyReleasesNest'
  BY <1>9 DEF TrackerInv, OnlyReleasesNest
<1>11. WorkersAreAtTheBottom'
  <2> SUFFICES ASSUME NEW u \in Threads, NEW i \in 1..Len(stack'[u])
               PROVE  /\ stack'[u][i].pc \in {"gate", "sync", "decrement"} =>
                           u = stack'[u][i].buf
                      /\ u = stack'[u][i].buf =>
                           i = 1 /\ stack'[u][i].pc \notin {"begin", "reset", "unlock"}
                      /\ u \in Buffers => u \in Async /\ (i = 1 => u = stack'[u][i].buf)
    BY DEF WorkersAreAtTheBottom
  <2>1. CASE u = t /\ i = n /\ stack'[u][i] = Frame(x, "reset")
    BY <2>1, <1>4, <1>6 DEF TrackerInv, WorkersAreAtTheBottom, Frame
  <2>2. CASE u = x /\ i = 1 /\ stack'[u][i] = Frame(x, "gate")
    BY <2>2, <1>3 DEF Frame
  <2>3. CASE i \in 1..Len(stack[u]) /\ stack'[u][i] = stack[u][i]
    BY <2>3 DEF TrackerInv, WorkersAreAtTheBottom
  <2>4. QED
    BY <1>9, <2>1, <2>2, <2>3
<1>12. LockHeld'
  <2> SUFFICES ASSUME NEW u \in Threads, NEW i \in 1..Len(stack'[u]),
                      stack'[u][i].pc \in {"reset", "unlock"}
               PROVE  u = t /\ stack'[u][i].buf = x
    BY <1>3, <1>8 DEF LockHeld, Frame
  <2>1. ~ (i \in 1..Len(stack[u]) /\ stack'[u][i] = stack[u][i])
    BY <1>3, TrackerAssumption DEF TrackerInv, LockHeld
  <2>2. QED
    BY <2>1, <1>9 DEF Frame
<1>13. refs[x] = {}
  BY <1>2, <1>4 DEF TrackerInv, Quiet
<1>14. Quiet'
  <2> SUFFICES ASSUME NEW d \in Buffers, refs'[d] # {}
               PROVE  /\ \A u \in Threads :
                           \A i \in 1..Len(stack'[u]) : stack'[u][i].buf # d
                      /\ copies'[d] = {"parent"} /\ fate'[d] = "held"
    BY DEF Quiet
  <2>1. refs[d] # {} /\ d # x
    BY <1>3, <1>13
  <2>2. copies'[d] = {"parent"} /\ fate'[d] = "held"
    BY <2>1, <1>1, <1>3 DEF TrackerInv, Quiet
  <2>3. \A u \in Threads : \A i \in 1..Len(stack'[u]) : stack'[u][i].buf # d
    BY <2>1, <1>9 DEF TrackerInv, Quiet, Frame
  <2>4. QED
    BY <2>2, <2>3
<1>15. OneDestruction'
  <2> SUFFICES ASSUME NEW d \in Buffers, NEW u \in Threads, NEW w \in Threads,
                      NEW i \in 1..Len(stack'[u]), NEW j \in 1..Len(stack'[w]),
                      stack'[u][i].buf = d, stack'[w][j].buf = d,
                      stack'[u][i].pc \in Releasing,
                      stack'[w][j].pc \in Releasing \/ stack'[u][i].pc = "begin"
               PROVE  u = w /\ i = j
    BY DEF OneDestruction
  <2>1. CASE d = x
    <3>1. /\ ~ (stack'[u][i] = stack[u][i] /\ stack[u][i].buf # x)
          /\ ~ (stack'[w][j] = stack[w][j] /\ stack[w][j].buf # x)
      BY <2>1
    <3>2. stack'[u][i] # Frame(x, "reset")
      BY DEF Frame, Releasing
    <3>3. u = x /\ i = 1 /\ stack'[u][i] = Frame(x, "gate")
      BY <3>1, <3>2, <1>9
    <3>4. stack'[w][j].pc \in Releasing
      BY <3>3 DEF Frame
    <3>5. stack'[w][j] # Frame(x, "reset")
      BY <3>4 DEF Frame, Releasing
    <3>6. QED
      BY <3>1, <3>3, <3>5, <1>9
  <2>2. CASE d # x
    <3>1. /\ i \in 1..Len(stack[u]) /\ stack'[u][i] = stack[u][i]
          /\ j \in 1..Len(stack[w]) /\ stack'[w][j] = stack[w][j]
      BY <2>2, <1>9 DEF Frame
    <3>2. /\ stack[u][i].buf = d /\ stack[w][j].buf = d /\ stack[u][i].pc \in Releasing
          /\ stack[w][j].pc \in Releasing \/ stack[u][i].pc = "begin"
      BY <3>1
    <3>3. i \in 1..Len(stack[u]) /\ j \in 1..Len(stack[w])
      BY <3>1
    <3>4. QED
      BY <3>2, <3>3, <1>1, SameFrame
  <2>3. QED
    BY <2>1, <2>2
<1>16. fate[x] = "held"
  BY <1>4 DEF TrackerInv, HeldUntilReset, Holding
<1>17. HeldUntilReset'
  <2> SUFFICES ASSUME NEW u \in Threads, NEW i \in 1..Len(stack'[u])
               PROVE  LET d == stack'[u][i].buf IN
                      /\ stack'[u][i].pc \in Holding =>
                           /\ fate'[d] = "held"
                           /\ u = d => "worker" \in copies'[d]
                           /\ u # d => "parent" \in copies'[d]
                      /\ stack'[u][i].pc = "begin" => copies'[d] = {"parent"}
    BY DEF HeldUntilReset
  <2>1. CASE u = t /\ i = n /\ stack'[u][i] = Frame(x, "reset")
    BY <2>1 DEF Frame, Holding
  <2>2. CASE u = x /\ i = 1 /\ stack'[u][i] = Frame(x, "gate")
    BY <2>2, <1>1, <1>2, <1>3, <1>16 DEF Frame, Holding
  <2>3. CASE i \in 1..Len(stack[u]) /\ stack'[u][i] = stack[u][i] /\ stack[u][i].buf # x
    <3>1. stack[u][i] \in Frames
      <4>1. stack[u] \in Seq(Frames)
        BY <1>1
      <4>2. QED
        BY <4>1, <2>3, ElementOfSeq
    <3>2. copies'[stack[u][i].buf] = copies[stack[u][i].buf]
      BY <3>1, <2>3, <1>1, <1>3 DEF Frames
    <3>3. QED
      BY <3>2, <2>3, <1>3 DEF TrackerInv, HeldUntilReset
  <2>4. QED
    BY <1>9, <2>1, <2>2, <2>3
<1>18. copies[x] = {"parent"}
  BY <1>4 DEF TrackerInv, HeldUntilReset
<1>19. OwnersHeld'
  BY <1>1, <1>2, <1>3, <1>18 DEF TrackerInv, OwnersHeld
<1>20. SourcesHeld'
  <2> SUFFICES ASSUME NEW d \in Buffers, Source[d] # Nobody
               PROVE  /\ refs'[d] # {} => d \in refs'[Source[d]]
                      /\ \A u \in Threads : \A i \in 1..Len(stack'[u]) :
                           stack'[u][i].buf = d /\ stack'[u][i].pc \in Releasing
                             => d \in refs'[Source[d]]
    BY DEF SourcesHeld
  <2>1. CASE d = x
    <3>1. x \in refs[Source[x]]
      BY <2>1, <1>2, <1>4 DEF TrackerInv, SourcesHeld, Releasing
    <3>2. QED
      BY <3>1, <2>1, <1>3
  <2>2. CASE d # x
    <3>1. \A u \in Threads : \A i \in 1..Len(stack'[u]) :
            stack'[u][i].buf = d => i \in 1..Len(stack[u]) /\ stack'[u][i] = stack[u][i]
      BY <2>2, <1>9 DEF Frame
    <3>2. refs'[d] # {} => d \in refs'[Source[d]]
      BY <1>3 DEF TrackerInv, SourcesHeld
    <3>3. ASSUME NEW u \in Threads, NEW i \in 1..Len(stack'[u]),
                 stack'[u][i].buf = d, stack'[u][i].pc \in Releasing
          PROVE  d \in refs'[Source[d]]
      <4>1. i \in 1..Len(stack[u]) /\ stack[u][i].buf = d /\ stack[u][i].pc \in Releasing
        BY <3>1, <3>3
      <4>2. QED
        BY <4>1, <1>3 DEF TrackerInv, SourcesHeld
    <3>4. QED
      BY <3>2, <3>3
  <2>3. QED
    BY <2>1, <2>2
<1>21. x \notin Counting
  BY <1>7 DEF Counting
<1>22. ASSUME NEW d \in Buffers
       PROVE  d \in Counting' <=> d \in Counting \/ d = x
  <2>1. d \in Threads
    BY DEF Threads
  <2>2. CASE d = x
    BY <2>2, <1>8 DEF Counting, Frame
  <2>3. CASE d = t
    <3>1. n # 1
      BY <2>3, <1>4, <1>6 DEF TrackerInv, WorkersAreAtTheBottom
    <3>2. n # 0 /\ Len(stack'[t]) # 0 /\ stack'[t][1] = stack[t][1]
      BY <3>1, <1>2, <1>8
    <3>3. QED
      BY <3>2, <2>3, <1>6 DEF Counting, n
  <2>4. CASE d # x /\ d # t
    BY <2>1, <2>4, <1>8 DEF Counting
  <2>5. QED
    BY <2>2, <2>3, <2>4
<1>23. Counting' = Counting \cup {x}
  BY <1>2, <1>22 DEF Counting
<1>24. TrackerKept
  BY <1>10, <1>11, <1>12, <1>14, <1>15, <1>17, <1>19, <1>20 DEF TrackerKept
<1>25. QED
  BY <1>2, <1>8, <1>21, <1>23, <1>24 DEF x

\* count counts the workers that have something left to release; nobody else
\* decrements it.
TrackerIInv == TrackerInv /\ Counted

\* No more workers are counted than there are buffers with events.
LEMMA CountingIsFinite ==
  ASSUME WorkersAreAtTheBottom, stack \in [Threads -> Seq(Frames)]
  PROVE  /\ Counting \subseteq Async /\ IsFiniteSet(Counting)
         /\ Cardinality(Counting) \in 0..Cardinality(Async)
<1>1. Counting \subseteq Async
  <2> SUFFICES ASSUME NEW d \in Counting PROVE d \in Async
    OBVIOUS
  <2>1. d \in Buffers /\ d \in Threads /\ Len(stack[d]) # 0 /\ Len(stack[d]) \in Nat
    BY LenProperties DEF Counting, Threads
  <2>2. 1 \in 1..Len(stack[d])
    BY <2>1
  <2>3. QED
    BY <2>1, <2>2 DEF WorkersAreAtTheBottom
<1>2. IsFiniteSet(Async)
  BY TrackerAssumption, FS_Subset
<1>3. QED
  BY <1>1, <1>2, FS_Subset, FS_CardinalityType

\* The actions that leave the owners and the count alone.
LEMMA MovesKeep ==
  ASSUME TrackerIInv, NEW t \in Threads,
         DestroyInline(t) \/ SpawnFails(t) \/ Unlock(t) \/ Gate(t) \/ Synchronize(t)
           \/ ReleaseSources(t) \/ Notify(t)
  PROVE  TrackerIInv'
<1>1. /\ {"begin", "owner", "sources", "reset", "unlock", "gate", "sync", "decrement",
          "notify"} = FrameSteps
      /\ stack \in [Threads -> Seq(Frames)] /\ TrackerInv
      /\ Nobody \notin Buffers /\ Nobody \in Buffers \cup {Nobody}
      /\ fate \in [Buffers -> {"held", "home", "orphaned"}]
  BY TrackerAssumption DEF TrackerIInv, TrackerInv, TrackerTyped, FrameSteps, Threads
<1>2. \A rest : Goto(t, rest) => DropRef(t, Buf(t), Nobody, rest)
  BY DEF Goto, DropRef
<1>3. ASSUME NEW p \in FrameSteps, At(t, p)
      PROVE  /\ Buf(t) \in Buffers
             /\ p \in {"gate", "sync", "decrement"} => t = Buf(t)
             /\ p \in {"begin", "reset", "unlock"} => t # Buf(t)
  <2> DEFINE n == Len(stack[t])
  <2>1. n \in Nat /\ 0 < n /\ Buf(t) \in Buffers /\ stack[t][n] = Frame(Buf(t), p)
    BY <1>1, <1>3, StackFacts
  <2>2. n \in 1..Len(stack[t]) /\ stack[t][n].buf = Buf(t) /\ stack[t][n].pc = p
    BY <2>1 DEF Frame
  <2>3. QED
    BY <2>1, <2>2, <1>1 DEF TrackerInv, WorkersAreAtTheBottom
<1>4. ASSUME TrackerKept, TrackerTyped', Counting' = Counting, count' = count
      PROVE  TrackerIInv'
  BY <1>4 DEF TrackerIInv, TrackerInv, TrackerKept, Counted
<1>5. /\ "begin" \in FrameSteps /\ "gate" \in FrameSteps /\ "sync" \in FrameSteps
      /\ "sync" \in FrameSteps \ {"begin", "reset", "unlock", "gate"}
      /\ "owner" \in FrameSteps \ {"begin", "reset", "unlock", "gate"}
      /\ "decrement" \in FrameSteps \ {"begin", "reset", "unlock", "gate"}
      /\ "notify" \in FrameSteps \ {"begin", "reset", "unlock", "gate"}
      /\ "begin" \in Releasing /\ "gate" \in Releasing /\ "sync" \in Releasing
      /\ "begin" \in Holding /\ "gate" \in Holding /\ "sync" \in Holding
      /\ "owner" \notin {"sync", "decrement"} /\ "notify" \notin {"sync", "decrement"}
      /\ "decrement" \notin Releasing /\ "notify" \notin Releasing
      /\ "decrement" \notin Holding /\ "notify" \notin Holding
      /\ TrackerInv
  BY <1>1 DEF FrameSteps, Releasing, Holding
<1>6. CASE DestroyInline(t)
  <2>1. /\ At(t, "begin") /\ t # Buf(t) /\ Buf(t) \in Buffers
        /\ UNCHANGED <<mutex, count, wait, copies>>
    BY <1>6, <1>1, <1>3 DEF DestroyInline
  <2>2. CASE Goto(t, Continue(t, "owner")) /\ UNCHANGED fate
    <3>1. /\ TrackerKept /\ Counting' = Counting
          /\ stack' \in [Threads -> Seq(Frames)]
          /\ refs' \in [Buffers -> SUBSET ({"app"} \cup Buffers)]
      BY <2>1, <2>2, <1>5, GoesOnKeeps
    <3>2. QED
      BY <3>1, <2>1, <2>2, <1>1, <1>4 DEF TrackerInv, TrackerTyped
  <2>3. CASE Goto(t, Leave(t)) /\ fate' = [fate EXCEPT ![Buf(t)] = "orphaned"]
    <3>1. DropRef(t, Buf(t), Nobody, Leave(t))
      BY <2>3, <1>2
    <3>2. /\ TrackerKept /\ Counting' = Counting
          /\ stack' \in [Threads -> Seq(Frames)]
          /\ refs' \in [Buffers -> SUBSET ({"app"} \cup Buffers)]
      BY <3>1, <2>1, <2>3, <1>1, LeaveKeeps
    <3>3. QED
      BY <3>2, <2>1, <2>3, <1>1, <1>4 DEF TrackerInv, TrackerTyped
  <2>4. QED
    BY <1>6, <2>2, <2>3 DEF DestroyInline
<1>7. CASE SpawnFails(t)
  <2>1. /\ At(t, "begin") /\ t # Buf(t) /\ Buf(t) \in Buffers
        /\ UNCHANGED <<mutex, count, wait, copies>>
        /\ fate' = [fate EXCEPT ![Buf(t)] = "orphaned"]
        /\ Goto(t, Continue(t, "notify"))
    BY <1>7, <1>1, <1>2, <1>3 DEF SpawnFails
  <2>2. /\ TrackerKept /\ Counting' = Counting
        /\ stack' \in [Threads -> Seq(Frames)]
        /\ refs' \in [Buffers -> SUBSET ({"app"} \cup Buffers)]
    BY <2>1, <1>5, GoesOnKeeps
  <2>3. QED
    BY <2>1, <2>2, <1>1, <1>4 DEF TrackerInv, TrackerTyped
<1>8. CASE Unlock(t)
  <2>1. /\ At(t, "unlock") /\ t # Buf(t) /\ Buf(t) \in Buffers
        /\ UNCHANGED <<count, wait, copies, fate>>
        /\ mutex' = Nobody
        /\ DropRef(t, Buf(t), Nobody, Leave(t))
    BY <1>8, <1>1, <1>2, <1>3 DEF Unlock
  <2>2. /\ TrackerKept /\ Counting' = Counting
        /\ stack' \in [Threads -> Seq(Frames)]
        /\ refs' \in [Buffers -> SUBSET ({"app"} \cup Buffers)]
    BY <2>1, <1>1, LeaveKeeps
  <2>3. QED
    BY <2>1, <2>2, <1>1, <1>4 DEF TrackerInv, TrackerTyped
<1>9. CASE Gate(t)
  <2>1. /\ At(t, "gate") /\ t = Buf(t) /\ mutex = Nobody
        /\ UNCHANGED <<mutex, count, wait, copies, fate>>
        /\ Goto(t, Continue(t, "sync"))
    BY <1>9, <1>1, <1>2, <1>3 DEF Gate
  <2>2. /\ TrackerKept /\ Counting' = Counting
        /\ stack' \in [Threads -> Seq(Frames)]
        /\ refs' \in [Buffers -> SUBSET ({"app"} \cup Buffers)]
    BY <2>1, <1>5, GoesOnKeeps
  <2>3. QED
    BY <2>1, <2>2, <1>1, <1>4 DEF TrackerInv, TrackerTyped
<1>10. CASE Synchronize(t)
  <2>1. /\ At(t, "sync") /\ t = Buf(t) /\ Buf(t) \in Buffers
        /\ UNCHANGED <<mutex, count, wait, copies>>
    BY <1>10, <1>1, <1>3 DEF Synchronize
  <2>2. CASE Goto(t, Continue(t, "owner")) /\ UNCHANGED fate
    <3>1. /\ TrackerKept /\ Counting' = Counting
          /\ stack' \in [Threads -> Seq(Frames)]
          /\ refs' \in [Buffers -> SUBSET ({"app"} \cup Buffers)]
      BY <2>1, <2>2, <1>5, GoesOnKeeps
    <3>2. QED
      BY <3>1, <2>1, <2>2, <1>1, <1>4 DEF TrackerInv, TrackerTyped
  <2>3. CASE /\ Goto(t, Continue(t, "decrement"))
             /\ fate' = [fate EXCEPT ![Buf(t)] = "orphaned"]
    <3>1. /\ TrackerKept /\ Counting' = Counting
          /\ stack' \in [Threads -> Seq(Frames)]
          /\ refs' \in [Buffers -> SUBSET ({"app"} \cup Buffers)]
      BY <2>1, <2>3, <1>5, GoesOnKeeps
    <3>2. QED
      BY <3>1, <2>1, <2>3, <1>1, <1>4 DEF TrackerInv, TrackerTyped
  <2>4. QED
    BY <1>10, <2>2, <2>3 DEF Synchronize
<1>11. CASE ReleaseSources(t)
  <2> DEFINE c == Source[Buf(t)]
  <2>1. /\ At(t, "sources") /\ Buf(t) \in Buffers
        /\ UNCHANGED <<mutex, count, wait, copies, fate>>
        /\ DropRef(t, Buf(t), c, IF t = Buf(t) THEN Continue(t, "decrement") ELSE Leave(t))
    BY <1>11, <1>1, <1>3 DEF ReleaseSources
  <2>2. c \in Buffers \cup {Nobody} /\ (c # Nobody => c # Owner[Buf(t)])
    BY <2>1, TrackerAssumption
  <2>3. c # Nobody => Buf(t) \in refs[c]
    <3> DEFINE n == Len(stack[t])
    <3>1. n \in Nat /\ 0 < n /\ stack[t][n] = Frame(Buf(t), "sources")
      BY <1>1, <2>1, StackFacts
    <3>2. n \in 1..Len(stack[t]) /\ stack[t][n].buf = Buf(t) /\ stack[t][n].pc \in Releasing
      BY <3>1 DEF Frame, Releasing
    <3>3. QED
      BY <2>1, <3>2, <1>1 DEF TrackerInv, SourcesHeld
  <2> HIDE DEF c
  <2>4. /\ TrackerKept /\ Counting' = Counting
        /\ stack' \in [Threads -> Seq(Frames)]
        /\ refs' \in [Buffers -> SUBSET ({"app"} \cup Buffers)]
    <3>1. CASE t = Buf(t)
      <4>1. DropRef(t, Buf(t), c, Continue(t, "decrement"))
        BY <2>1, <3>1
      <4>2. /\ "sources" \in FrameSteps /\ "decrement" \in FrameSteps \ {"begin"}
            /\ "sources" \in Releasing /\ "decrement" \notin Releasing
            /\ "decrement" \notin Holding
        BY DEF FrameSteps, Releasing, Holding
      <4>3. /\ mutex' = mutex /\ copies' = copies /\ fate' = fate /\ TrackerInv
            /\ At(t, "sources")
        BY <2>1, <1>1
      <4>4. c # Nobody =>
              /\ Buf(t) \in refs[c] /\ "decrement" \in {"sources", "decrement"}
              /\ c # Owner[Buf(t)]
        BY <2>2, <2>3
      <4>5. QED
        BY <4>1, <4>2, <4>3, <4>4, <3>1, <2>2, ContinueKeeps
    <3>2. CASE t # Buf(t)
      <4>1. DropRef(t, Buf(t), c, Leave(t))
        BY <2>1, <3>2
      <4>2. QED
        BY <4>1, <3>2, <2>1, <2>2, <2>3, <1>1, LeaveKeeps DEF c
    <3>3. QED
      BY <3>1, <3>2
  <2>5. QED
    BY <2>1, <2>4, <1>1, <1>4 DEF TrackerInv, TrackerTyped
<1>12. CASE Notify(t)
  <2>1. /\ At(t, "notify") /\ Buf(t) \in Buffers /\ UNCHANGED <<mutex, count, copies, fate>>
        /\ DropRef(t, Buf(t), Nobody, Leave(t))
        /\ wait' = [w \in Waiters |-> IF wait[w] = "waiting" THEN "awake" ELSE wait[w]]
    BY <1>12, <1>1, <1>2, <1>3 DEF Notify
  <2>2. /\ TrackerKept /\ Counting' = Counting
        /\ stack' \in [Threads -> Seq(Frames)]
        /\ refs' \in [Buffers -> SUBSET ({"app"} \cup Buffers)]
    BY <2>1, <1>1, LeaveKeeps
  <2>3. QED
    BY <2>1, <2>2, <1>1, <1>4 DEF TrackerInv, TrackerTyped
<1>13. QED
  BY <1>6, <1>7, <1>8, <1>9, <1>10, <1>11, <1>12

\* The owners go: to the worker's copies when the parent resets its own, and home
\* with the last of them.
LEMMA OwnersKeep ==
  ASSUME TrackerIInv, NEW t \in Threads, ParentResets(t) \/ ReleaseOwner(t)
  PROVE  TrackerIInv'
<1>1. /\ {"begin", "owner", "sources", "reset", "unlock", "gate", "sync", "decrement",
          "notify"} = FrameSteps
      /\ stack \in [Threads -> Seq(Frames)] /\ TrackerInv
      /\ Nobody \notin Buffers /\ Nobody \in Buffers \cup {Nobody}
      /\ fate \in [Buffers -> {"held", "home", "orphaned"}]
      /\ copies \in [Buffers -> SUBSET {"parent", "worker"}]
  BY TrackerAssumption DEF TrackerIInv, TrackerInv, TrackerTyped, FrameSteps, Threads
<1>2. \A rest : Goto(t, rest) => DropRef(t, Buf(t), Nobody, rest)
  BY DEF Goto, DropRef
<1> DEFINE n == Len(stack[t])
           x == Buf(t)
<1>3. ASSUME NEW p \in FrameSteps, At(t, p)
      PROVE  /\ n \in 1..Len(stack[t]) /\ x \in Buffers
             /\ stack[t][n].buf = x /\ stack[t][n].pc = p
  <2>1. n \in Nat /\ 0 < n /\ Buf(t) \in Buffers /\ stack[t][n] = Frame(Buf(t), p)
    BY <1>1, <1>3, StackFacts
  <2>2. QED
    BY <2>1 DEF Frame
<1>4. ASSUME TrackerKept, TrackerTyped', Counting' = Counting, count' = count
      PROVE  TrackerIInv'
  BY <1>4 DEF TrackerIInv, TrackerInv, TrackerKept, Counted
<1>5. CASE ParentResets(t)
  <2>1. /\ At(t, "reset") /\ UNCHANGED <<mutex, count, wait>>
        /\ ResetOwner(t, "parent", Continue(t, "unlock"))
    BY <1>5 DEF ParentResets
  <2>2. /\ n \in 1..Len(stack[t]) /\ x \in Buffers
        /\ stack[t][n].buf = x /\ stack[t][n].pc = "reset"
    BY <2>1, <1>1, <1>3
  <2>3. t # x
    BY <2>2, <1>1 DEF TrackerInv, WorkersAreAtTheBottom
  <2>4. "worker" \in copies[x]
    <3>1. Len(stack[x]) # 0 /\ stack[x][1].pc = "gate" /\ x \in Threads
      BY <2>2, <1>1 DEF TrackerInv, LockHeld, Threads
    <3>2. 1 \in 1..Len(stack[x])
      <4>1. Len(stack[x]) \in Nat
        BY <1>1, <3>1, LenProperties
      <4>2. QED
        BY <3>1, <4>1
    <3>3. stack[x][1].buf = x
      BY <2>2, <3>1, <3>2, <1>1 DEF TrackerInv, WorkersAreAtTheBottom
    <3>4. QED
      BY <3>1, <3>2, <3>3, <1>1 DEF TrackerInv, HeldUntilReset, Holding
  <2>5. /\ copies' = [copies EXCEPT ![x] = @ \ {"parent"}]
        /\ DropRef(t, x, Nobody, Continue(t, "unlock")) /\ UNCHANGED fate
    BY <2>1, <2>4, <1>2 DEF ResetOwner
  <2> HIDE DEF x
  <2>6. /\ TrackerKept /\ Counting' = Counting
        /\ stack' \in [Threads -> Seq(Frames)]
        /\ refs' \in [Buffers -> SUBSET ({"app"} \cup Buffers)]
    BY <2>1, <2>2, <2>3, <2>5, <1>1, ContinueKeeps DEF x, Releasing, Holding
  <2>7. QED
    BY <2>1, <2>2, <2>5, <2>6, <1>1, <1>4 DEF TrackerInv, TrackerTyped
<1>6. CASE ReleaseOwner(t)
  <2> DEFINE holder == IF t = Buf(t) THEN "worker" ELSE "parent"
  <2>1. /\ At(t, "owner") /\ UNCHANGED <<mutex, count, wait>>
        /\ ResetOwner(t, holder, Continue(t, "sources"))
    BY <1>6 DEF ReleaseOwner
  <2>2. /\ n \in 1..Len(stack[t]) /\ x \in Buffers
        /\ stack[t][n].buf = x /\ stack[t][n].pc = "owner"
    BY <2>1, <1>1, <1>3
  <2>3. holder \in copies[x]
    BY <2>2, <1>1 DEF TrackerInv, HeldUntilReset, Holding
  <2>4. copies' = [copies EXCEPT ![x] = @ \ {holder}]
    BY <2>1 DEF ResetOwner
  <2> DEFINE c == IF copies[x] \subseteq {holder} THEN Owner[x] ELSE Nobody
  <2>5. /\ DropRef(t, x, c, Continue(t, "sources"))
        /\ fate' \in [Buffers -> {"held", "home", "orphaned"}]
        /\ \A d \in Buffers \ {x} : fate'[d] = fate[d]
    <3>1. CASE copies[x] \subseteq {holder}
      BY <3>1, <2>1, <1>1 DEF ResetOwner
    <3>2. CASE ~ (copies[x] \subseteq {holder})
      BY <3>2, <2>1, <1>1, <1>2 DEF ResetOwner
    <3>3. QED
      BY <3>1, <3>2
  <2>6. c \in Buffers \cup {Nobody}
    BY <2>2, TrackerAssumption
  <2>7. c # Nobody => x \in refs[c] /\ c # Source[x] /\ copies'[x] = {}
    <3> SUFFICES ASSUME c # Nobody PROVE x \in refs[c] /\ c # Source[x] /\ copies'[x] = {}
      OBVIOUS
    <3>1. c = Owner[x] /\ copies[x] \subseteq {holder}
      OBVIOUS
    <3>2. x \in refs[c]
      BY <3>1, <2>2, <2>3, <1>1 DEF TrackerInv, OwnersHeld
    <3>3. c # Source[x]
      BY <3>1, <2>2, TrackerAssumption
    <3>4. copies'[x] = {}
      BY <3>1, <2>2, <2>4, <1>1
    <3>5. QED
      BY <3>2, <3>3, <3>4
  <2> HIDE DEF c, holder
  <2>8. /\ TrackerKept /\ Counting' = Counting
        /\ stack' \in [Threads -> Seq(Frames)]
        /\ refs' \in [Buffers -> SUBSET ({"app"} \cup Buffers)]
    <3>1. /\ \A d \in Buffers \ {x} : copies'[d] = copies[d] /\ fate'[d] = fate[d]
          /\ copies[x] = {} => copies'[x] = {}
      BY <2>2, <2>4, <2>5, <1>1
    <3>2. "owner" \in Holding /\ "sources" \notin Holding /\ "owner" \in Releasing
      BY DEF Releasing, Holding
    <3>3. /\ c # Nobody => x \in refs[c]
          /\ c # Nobody /\ c = Source[x] =>
               "owner" \in Releasing /\ "sources" \notin Releasing
          /\ c # Nobody /\ c = Owner[x] => copies'[x] = {}
      BY <2>7
    <3>4. UNCHANGED mutex
      BY <2>1
    <3>5. "owner" \in FrameSteps /\ "sources" \in FrameSteps \ {"begin"}
      BY DEF FrameSteps
    <3>6. TrackerInv /\ At(t, "owner") /\ DropRef(t, Buf(t), c, Continue(t, "sources"))
      BY <1>1, <2>1, <2>5
    <3>7. QED
      BY <2>6, <3>1, <3>2, <3>3, <3>4, <3>5, <3>6, ContinueKeeps
  <2>9. copies' \in [Buffers -> SUBSET {"parent", "worker"}]
    BY <2>4, <1>1
  <2>10. QED
    BY <2>1, <2>5, <2>8, <2>9, <1>1, <1>4 DEF TrackerInv, TrackerTyped
<1>7. QED
  BY <1>5, <1>6

\* A worker is counted when it starts and taken off the count once, at the end of
\* its own frame.
LEMMA CountersKeep ==
  ASSUME TrackerIInv, NEW t \in Threads, Spawn(t) \/ Decrement(t)
  PROVE  TrackerIInv'
<1>1. /\ {"begin", "owner", "sources", "reset", "unlock", "gate", "sync", "decrement",
          "notify"} = FrameSteps
      /\ stack \in [Threads -> Seq(Frames)] /\ TrackerInv
      /\ Nobody \notin Buffers /\ Nobody \in Buffers \cup {Nobody}
      /\ copies \in [Buffers -> SUBSET {"parent", "worker"}]
      /\ count = Cardinality(Counting) /\ count \in Nat
  BY TrackerAssumption
  DEF TrackerIInv, TrackerInv, TrackerTyped, FrameSteps, Threads, Counted
<1>2. IsFiniteSet(Counting)
  BY <1>1, CountingIsFinite DEF TrackerInv
<1>3. CASE Spawn(t)
  <2>1. /\ TrackerKept
        /\ stack' \in [Threads -> Seq(Frames)]
        /\ Buf(t) \in Buffers /\ Buf(t) \notin Counting
        /\ Counting' = Counting \cup {Buf(t)}
    BY <1>3, <1>1, SpawnKeeps
  <2>2. mutex' = t /\ count' = count + 1 /\ UNCHANGED <<wait, refs, fate>>
        /\ copies' = [copies EXCEPT ![Buf(t)] = {"parent", "worker"}]
    BY <1>3 DEF Spawn
  <2>3. Counted'
    BY <2>1, <2>2, <1>1, <1>2, FS_AddElement DEF Counted
  <2>4. copies' \in [Buffers -> SUBSET {"parent", "worker"}]
    BY <2>1, <2>2, <1>1
  <2>5. QED
    BY <2>1, <2>2, <2>3, <2>4, <1>1 DEF TrackerIInv, TrackerInv, TrackerKept, TrackerTyped
<1>4. CASE Decrement(t)
  <2> DEFINE n == Len(stack[t])
  <2>1. /\ At(t, "decrement") /\ mutex = Nobody /\ count' = count - 1
        /\ UNCHANGED <<mutex, wait, copies, fate>>
        /\ Goto(t, Continue(t, "notify"))
    BY <1>4 DEF Decrement
  <2>2. n \in Nat /\ 0 < n /\ Buf(t) \in Buffers /\ stack[t][n] = Frame(Buf(t), "decrement")
    BY <2>1, <1>1, StackFacts
  <2>3. n \in 1..Len(stack[t]) /\ stack[t][n].buf = Buf(t) /\ stack[t][n].pc = "decrement"
    BY <2>2 DEF Frame
  <2>4. t = Buf(t)
    BY <2>3, <1>1 DEF TrackerInv, WorkersAreAtTheBottom
  <2>5. /\ TrackerKept /\ t \in Counting /\ Counting' = Counting \ {t}
        /\ stack' \in [Threads -> Seq(Frames)]
        /\ refs' \in [Buffers -> SUBSET ({"app"} \cup Buffers)]
    BY <2>1, <2>4, <1>1, GoesOnKeeps DEF Releasing, Holding
  <2>6. Counted' /\ count' \in Nat
    <3>1. Cardinality(Counting \ {t}) = Cardinality(Counting) - 1
      BY <2>5, <1>2, FS_RemoveElement
    <3>2. Cardinality(Counting \ {t}) \in Nat
      BY <1>2, FS_Subset, FS_CardinalityType
    <3>3. QED
      BY <3>1, <3>2, <2>1, <2>5, <1>1 DEF Counted
  <2>7. QED
    BY <2>1, <2>5, <2>6, <1>1 DEF TrackerIInv, TrackerInv, TrackerKept, TrackerTyped
<1>5. QED
  BY <1>3, <1>4

\* Before any reference is dropped nothing is being destroyed.
LEMMA TrackerInitKeeps == TrackerInit => TrackerIInv /\ WaitersAreTold
<1> SUFFICES ASSUME TrackerInit PROVE TrackerIInv /\ WaitersAreTold
  OBVIOUS
<1>1. /\ stack \in [Threads -> Seq(Frames)]
      /\ \A t \in Threads : stack[t] = <<>> /\ Len(stack[t]) = 0
      /\ \A t \in Threads : 1..Len(stack[t]) = {}
  BY DEF TrackerInit
<1>2. refs \in [Buffers -> SUBSET ({"app"} \cup Buffers)]
  BY DEF TrackerInit
<1>3. TrackerTyped
  BY <1>1, <1>2 DEF TrackerInit, TrackerTyped
<1>4. /\ OnlyReleasesNest /\ WorkersAreAtTheBottom /\ LockHeld
      /\ OneDestruction /\ HeldUntilReset
  BY <1>1 DEF OnlyReleasesNest, WorkersAreAtTheBottom, LockHeld, OneDestruction,
              HeldUntilReset
<1>5. Quiet
  BY <1>1 DEF Quiet, TrackerInit
<1>6. OwnersHeld
  BY TrackerAssumption DEF OwnersHeld, TrackerInit
<1>7. SourcesHeld
  BY <1>1, TrackerAssumption DEF SourcesHeld, TrackerInit
<1>8. Counting = {}
  BY <1>1 DEF Counting, Threads
<1>9. Counted
  BY <1>8, FS_EmptySet DEF Counted, TrackerInit
<1>10. WaitersAreTold
  BY DEF WaitersAreTold, TrackerInit
<1>11. QED
  BY <1>3, <1>4, <1>5, <1>6, <1>7, <1>9, <1>10 DEF TrackerIInv, TrackerInv

\* The invariant says nothing of where the waiters are.
LEMMA WaitersAreApart ==
  ASSUME TrackerIInv, UNCHANGED <<mutex, count, stack, refs, copies, fate>>,
         wait' \in [Waiters -> {"idle", "waiting", "awake", "expired"}]
  PROVE  TrackerIInv'
<1>1. TrackerTyped' /\ Counted'
  BY DEF TrackerIInv, TrackerInv, TrackerTyped, Counted, Counting
<1>2. OnlyReleasesNest' /\ WorkersAreAtTheBottom' /\ LockHeld'
  BY DEF TrackerIInv, TrackerInv, OnlyReleasesNest, WorkersAreAtTheBottom, LockHeld
<1>3. Quiet' /\ OwnersHeld' /\ SourcesHeld'
  BY DEF TrackerIInv, TrackerInv, Quiet, OwnersHeld, SourcesHeld
<1>4. OneDestruction' /\ HeldUntilReset'
  BY DEF TrackerIInv, TrackerInv, OneDestruction, HeldUntilReset
<1>5. QED
  BY <1>1, <1>2, <1>3, <1>4 DEF TrackerIInv, TrackerInv

\* Waiting changes nothing of what is waited for.
LEMMA WaitersKeep ==
  ASSUME TrackerIInv, NEW w \in Waiters, Look(w) \/ Expire(w)
  PROVE  TrackerIInv'
<1>1. /\ UNCHANGED <<mutex, count, stack, refs, copies, fate>>
      /\ wait' \in [Waiters -> {"idle", "waiting", "awake", "expired"}]
  BY DEF TrackerIInv, TrackerInv, TrackerTyped, Look, Expire, SetWait
<1>2. QED
  BY <1>1, WaitersAreApart

\* Every step keeps the invariant.
LEMMA TrackerStepKeeps == TrackerIInv /\ [TrackerNext]_trackerVars => TrackerIInv'
<1> SUFFICES ASSUME TrackerIInv, [TrackerNext]_trackerVars PROVE TrackerIInv'
  OBVIOUS
<1>1. ASSUME NEW t \in Threads, Run(t) PROVE TrackerIInv'
  BY <1>1, MovesKeep, OwnersKeep, CountersKeep DEF Run
<1>2. ASSUME NEW t \in Threads, NEW b \in Buffers, AppDrops(t, b) PROVE TrackerIInv'
  <2>1. /\ TrackerKept /\ Counting' = Counting
        /\ stack' \in [Threads -> Seq(Frames)]
        /\ refs' \in [Buffers -> SUBSET ({"app"} \cup Buffers)]
    BY <1>2, AppDropsKeeps DEF TrackerIInv
  <2>2. UNCHANGED <<mutex, count, wait, copies, fate>>
    BY <1>2 DEF AppDrops
  <2>3. QED
    BY <2>1, <2>2 DEF TrackerIInv, TrackerInv, TrackerKept, Counted, TrackerTyped
<1>3. ASSUME NEW w \in Waiters, Look(w) \/ Expire(w) PROVE TrackerIInv'
  BY <1>3, WaitersKeep
<1>4. CASE UNCHANGED trackerVars
  BY <1>4, WaitersAreApart DEF TrackerIInv, TrackerInv, TrackerTyped, trackerVars
<1>5. QED
  BY <1>1, <1>2, <1>3, <1>4 DEF TrackerNext

\* Only the thread at "notify" itself leaves it, when it has told the waiters.
LEMMA TrackerStepTells ==
  TrackerIInv /\ WaitersAreTold /\ [TrackerNext]_trackerVars => WaitersAreTold'
<1> SUFFICES ASSUME TrackerIInv, WaitersAreTold, [TrackerNext]_trackerVars,
                    NEW w \in Waiters, wait'[w] = "waiting", count' = 0
             PROVE  \E t \in Threads : At(t, "notify")'
  BY DEF WaitersAreTold
<1>1. /\ stack \in [Threads -> Seq(Frames)] /\ count \in Nat
      /\ wait \in [Waiters -> {"idle", "waiting", "awake", "expired"}]
      /\ {"begin", "owner", "sources", "reset", "unlock", "gate", "sync", "decrement",
          "notify"} = FrameSteps
  BY DEF TrackerIInv, TrackerInv, TrackerTyped, FrameSteps
<1>2. ASSUME NEW t \in Threads, NEW p \in FrameSteps \ {"notify"}, At(t, p),
             UNCHANGED <<count, wait>>, NEW x, NEW c, NEW rest, DropRef(t, x, c, rest)
      PROVE  \E u \in Threads : At(u, "notify")'
  <2>1. \A u \in Threads \ {t} : stack'[u] = stack[u]
    BY <1>1, <1>2 DEF DropRef
  <2>2. PICK u \in Threads : At(u, "notify")
    BY <1>2 DEF WaitersAreTold
  <2>3. u # t
    BY <1>2, <2>2 DEF At
  <2>4. QED
    BY <2>1, <2>2, <2>3 DEF At, Top
<1>3. \A t \in Threads : \A rest : Goto(t, rest) => DropRef(t, Buf(t), Nobody, rest)
  BY DEF Goto, DropRef
<1>4. ASSUME NEW t \in Threads,
             DestroyInline(t) \/ SpawnFails(t) \/ Unlock(t) \/ Gate(t) \/ Synchronize(t)
               \/ ReleaseSources(t) \/ ParentResets(t) \/ ReleaseOwner(t)
      PROVE  \E u \in Threads : At(u, "notify")'
  <2>1. /\ UNCHANGED <<count, wait>>
        /\ \E p \in FrameSteps \ {"notify"} : At(t, p)
    BY <1>1, <1>4 DEF DestroyInline, SpawnFails, Unlock, Gate, Synchronize, ReleaseSources,
                      ParentResets, ReleaseOwner
  <2>2. \E x, c, rest : DropRef(t, x, c, rest)
    BY <1>3, <1>4 DEF DestroyInline, SpawnFails, Unlock, Gate, Synchronize, ReleaseSources,
                      ParentResets, ReleaseOwner, ResetOwner
  <2>3. QED
    BY <1>2, <2>1, <2>2
<1>5. ASSUME NEW t \in Threads, Decrement(t)
      PROVE  \E u \in Threads : At(u, "notify")'
  <2>1. At(t, "decrement") /\ stack' = [stack EXCEPT ![t] = Continue(t, "notify")]
    BY <1>5 DEF Decrement, Goto
  <2> DEFINE n == Len(stack[t])
  <2>2. /\ n \in Nat /\ 0 < n /\ Len(Continue(t, "notify")) = n
        /\ Continue(t, "notify") \in Seq(Frames)
        /\ Continue(t, "notify")[n] = Frame(Buf(t), "notify")
    BY <1>1, <2>1, StackFacts
  <2>3. stack'[t] = Continue(t, "notify")
    BY <1>1, <2>1
  <2>4. At(t, "notify")'
    BY <2>2, <2>3 DEF At, Top, Frame
  <2>5. QED
    BY <2>4
<1>6. ASSUME NEW t \in Threads, NEW b \in Buffers, AppDrops(t, b)
      PROVE  \E u \in Threads : At(u, "notify")'
  <2>1. PICK u \in Threads : At(u, "notify")
    BY <1>6 DEF WaitersAreTold, AppDrops
  <2>2. u # t
    BY <1>6, <2>1 DEF At, AppDrops
  <2>3. stack'[u] = stack[u]
    BY <1>1, <1>6, <2>2 DEF AppDrops, DropRef
  <2>4. QED
    BY <2>1, <2>3 DEF At, Top
<1>7. ASSUME NEW t \in Threads, Spawn(t) PROVE FALSE
  BY <1>1, <1>7 DEF Spawn
<1>8. ASSUME NEW t \in Threads, Notify(t) PROVE FALSE
  BY <1>1, <1>8 DEF Notify
<1>9. ASSUME NEW v \in Waiters, Look(v) \/ Expire(v)
      PROVE  \E u \in Threads : At(u, "notify")'
  <2>1. count = 0 /\ stack' = stack /\ wait[w] = "waiting"
    BY <1>1, <1>9 DEF Look, Expire, SetWait
  <2>2. QED
    BY <2>1 DEF WaitersAreTold, At, Top
<1>10. CASE UNCHANGED trackerVars
  BY <1>10 DEF WaitersAreTold, At, Top, trackerVars
<1>11. QED
  BY <1>4, <1>5, <1>6, <1>7, <1>8, <1>9, <1>10 DEF TrackerNext, Run

\* The inductive invariant of the release threads, for any number of threads and of
\* buffers that own one another in any way.
THEOREM TrackerInvariance == TrackerSpec => [](TrackerIInv /\ WaitersAreTold)
<1>1. QED
  BY TrackerInitKeeps, TrackerStepKeeps, TrackerStepTells, PTL DEF TrackerSpec

\* The variables of the tracker have their types: its count never exceeds the
\* buffers with events.
THEOREM TrackerTypes == TrackerSpec => []TrackerTypeOK
<1>1. TrackerIInv => TrackerTypeOK
  <2> SUFFICES ASSUME TrackerIInv PROVE TrackerTypeOK
    OBVIOUS
  <2>1. TrackerTyped /\ count \in 0..Cardinality(Async)
    BY CountingIsFinite DEF TrackerIInv, TrackerInv, Counted, TrackerTyped
  <2>2. \A t \in Threads : \A i \in DOMAIN stack[t] : stack[t][i] \in Frames
    <3> SUFFICES ASSUME NEW t \in Threads, NEW i \in DOMAIN stack[t]
                 PROVE  stack[t][i] \in Frames
      OBVIOUS
    <3>1. stack[t] \in Seq(Frames)
      BY <2>1 DEF TrackerTyped
    <3>2. QED
      BY <3>1
  <2>3. QED
    BY <2>1, <2>2 DEF TrackerTypeOK, TrackerTyped, Frames, FrameSteps
<1>2. QED
  BY <1>1, TrackerInvariance, PTL

\* The frame of a thread that is at p.
LEMMA AtMeans ==
  ASSUME TrackerInv, NEW t \in Threads, NEW p \in FrameSteps, At(t, p)
  PROVE  /\ Len(stack[t]) \in 1..Len(stack[t])
         /\ stack[t][Len(stack[t])].pc = p /\ stack[t][Len(stack[t])].buf = Buf(t)
         /\ Buf(t) \in Buffers
<1>1. stack \in [Threads -> Seq(Frames)]
  BY DEF TrackerInv, TrackerTyped
<1> DEFINE n == Len(stack[t])
<1>2. n \in Nat /\ 0 < n /\ Buf(t) \in Buffers /\ stack[t][n] = Frame(Buf(t), p)
  BY <1>1, StackFacts
<1>3. n \in 1..n /\ stack[t][n].buf = Buf(t) /\ stack[t][n].pc = p
  BY <1>2 DEF Frame
<1>4. QED
  BY <1>2, <1>3

\* Behind a parent that resets its copies there is a worker with its own.
LEMMA WorkerHasCopies ==
  ASSUME TrackerIInv, NEW t \in Threads, At(t, "reset")
  PROVE  "worker" \in copies[Buf(t)]
<1>0. TrackerInv /\ "reset" \in FrameSteps /\ stack \in [Threads -> Seq(Frames)]
  BY DEF TrackerIInv, TrackerInv, TrackerTyped, FrameSteps
<1> DEFINE x == Buf(t)
<1>1. /\ Len(stack[t]) \in 1..Len(stack[t]) /\ x \in Buffers
      /\ stack[t][Len(stack[t])].pc = "reset" /\ stack[t][Len(stack[t])].buf = x
  BY <1>0, AtMeans
<1>2. Len(stack[x]) # 0 /\ stack[x][1].pc = "gate" /\ x \in Threads
  BY <1>0, <1>1 DEF TrackerInv, LockHeld, Threads
<1>3. 1 \in 1..Len(stack[x])
  <2>1. Len(stack[x]) \in Nat
    BY <1>0, <1>2, LenProperties
  <2>2. QED
    BY <1>2, <2>1
<1>4. stack[x][1].buf = x
  BY <1>0, <1>1, <1>2, <1>3 DEF TrackerInv, WorkersAreAtTheBottom
<1>5. QED
  BY <1>0, <1>2, <1>3, <1>4 DEF TrackerInv, HeldUntilReset, Holding

\* The parent's reset deletes nothing under the tracker's mutex: the worker it has
\* started waits at the gate for that mutex, and has its copies.
THEOREM NoDeleter == TrackerSpec => []NoDeleterUnderTracker
<1>1. TrackerIInv => NoDeleterUnderTracker
  BY WorkerHasCopies DEF NoDeleterUnderTracker
<1>2. QED
  BY <1>1, TrackerInvariance, PTL

\* When wait_for_pending_releases sees zero, nothing that was counted holds an
\* owner, a stream or a source any more, and no parent still resets its copies.
THEOREM ZeroIsZero == TrackerSpec => []ZeroMeansReleased
<1>1. TrackerIInv => ZeroMeansReleased
  <2> SUFFICES ASSUME TrackerIInv PROVE ZeroMeansReleased
    OBVIOUS
  <2>1. stack \in [Threads -> Seq(Frames)] /\ TrackerInv /\ "reset" \in FrameSteps
    BY DEF TrackerIInv, TrackerInv, TrackerTyped, FrameSteps
  <2>2. ASSUME NEW d \in Buffers
        PROVE  (Len(stack[d]) # 0 /\ stack[d][1].pc # "notify") <=>
               \E i \in DOMAIN stack[d] : stack[d][i].pc # "notify"
    <3>1. /\ d \in Threads /\ stack[d] \in Seq(Frames) /\ Len(stack[d]) \in Nat
          /\ DOMAIN stack[d] = 1..Len(stack[d])
      BY <2>1 DEF Threads
    <3>2. ASSUME NEW i \in 1..Len(stack[d]), stack[d][i].pc # "notify",
                 stack[d][1].pc = "notify"
          PROVE  FALSE
      <4>1. 1 \in 1..Len(stack[d]) /\ 1 # Len(stack[d])
        BY <3>1, <3>2
      <4>2. QED
        BY <4>1, <3>1, <3>2, <2>1 DEF TrackerInv, OnlyReleasesNest
    <3>3. QED
      BY <3>1, <3>2
  <2>3. Counting = {b \in Buffers : \E i \in DOMAIN stack[b] : stack[b][i].pc # "notify"}
    BY <2>2 DEF Counting
  <2>4. ASSUME mutex = Nobody, NEW t \in Threads, At(t, "reset") PROVE FALSE
    <3>1. /\ Len(stack[t]) \in 1..Len(stack[t])
          /\ stack[t][Len(stack[t])].pc = "reset"
      BY <2>1, <2>4, AtMeans
    <3>2. QED
      BY <2>1, <2>4, <3>1, TrackerAssumption DEF TrackerInv, LockHeld
  <2>5. QED
    BY <2>3, <2>4 DEF TrackerIInv, Counted, ZeroMeansReleased
<1>2. QED
  BY <1>1, TrackerInvariance, PTL

\* A waiter is not left asleep when the count has come down to zero: whoever took
\* it there, or orphaned what it could not count, has still to notify.
THEOREM NobodySleepsOn == TrackerSpec => []WaitersAreTold
<1>1. QED
  BY TrackerInvariance, PTL

\* Whether a buffer's allocation went home or was orphaned is decided once: no
\* second destructor, worker or failed start settles it again.
THEOREM FateIsFinal ==
  TrackerSpec => [][\A b \in Buffers : fate[b] # "held" => fate'[b] = fate[b]]_trackerVars
<1>1. ASSUME TrackerIInv, [TrackerNext]_trackerVars, NEW b \in Buffers, fate[b] # "held"
      PROVE  fate'[b] = fate[b]
  <2>1. /\ TrackerInv /\ fate \in [Buffers -> {"held", "home", "orphaned"}]
        /\ stack \in [Threads -> Seq(Frames)]
    BY <1>1 DEF TrackerIInv, TrackerInv, TrackerTyped
  <2>2. ASSUME NEW t \in Threads, NEW p \in Holding, At(t, p)
        PROVE  Buf(t) # b
    <3>1. p \in FrameSteps
      BY DEF Holding, FrameSteps
    <3>2. /\ Len(stack[t]) \in 1..Len(stack[t])
          /\ stack[t][Len(stack[t])].pc = p /\ stack[t][Len(stack[t])].buf = Buf(t)
      BY <2>1, <2>2, <3>1, AtMeans
    <3>3. fate[Buf(t)] = "held"
      BY <2>1, <3>2 DEF TrackerInv, HeldUntilReset
    <3>4. QED
      BY <1>1, <3>3
  <2>3. ASSUME NEW t \in Threads, DestroyInline(t) \/ SpawnFails(t) \/ Synchronize(t)
        PROVE  fate'[b] = fate[b]
    <3>1. PICK p \in Holding : At(t, p)
      BY <2>3 DEF DestroyInline, SpawnFails, Synchronize, Holding
    <3>2. Buf(t) # b
      BY <2>2, <3>1
    <3>3. QED
      BY <2>1, <2>3, <3>2 DEF DestroyInline, SpawnFails, Synchronize
  <2>4. ASSUME NEW t \in Threads, ReleaseOwner(t)
        PROVE  fate'[b] = fate[b]
    <3>1. At(t, "owner") /\ "owner" \in Holding
      BY <2>4 DEF ReleaseOwner, Holding
    <3>2. Buf(t) # b
      BY <2>2, <3>1
    <3>3. QED
      BY <2>1, <2>4, <3>2 DEF ReleaseOwner, ResetOwner
  <2>5. ASSUME NEW t \in Threads, ParentResets(t)
        PROVE  fate'[b] = fate[b]
    <3>1. "worker" \in copies[Buf(t)]
      BY <1>1, <2>5, WorkerHasCopies DEF ParentResets
    <3>2. QED
      BY <2>5, <3>1 DEF ParentResets, ResetOwner
  <2>6. QED
    BY <1>1, <2>3, <2>4, <2>5
    DEF TrackerNext, Run, Spawn, Unlock, Gate, ReleaseSources, Decrement, Notify, AppDrops,
        Look, Expire, SetWait, trackerVars
<1>2. TrackerIInv /\ [TrackerNext]_trackerVars =>
        [\A b \in Buffers : fate[b] # "held" => fate'[b] = fate[b]]_trackerVars
  BY <1>1
<1>3. QED
  BY <1>2, TrackerInvariance, PTL DEF TrackerSpec

-----------------------------------------------------------------------------
(* The node and its transport.                                              *)

\* The gate is closed before the destructor looks at the count, and once it has
\* seen zero no thread can get in again.
DrainIsFinal ==
  /\ gate = "open" <=> dtor = "notCalled"
  /\ dtor \notin {"notCalled", "closed", "waiting"} => active = 0
  /\ dtor \notin {"ioReset", "coreStopped", "over"} => io = "alive" /\ core = "running"

\* The same of the drain of the NITROS transport.
ViewsDrainIsFinal ==
  /\ dtor \in {"viewsClosed", "viewsWaiting", "viewsDrained"} => viewGate = "closed"
  /\ dtor = "viewsDrained" => views = 0
  /\ io = "destroyed" => transport # "nitros" \/ views = 0
  /\ io = "destroyed" <=> dtor \in {"ioReset", "coreStopped", "over"}

\* Only the NITROS transport has views.
ViewsAreNitros ==
  \A e \in Executors :
    at[e] \in {"viewing", "viewed", "viewLeaving"} => transport = "nitros"

NodeIInv == TypeOK /\ DrainIsFinal /\ ViewsDrainIsFinal /\ ViewsAreNitros

-----------------------------------------------------------------------------

\* Nobody inside and a count of zero are the same thing.
LEMMA CountIsInside ==
  ASSUME TypeOK
  PROVE  /\ active \in Nat /\ views \in Nat
         /\ active = 0 <=> Inside = {}
         /\ views = 0 <=> InView = {}
<1>1. IsFiniteSet(Inside) /\ IsFiniteSet(InView)
  BY ExecutorsAssumption, FS_Subset DEF Inside, InView
<1>2. active = Cardinality(Inside) /\ views = Cardinality(InView)
  BY DEF TypeOK
<1>3. QED
  BY <1>1, <1>2, FS_CardinalityType, FS_EmptySet

\* One thread in, or one thread out.
LEMMA OneMore ==
  ASSUME NEW S \in SUBSET Executors, NEW e \in Executors
  PROVE  /\ e \notin S => Cardinality(S \cup {e}) = Cardinality(S) + 1
         /\ e \in S => Cardinality(S \ {e}) = Cardinality(S) - 1
<1>1. IsFiniteSet(S)
  BY ExecutorsAssumption, FS_Subset
<1>2. QED
  BY <1>1, FS_AddElement, FS_RemoveElement

LEMMA NodeInit == Init => NodeIInv
<1> SUFFICES ASSUME Init PROVE NodeIInv
  OBVIOUS
<1>1. Inside = {} /\ InView = {}
  BY DEF Init, Inside, InView
<1>2. active = Cardinality(Inside) /\ views = Cardinality(InView)
  BY <1>1, FS_EmptySet DEF Init
<1>3. at \in [Executors -> Positions]
  BY DEF Init, Positions
<1>4. TypeOK
  BY <1>2, <1>3, TransportsAssumption DEF Init, TypeOK
<1>5. QED
  BY <1>4 DEF Init, NodeIInv, DrainIsFinal, ViewsDrainIsFinal, ViewsAreNitros

\* A step in which no thread passes a gate, either way.
LEMMA SameCounts ==
  ASSUME TypeOK, at' \in [Executors -> Positions], Inside' = Inside, InView' = InView,
         UNCHANGED <<transport, nodeVars, ioVars, dtor>>
  PROVE  TypeOK'
BY DEF TypeOK, nodeVars, ioVars

\* The steps in which a thread only moves.
LEMMA MoversKeep ==
  ASSUME NodeIInv, NEW e \in Executors, Take(e) \/ GoAstray(e) \/ ConvertFails(e)
  PROVE  NodeIInv'
<1> USE DEF NodeIInv
<1>1. CASE Take(e)
  <2>1. Inside' = Inside /\ InView' = InView /\ at' \in [Executors -> Positions]
    BY <1>1 DEF TypeOK, Take, Move, Inside, InView, Positions
  <2>2. QED
    BY <1>1, <2>1, SameCounts
    DEF Take, Move, TypeOK, nodeVars, ioVars, DrainIsFinal, ViewsDrainIsFinal, ViewsAreNitros
<1>2. CASE GoAstray(e)
  <2>1. at[e] # "leaving" \/ transport # "nitros"
    BY <1>2, CountIsInside DEF GoAstray, CallbackStored, ViewsDrainIsFinal, TypeOK, InView
  <2>2. Inside' = Inside /\ InView' = InView /\ at' \in [Executors -> Positions]
    BY <1>2, <2>1 DEF TypeOK, GoAstray, Move, Inside, InView, Positions
  <2>3. QED
    BY <1>2, <2>2, SameCounts
    DEF GoAstray, Move, TypeOK, nodeVars, ioVars, DrainIsFinal, ViewsDrainIsFinal,
        ViewsAreNitros
<1>3. CASE ConvertFails(e)
  <2>1. Inside' = Inside /\ InView' = InView /\ at' \in [Executors -> Positions]
    BY <1>3 DEF TypeOK, ConvertFails, Move, Inside, InView, Positions
  <2>2. QED
    BY <1>3, <2>1, SameCounts
    DEF ConvertFails, Move, TypeOK, nodeVars, ioVars, DrainIsFinal, ViewsDrainIsFinal,
        ViewsAreNitros
<1>4. QED
  BY <1>1, <1>2, <1>3

LEMMA EnterViewKeeps ==
  ASSUME NodeIInv, NEW e \in Executors, EnterView(e)
  PROVE  NodeIInv'
<1> USE DEF NodeIInv
<1>1. CASE viewGate = "closed" /\ Move(e, "idle") /\ UNCHANGED views
  <2>1. Inside' = Inside /\ InView' = InView /\ at' \in [Executors -> Positions]
    BY <1>1 DEF TypeOK, EnterView, Move, Inside, InView, Positions
  <2>2. QED
    BY <1>1, <2>1, SameCounts
    DEF EnterView, Move, TypeOK, nodeVars, ioVars, DrainIsFinal, ViewsDrainIsFinal,
        ViewsAreNitros
<1>2. CASE viewGate = "open" /\ Move(e, "viewing") /\ views' = views + 1
  <2>1. /\ at' \in [Executors -> Positions]
        /\ Inside' = Inside
        /\ e \notin InView /\ InView' = InView \cup {e}
    BY <1>2 DEF TypeOK, EnterView, Move, Inside, InView, Positions
  <2>2. InView \in SUBSET Executors
    BY DEF InView
  <2>3. views' = Cardinality(InView')
    BY <1>2, <2>1, <2>2, OneMore DEF TypeOK
  <2>4. TypeOK'
    BY <2>1, <2>3 DEF TypeOK, EnterView, nodeVars
  <2>5. DrainIsFinal' /\ ViewsDrainIsFinal'
    BY <1>2 DEF EnterView, CallbackStored, TypeOK, nodeVars, DrainIsFinal, ViewsDrainIsFinal
  <2>6. ViewsAreNitros'
    BY <1>2 DEF EnterView, Move, TypeOK, ViewsAreNitros
  <2>7. QED
    BY <2>4, <2>5, <2>6
<1>3. QED
  BY <1>1, <1>2 DEF EnterView

LEMMA EnterCallbackKeeps ==
  ASSUME NodeIInv, NEW e \in Executors, EnterCallback(e)
  PROVE  NodeIInv'
<1> USE DEF NodeIInv
<1>1. CASE gate = "closed" /\ Move(e, Return) /\ UNCHANGED active
  <2>1. Inside' = Inside /\ InView' = InView /\ at' \in [Executors -> Positions]
    BY <1>1 DEF TypeOK, EnterCallback, Caller, Return, Move, Inside, InView, Positions
  <2>2. TypeOK'
    BY <1>1, <2>1, SameCounts DEF EnterCallback, nodeVars, ioVars
  <2>3. QED
    BY <1>1, <2>2
    DEF EnterCallback, Return, Move, TypeOK, ioVars, DrainIsFinal, ViewsDrainIsFinal,
        ViewsAreNitros
<1>2. CASE gate = "open" /\ Move(e, "active") /\ active' = active + 1
  <2>1. /\ at' \in [Executors -> Positions]
        /\ InView' = InView
        /\ e \notin Inside /\ Inside' = Inside \cup {e}
    BY <1>2 DEF TypeOK, EnterCallback, Caller, Move, Inside, InView, Positions
  <2>2. Inside \in SUBSET Executors
    BY DEF Inside
  <2>3. active' = Cardinality(Inside')
    BY <1>2, <2>1, <2>2, OneMore DEF TypeOK
  <2>4. TypeOK'
    BY <2>1, <2>3 DEF TypeOK, EnterCallback, ioVars
  <2>5. DrainIsFinal' /\ ViewsDrainIsFinal'
    BY <1>2 DEF EnterCallback, ioVars, DrainIsFinal, ViewsDrainIsFinal
  <2>6. ViewsAreNitros'
    BY <1>2 DEF EnterCallback, Move, TypeOK, ViewsAreNitros
  <2>7. QED
    BY <2>4, <2>5, <2>6
<1>3. QED
  BY <1>1, <1>2 DEF EnterCallback

LEMMA OnTensorsKeeps ==
  ASSUME NodeIInv, NEW e \in Executors, LockInference(e) \/ OnTensorsReturns(e)
  PROVE  NodeIInv'
<1> USE DEF NodeIInv
<1>1. CASE LockInference(e)
  <2>1. Inside' = Inside /\ InView' = InView /\ at' \in [Executors -> Positions]
    BY <1>1 DEF TypeOK, LockInference, Move, Inside, InView, Positions
  <2>2. QED
    BY <1>1, <2>1
    DEF LockInference, Move, TypeOK, ioVars, DrainIsFinal, ViewsDrainIsFinal, ViewsAreNitros
<1>2. CASE OnTensorsReturns(e)
  <2>1. Inside' = Inside /\ InView' = InView /\ at' \in [Executors -> Positions]
    BY <1>2 DEF TypeOK, OnTensorsReturns, Move, Inside, InView, Positions
  <2>2. QED
    BY <1>2, <2>1
    DEF OnTensorsReturns, Move, TypeOK, ioVars, DrainIsFinal, ViewsDrainIsFinal, ViewsAreNitros
<1>3. QED
  BY <1>1, <1>2

\* Whoever leaves was inside, so the count was not zero and the destructor has
\* not passed its drain.
LEMMA LeaveCallbackKeeps ==
  ASSUME NodeIInv, NEW e \in Executors, LeaveCallback(e)
  PROVE  NodeIInv'
<1> USE DEF NodeIInv
<1>1. /\ at' \in [Executors -> Positions]
      /\ InView' = InView
      /\ e \in Inside /\ Inside' = Inside \ {e}
  BY DEF TypeOK, LeaveCallback, Move, Inside, InView, Positions
<1>2. Inside \in SUBSET Executors
  BY DEF Inside
<1>3. active' = Cardinality(Inside')
  BY <1>1, <1>2, OneMore DEF LeaveCallback, TypeOK
<1>4. TypeOK'
  BY <1>1, <1>3 DEF TypeOK, LeaveCallback, ioVars
<1>5. active # 0
  BY <1>1, CountIsInside
<1>6. DrainIsFinal' /\ ViewsDrainIsFinal'
  BY <1>5 DEF LeaveCallback, ioVars, DrainIsFinal, ViewsDrainIsFinal
<1>7. ViewsAreNitros'
  BY DEF LeaveCallback, Move, TypeOK, ViewsAreNitros
<1>8. QED
  BY <1>4, <1>6, <1>7

\* And whoever leaves a view was in it.
LEMMA LeaveViewKeeps ==
  ASSUME NodeIInv, NEW e \in Executors, LeaveView(e)
  PROVE  NodeIInv'
<1> USE DEF NodeIInv
<1>1. /\ at' \in [Executors -> Positions]
      /\ Inside' = Inside
      /\ e \in InView /\ InView' = InView \ {e}
  BY DEF TypeOK, LeaveView, Move, Inside, InView, Positions, ViewsAreNitros
<1>2. InView \in SUBSET Executors
  BY DEF InView
<1>3. views' = Cardinality(InView')
  BY <1>1, <1>2, OneMore DEF LeaveView, TypeOK
<1>4. TypeOK'
  BY <1>1, <1>3 DEF TypeOK, LeaveView, nodeVars
<1>5. views # 0
  BY <1>1, CountIsInside
<1>6. transport = "nitros"
  BY DEF LeaveView, ViewsAreNitros
<1>7. DrainIsFinal' /\ ViewsDrainIsFinal'
  BY <1>5, <1>6 DEF LeaveView, TypeOK, nodeVars, DrainIsFinal, ViewsDrainIsFinal
<1>8. ViewsAreNitros'
  BY DEF LeaveView, Move, TypeOK, ViewsAreNitros
<1>9. QED
  BY <1>4, <1>7, <1>8

LEMMA NotifiersKeep ==
  ASSUME NodeIInv, NEW e \in Executors, NotifyDrain(e) \/ NotifyViews(e)
  PROVE  NodeIInv'
<1> USE DEF NodeIInv
<1>1. CASE NotifyDrain(e)
  <2>1. Inside' = Inside /\ InView' = InView /\ at' \in [Executors -> Positions]
    BY <1>1 DEF TypeOK, NotifyDrain, Return, Move, Inside, InView, Positions
  <2>2. TypeOK'
    BY <1>1, <2>1 DEF NotifyDrain, TypeOK, nodeVars, ioVars
  <2>3. DrainIsFinal' /\ ViewsDrainIsFinal'
    BY <1>1 DEF NotifyDrain, TypeOK, nodeVars, ioVars, DrainIsFinal, ViewsDrainIsFinal
  <2>4. ViewsAreNitros'
    BY <1>1 DEF NotifyDrain, Return, Move, TypeOK, ViewsAreNitros
  <2>5. QED
    BY <2>2, <2>3, <2>4
<1>2. CASE NotifyViews(e)
  <2>1. Inside' = Inside /\ InView' = InView /\ at' \in [Executors -> Positions]
    BY <1>2 DEF TypeOK, NotifyViews, Move, Inside, InView, Positions
  <2>2. TypeOK'
    BY <1>2, <2>1 DEF NotifyViews, TypeOK, nodeVars, ioVars
  <2>3. DrainIsFinal' /\ ViewsDrainIsFinal'
    BY <1>2 DEF NotifyViews, TypeOK, nodeVars, ioVars, DrainIsFinal, ViewsDrainIsFinal
  <2>4. ViewsAreNitros'
    BY <1>2 DEF NotifyViews, Move, TypeOK, ViewsAreNitros
  <2>5. QED
    BY <2>2, <2>3, <2>4
<1>3. QED
  BY <1>1, <1>2

LEMMA DestructorKeeps ==
  ASSUME NodeIInv, CloseGate \/ Destructor
  PROVE  NodeIInv'
<1>1. Inside' = Inside /\ InView' = InView /\ at' = at /\ transport' = transport
  BY DEF CloseGate, Destructor, Drain, CloseViews, DrainViews, ResetIo, StopCore,
         DestroyMembers, Inside, InView
<1> USE <1>1 DEF NodeIInv, TypeOK, DrainIsFinal, ViewsDrainIsFinal, ViewsAreNitros, nodeVars, ioVars
<1>2. CASE CloseGate
  BY <1>2 DEF CloseGate
<1>3. CASE Drain
  BY <1>3 DEF Drain
<1>4. CASE CloseViews
  BY <1>4 DEF CloseViews
<1>5. CASE DrainViews
  BY <1>5 DEF DrainViews
<1>6. CASE ResetIo
  BY <1>6 DEF ResetIo
<1>7. CASE StopCore
  BY <1>7 DEF StopCore
<1>8. CASE DestroyMembers
  BY <1>8 DEF DestroyMembers
<1>9. QED
  BY <1>2, <1>3, <1>4, <1>5, <1>6, <1>7, <1>8 DEF Destructor

LEMMA NodeStep == NodeIInv /\ [Next]_vars => NodeIInv'
<1> SUFFICES ASSUME NodeIInv, [Next]_vars PROVE NodeIInv'
  OBVIOUS
<1>1. ASSUME NEW e \in Executors, Take(e) \/ Callback(e) PROVE NodeIInv'
  BY <1>1, MoversKeep, EnterViewKeeps, EnterCallbackKeeps, OnTensorsKeeps,
     LeaveCallbackKeeps, LeaveViewKeeps, NotifiersKeep DEF Callback
<1>2. CASE CloseGate \/ Destructor
  BY <1>2, DestructorKeeps
<1>3. CASE UNCHANGED vars
  BY <1>3 DEF vars, nodeVars, ioVars, NodeIInv, TypeOK, DrainIsFinal, ViewsDrainIsFinal,
              ViewsAreNitros, Inside, InView
<1>4. QED
  BY <1>1, <1>2, <1>3 DEF Next

\* The inductive invariant of the node: the counters count the callbacks past
\* the node's gate and the views past the transport's, and both drains are
\* final.
THEOREM Invariance == Spec => []NodeIInv
<1>1. QED
  BY NodeInit, NodeStep, PTL DEF Spec

\* The counters of CallbackState and of the NITROS transport are the numbers of
\* callbacks and views past their gates.
THEOREM TypeCorrect == Spec => []TypeOK
<1>1. NodeIInv => TypeOK
  BY DEF NodeIInv
<1>2. QED
  BY <1>1, Invariance, PTL

\* io_ is reset and the core is shut down only when no callback is inside, and
\* the NITROS io_ is destroyed only when no view is.
THEOREM CallbacksAreSafe == Spec => []ActiveCallbacksAreSafe
<1>1. NodeIInv => ActiveCallbacksAreSafe
  <2> SUFFICES ASSUME NodeIInv, NEW e \in Executors
               PROVE  /\ e \in Inside => io = "alive" /\ core = "running"
                      /\ at[e] \in {"viewing", "viewed"} => io = "alive"
    BY DEF ActiveCallbacksAreSafe, Inside
  <2>1. CASE e \in Inside
    <3>1. active # 0
      BY <2>1, CountIsInside DEF NodeIInv
    <3>2. QED
      BY <2>1, <3>1 DEF NodeIInv, DrainIsFinal, TypeOK, Inside
  <2>2. CASE at[e] \in {"viewing", "viewed"}
    <3>1. transport = "nitros" /\ e \in InView
      BY <2>2 DEF NodeIInv, ViewsAreNitros, InView
    <3>2. views # 0
      BY <3>1, CountIsInside DEF NodeIInv
    <3>3. QED
      BY <2>2, <3>1, <3>2 DEF NodeIInv, ViewsDrainIsFinal, TypeOK, Inside
  <2>3. QED
    BY <2>1, <2>2
<1>2. QED
  BY <1>1, Invariance, PTL
=============================================================================
