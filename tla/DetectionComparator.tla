------------------------- MODULE DetectionComparator -------------------------
(***************************************************************************)
(* DetectionComparator (compare_detections.py): the node that pairs the    *)
(* messages of two topics by their stamps as they arrive, and counts what  *)
(* the matching of the paired frames finds.  One thread spins the node, a  *)
(* callback at a time, until the deadline.                                 *)
(*                                                                         *)
(* A message arrives on either topic at any time; a message of a topic is  *)
(* also what a bag of that topic holds (bags), which is what the offline   *)
(* tool compares in DetectionValidation.                                   *)
(***************************************************************************)
EXTENDS DetectionMatching

CONSTANTS
  Messages,   \* what the topics may carry
  MaxFrames   \* bound of the model: messages on one topic

ASSUME ComparatorAssumption ==
  /\ MaxFrames \in Nat
  /\ Messages \subseteq [sec : Int, nanosec : Int, dets : Seq(Detections)]

Sides == {"a", "b"}
Other(side) == IF side = "a" THEN "b" ELSE "a"

VARIABLES
  buf,           \* buf_a and buf_b: the message pending under a stamp
  frames,        \* counted frames: received, unpaired (by side), paired
  detections,    \* counted detections: received, paired, unmatched, unpaired
                 \* (by side), matched
  observations,  \* class_matches, class_mismatches, class_unavailable, and the
                 \* lengths of frame_ious and frame_score_deltas
  dataError,     \* data_error is set
  phase,         \* of main(): spinning, spun, reported, failed
  bags           \* every message received, by topic

counters == <<frames, detections, observations>>
vars == <<buf, frames, detections, observations, dataError, phase, bags>>

StampKey(m) == <<m.sec, m.nanosec>>

\* validate_detection_array().
ValidMessage(m) ==
  /\ m.nanosec \in 0..(NanosPerSecond - 1)
  /\ \A i \in DOMAIN m.dets : Readable(m.dets[i])

----------------------------------------------------------------------------
(* match_frame()                                                            *)

\* Mutant of ArrivalOrder: sorted by the IoU and the first index only, the second
\* one keeps its rising order.
ArrivalOrder_Stable(msg, other, p, q) ==
  \/ Above(PairIoU(msg, other, p), PairIoU(msg, other, q))
  \/ /\ Ties(PairIoU(msg, other, p), PairIoU(msg, other, q))
     /\ p[1] > q[1] \/ (p[1] = q[1] /\ p[2] < q[2])

\* pairs.sort(reverse=True): falling IoU, then falling indices.
ArrivalOrder(msg, other, p, q) ==
  \/ Above(PairIoU(msg, other, p), PairIoU(msg, other, q))
  \/ /\ Ties(PairIoU(msg, other, p), PairIoU(msg, other, q))
     /\ p[1] > q[1] \/ (p[1] = q[1] /\ p[2] > q[2])

MatchFrame(msg, other) ==
  LET pairs == {p \in (DOMAIN msg) \X (DOMAIN other) : PairIoU(msg, other, p)[1] > 0}
  IN  Greedy(pairs, {r \in pairs \X pairs : ArrivalOrder(msg, other, r[1], r[2])})

\* What a matching adds to the observations.
Observe(msg, other, matching) ==
  LET scored == {p \in matching : BothClassified(msg, other, p)}
      same   == {p \in scored : SameClass(msg, other, p)}
  IN  [matches     |-> Cardinality(same),
       mismatches  |-> Cardinality(scored \ same),
       unavailable |-> Cardinality(matching \ scored),
       ious        |-> IF matching = {} THEN 0 ELSE 1,
       deltas      |-> IF scored = {} THEN 0 ELSE 1]

AddRecords(r, s) == [f \in DOMAIN r |-> r[f] + s[f]]
Put(f, key, m)   == [k \in DOMAIN f \cup {key} |-> IF k = key THEN m ELSE f[k]]

----------------------------------------------------------------------------
NoFrames     == [received |-> [s \in Sides |-> 0], unpaired |-> [s \in Sides |-> 0], paired |-> 0]
NoDetections == [received  |-> [s \in Sides |-> 0], paired   |-> [s \in Sides |-> 0],
                 unmatched |-> [s \in Sides |-> 0], unpaired |-> [s \in Sides |-> 0],
                 matched   |-> 0]
NothingSeen  == [f \in {"matches", "mismatches", "unavailable", "ious", "deltas"} |-> 0]

Init ==
  /\ buf = [s \in Sides |-> [k \in {} |-> None]]
  /\ frames = NoFrames
  /\ detections = NoDetections
  /\ observations = NothingSeen
  /\ dataError = FALSE
  /\ phase = "spinning"
  /\ bags = [s \in Sides |-> <<>>]

\* One callback of spin_once: _on() of a topic with its next message.
Arrive(side, m) ==
  /\ phase = "spinning"
  /\ Len(bags[side]) < MaxFrames
  /\ phase' = "spun"
  /\ bags' = [bags EXCEPT ![side] = Append(@, m)]

Reject(side, m) ==
  /\ Arrive(side, m)
  /\ ~ValidMessage(m)
  /\ dataError' = TRUE
  /\ UNCHANGED <<buf, counters>>

\* The other topic's message of this stamp is pending: match the two.
Pair(side, m) ==
  LET other    == buf[Other(side)][StampKey(m)]
      matching == MatchFrame(m.dets, other.dets)
  IN  /\ Arrive(side, m)
      /\ ValidMessage(m)
      /\ StampKey(m) \in DOMAIN buf[Other(side)]
      /\ buf' = [buf EXCEPT ![Other(side)] = Restrict(@, (DOMAIN @) \ {StampKey(m)})]
      /\ frames' = [frames EXCEPT !.received[side] = @ + 1, !.paired = @ + 1]
      /\ detections' =
           [detections EXCEPT
              !.received[side] = @ + Len(m.dets),
              !.paired = [s \in Sides |-> @[s] + Len(IF s = side THEN m.dets ELSE other.dets)],
              !.unmatched = [s \in Sides |-> @[s] + Len(IF s = side THEN m.dets ELSE other.dets)
                                                  - Cardinality(matching)],
              !.matched = @ + Cardinality(matching)]
      /\ observations' = AddRecords(observations, Observe(m.dets, other.dets, matching))
      /\ UNCHANGED dataError

\* Mutant of Keep: the message that is replaced is not counted.
Keep_Forgets(side, m) ==
  /\ Arrive(side, m)
  /\ ValidMessage(m)
  /\ StampKey(m) \notin DOMAIN buf[Other(side)]
  /\ buf' = [buf EXCEPT ![side] = Put(@, StampKey(m), m)]
  /\ frames' = [frames EXCEPT !.received[side] = @ + 1]
  /\ detections' = [detections EXCEPT !.received[side] = @ + Len(m.dets)]
  /\ UNCHANGED <<observations, dataError>>

\* Otherwise it waits; a message it replaces will never be paired.
Keep(side, m) ==
  LET replaced == IF StampKey(m) \in DOMAIN buf[side] THEN 1 ELSE 0
      lost     == IF replaced = 1 THEN Len(buf[side][StampKey(m)].dets) ELSE 0
  IN  /\ Arrive(side, m)
      /\ ValidMessage(m)
      /\ StampKey(m) \notin DOMAIN buf[Other(side)]
      /\ buf' = [buf EXCEPT ![side] = Put(@, StampKey(m), m)]
      /\ frames' = [frames EXCEPT !.received[side] = @ + 1, !.unpaired[side] = @ + replaced]
      /\ detections' = [detections EXCEPT !.received[side] = @ + Len(m.dets),
                                          !.unpaired[side] = @ + lost]
      /\ UNCHANGED <<observations, dataError>>

\* main() after spin_once(): raise, or look at the clock again.
Check ==
  /\ phase = "spun"
  /\ phase' = IF dataError THEN "failed" ELSE "spinning"
  /\ UNCHANGED <<buf, counters, dataError, bags>>

\* The time is up: report() and exit 0.
Deadline ==
  /\ phase = "spinning"
  /\ phase' = "reported"
  /\ UNCHANGED <<buf, counters, dataError, bags>>

\* The ROS context is shut down: the loop raises.
ContextDown ==
  /\ phase = "spinning"
  /\ phase' = "failed"
  /\ UNCHANGED <<buf, counters, dataError, bags>>

Next ==
  \/ \E side \in Sides, m \in Messages : Reject(side, m) \/ Pair(side, m) \/ Keep(side, m)
  \/ Check
  \/ Deadline
  \/ ContextDown

Spec == Init /\ [][Next]_vars

----------------------------------------------------------------------------
(* summary()                                                                *)

PendingFrames(side) == Cardinality(DOMAIN buf[side])
PendingDetections(side) ==
  SumFunction([k \in DOMAIN buf[side] |-> Len(buf[side][k].dets)])

UnmatchedFrames(side)     == frames.unpaired[side] + PendingFrames(side)
UnmatchedDetections(side) ==
  detections.unmatched[side] + detections.unpaired[side] + PendingDetections(side)

----------------------------------------------------------------------------
(* Properties                                                               *)

\* A stamp is never pending on both topics: the later of two equal stamps is
\* paired at once, so no pair can be missed (_on looks at other_buf first).
NeverBothPending == DOMAIN buf["a"] \cap DOMAIN buf["b"] = {}

\* Whatever the order of arrival, with stamps that repeat and messages that are
\* replaced, every frame and every detection received is in exactly one of the
\* counts of the report: paired, replaced or pending; matched or unmatched.
FramesConserved ==
  \A s \in Sides : frames.received[s] = frames.paired + UnmatchedFrames(s)

EverythingIsCounted ==
  /\ FramesConserved
  /\ \A s \in Sides : /\ detections.received[s] = detections.matched + UnmatchedDetections(s)
                      /\ detections.paired[s] = detections.matched + detections.unmatched[s]
  /\ observations.matches + observations.mismatches + observations.unavailable
       = detections.matched

\* While no topic repeats a stamp, the counts are a function of what the topics
\* carried.  The matching of a pair is computed with the later message first
\* ("existing arrival-order matching behavior"), and equal IoUs are broken by
\* position in that order, yet neither changes what is matched.
UniqueStamps ==
  \A s \in Sides : \A k, l \in DOMAIN bags[s] :
    StampKey(bags[s][k]) = StampKey(bags[s][l]) => k = l

StampPairs ==
  {p \in (DOMAIN bags["a"]) \X (DOMAIN bags["b"]) :
     StampKey(bags["a"][p[1]]) = StampKey(bags["b"][p[2]])}

TotalsIgnoreArrivalOrder ==
  LET DetsA(p)    == bags["a"][p[1]].dets
      DetsB(p)    == bags["b"][p[2]].dets
      Matching(p) == MatchFrame(DetsA(p), DetsB(p))
  IN  (~dataError /\ UniqueStamps) =>
        /\ frames.paired = Cardinality(StampPairs)
        /\ \A s \in Sides : UnmatchedFrames(s) = Len(bags[s]) - Cardinality(StampPairs)
        /\ detections.matched 
             = SumFunction([p \in StampPairs |-> Cardinality(Matching(p))])
        /\ \A f \in DOMAIN observations :
             observations[f]
               = SumFunction([p \in StampPairs |-> Observe(DetsA(p), DetsB(p), Matching(p))[f]])
=============================================================================
