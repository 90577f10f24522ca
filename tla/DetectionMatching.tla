-------------------------- MODULE DetectionMatching --------------------------
(***************************************************************************)
(* What the two tools that compare detections compute: the IoU of two      *)
(* boxes, the greedy matching of two frames, and, for the offline tool     *)
(* (compare_detection2d_bags.py), the filters, the pairing of the frames   *)
(* of two bags and the summary it reports.                                 *)
(*                                                                         *)
(* A detection is [cx, cy, w, h, result]; result is None or [class,        *)
(* score], the first hypothesis.  Numbers are integers, or NotFinite for   *)
(* NaN and the infinities; they are taken to be small enough that the area *)
(* and the corners of a box do not overflow a double, and IoUs are         *)
(* compared as exact fractions.  A message is [sec, nanosec, dets].        *)
(***************************************************************************)
EXTENDS Integers, Sequences, FiniteSets, Functions

CONSTANTS
  NotFinite,       \* a float that is not finite
  None,            \* Python's None
  NanosPerSecond,  \* 1_000_000_000
  DetectionType    \* vision_msgs/msg/Detection2DArray

ASSUME NanosAssumption == NanosPerSecond \in Nat \ {0} /\ NotFinite \notin Int

Numbers == Int \cup {NotFinite}
Detections == [cx : Numbers, cy : Numbers, w : Numbers, h : Numbers,
               result : {None} \cup [class : STRING, score : Numbers]]

Least(a, b) == IF a < b THEN a ELSE b
Greatest(a, b) == IF a > b THEN a ELSE b

----------------------------------------------------------------------------
(* One detection                                                            *)

\* detection_score() and detection_class_id(): None without a hypothesis.
ScoreOf(d) == IF d.result = None THEN None ELSE d.result.score
ClassOf(d) == IF d.result = None THEN None ELSE d.result.class

\* to_xyxy() and detection_score() raise for what is not readable.
Readable(d) ==
  /\ NotFinite \notin {d.cx, d.cy, d.w, d.h, ScoreOf(d)}
  /\ d.w >= 0
  /\ d.h >= 0

\* to_xyxy(), all coordinates doubled: an IoU does not depend on the scale.
Box(d) == <<2 * d.cx - d.w, 2 * d.cy - d.h, 2 * d.cx + d.w, 2 * d.cy + d.h>>

\* iou(), a fraction <<numerator, denominator>>.
IoU(a, b) ==
  LET iw    == Greatest(0, Least(a[3], b[3]) - Greatest(a[1], b[1]))
      ih    == Greatest(0, Least(a[4], b[4]) - Greatest(a[2], b[2]))
      union == (a[3] - a[1]) * (a[4] - a[2]) + (b[3] - b[1]) * (b[4] - b[2]) - iw * ih
  IN  IF union > 0 THEN <<iw * ih, union>> ELSE <<0, 1>>

Above(p, q) == p[1] * q[2] > q[1] * p[2]
Ties(p, q)  == p[1] * q[2] = q[1] * p[2]

----------------------------------------------------------------------------
(* Two frames                                                               *)

PairIoU(ref, cand, p) == IoU(Box(ref[p[1]]), Box(cand[p[2]]))

\* The greedy loop of both tools over the sorted pairs: a pair is taken
\* unless one of its two detections has been used.  before is the order of the
\* pairs, a relation.
Greedy(pairs, before) ==
  LET taken[S \in SUBSET pairs] ==
        IF S = {} THEN {}
        ELSE LET first == CHOOSE p \in S : \A q \in S \ {p} : <<p, q>> \in before
             IN  {first} \cup taken[{q \in S : q[1] # first[1] /\ q[2] # first[2]}]
  IN  taken[pairs]

\* match_detections(): only pairs that overlap; falling IoU, then the index of
\* the reference detection, then that of the candidate.
ReferenceOrder(ref, cand, p, q) ==
  \/ Above(PairIoU(ref, cand, p), PairIoU(ref, cand, q))
  \/ /\ Ties(PairIoU(ref, cand, p), PairIoU(ref, cand, q))
     /\ p[1] < q[1] \/ (p[1] = q[1] /\ p[2] < q[2])

MatchDetections(ref, cand, classAware) ==
  LET pairs == {p \in (DOMAIN ref) \X (DOMAIN cand) :
                  /\ classAware => ClassOf(ref[p[1]]) = ClassOf(cand[p[2]])
                  /\ PairIoU(ref, cand, p)[1] > 0}
  IN  Greedy(pairs, {r \in pairs \X pairs : ReferenceOrder(ref, cand, r[1], r[2])})

BothClassified(ref, cand, p) == None \notin {ClassOf(ref[p[1]]), ClassOf(cand[p[2]])}
SameClass(ref, cand, p)      == ClassOf(ref[p[1]]) = ClassOf(cand[p[2]])

\* compare_frame(): the counts of a FrameComparison.
CompareFrame(ref, cand, classAware) ==
  LET matching == MatchDetections(ref, cand, classAware)
      samples  == {p \in matching : BothClassified(ref, cand, p)}
  IN  [matched        |-> Cardinality(matching),
       unmatchedRef   |-> Len(ref) - Cardinality(matching),
       unmatchedCand  |-> Len(cand) - Cardinality(matching),
       classMatches   |-> Cardinality({p \in samples : SameClass(ref, cand, p)}),
       classSamples   |-> Cardinality(samples)]

----------------------------------------------------------------------------
(* The offline tool: options, bags, frames                                  *)

\* resolve_detection_topic() and the type check of read_detection_frames():
\* types maps the topics of a bag to their types.
DetectionTopics(types) == {t \in DOMAIN types : types[t] = DetectionType}

TopicResolves(types, requested) ==
  IF requested = "auto" THEN Cardinality(DetectionTopics(types)) = 1
                        ELSE requested \in DetectionTopics(types)

\* filter_detections() validates its options first.
FiltersValid(options) == options.minScore # NotFinite /\ options.limit >= 0

\* Its top K: falling score, unscored detections last, equal keys in their order
\* (sort(reverse=True) is stable).
RanksBefore(dets, i, j) ==
  LET a == ScoreOf(dets[i])
      b == ScoreOf(dets[j])
      equal == a = b
  IN  \/ a # None /\ b = None
      \/ None \notin {a, b} /\ a > b
      \/ equal /\ i < j

Rank(kept, before, i) == 1 + Cardinality({j \in kept : <<j, i>> \in before})

Filter(dets, options) ==
  LET Passes(d) == options.minScore = None
                   \/ (ScoreOf(d) # None /\ ScoreOf(d) >= options.minScore)
      kept   == {i \in DOMAIN dets : Passes(dets[i])}
      before == {r \in kept \X kept : IF options.limit = 0 THEN r[1] < r[2]
                                      ELSE RanksBefore(dets, r[1], r[2])}
      size   == IF options.limit = 0 THEN Cardinality(kept)
                ELSE Least(options.limit, Cardinality(kept))
  IN  [k \in 1..size |-> dets[CHOOSE i \in kept : Rank(kept, before, i) = k]]

\* Mutant of StampNs: the nanoseconds are dropped.
StampNs_WholeSeconds(m) == m.sec * NanosPerSecond

\* stamp_key().
StampNs(m) == m.sec * NanosPerSecond + m.nanosec

\* Mutant of CanRead: what a filter drops is not validated.
CanRead_Filtered(bag, options) ==
  /\ TopicResolves(options.types, options.topic)
  /\ \A k \in DOMAIN bag : \A i \in DOMAIN bag[k].dets :
       LET d == bag[k].dets[i]
       IN  Readable(d) \/ (options.minScore # None /\ ScoreOf(d) < options.minScore)

\* read_detection_frames(): every detection is validated before it is filtered.
CanRead(bag, options) ==
  /\ TopicResolves(options.types, options.topic)
  /\ \A k \in DOMAIN bag : \A i \in DOMAIN bag[k].dets : Readable(bag[k].dets[i])

ReadFrames(bag, options) ==
  [k \in DOMAIN bag |-> [stamp |-> StampNs(bag[k]), dets |-> Filter(bag[k].dets, options)]]

----------------------------------------------------------------------------
(* Two bags                                                                 *)

\* pair_frames(): by index, or by stamp with frames of one stamp in bag order.
EqualStampsBefore(frames, k) == Cardinality({l \in 1..(k - 1) : frames[l].stamp = frames[k].stamp})

\* Mutant of PairFrames: the queue of a stamp is not popped.
PairFrames_NeverPops(ref, cand, policy) ==
  {p \in (DOMAIN ref) \X (DOMAIN cand) :
     IF policy = "index" THEN p[1] = p[2]
     ELSE ref[p[1]].stamp = cand[p[2]].stamp /\ EqualStampsBefore(cand, p[2]) = 0}

PairFrames(ref, cand, policy) ==
  IF policy = "index"
  THEN {<<k, k>> : k \in DOMAIN ref \cap DOMAIN cand}
  ELSE {p \in (DOMAIN ref) \X (DOMAIN cand) :
          /\ ref[p[1]].stamp = cand[p[2]].stamp
          /\ EqualStampsBefore(ref, p[1]) = EqualStampsBefore(cand, p[2])}

\* unpaired_detection_counts(), of one side of the pairs.
UnpairedFrames(frames, paired) == DOMAIN frames \ paired
UnpairedDetections(frames, paired) ==
  SumFunction([k \in UnpairedFrames(frames, paired) |-> Len(frames[k].dets)])

\* summarize(), what it counts.
Summarize(ref, cand, pairs, classAware) ==
  LET Frame(p) == CompareFrame(ref[p[1]].dets, cand[p[2]].dets, classAware)
      pairedRef  == {p[1] : p \in pairs}
      pairedCand == {p[2] : p \in pairs}
  IN  [paired         |-> Cardinality(pairs),
       unpairedRef    |-> Cardinality(UnpairedFrames(ref, pairedRef)),
       unpairedCand   |-> Cardinality(UnpairedFrames(cand, pairedCand)),
       matched        |-> SumFunction([p \in pairs |-> Frame(p).matched]),
       unmatchedRef   |-> UnpairedDetections(ref, pairedRef)
                           + SumFunction([p \in pairs |-> Frame(p).unmatchedRef]),
       unmatchedCand  |-> UnpairedDetections(cand, pairedCand)
                           + SumFunction([p \in pairs |-> Frame(p).unmatchedCand]),
       classMatches   |-> SumFunction([p \in pairs |-> Frame(p).classMatches]),
       classSamples   |-> SumFunction([p \in pairs |-> Frame(p).classSamples])]

\* main() up to the report: an exception becomes a report of status ERROR.
OfflineReport(refBag, candBag, options) ==
  IF ~(FiltersValid(options) /\ CanRead(refBag, options) /\ CanRead(candBag, options))
  THEN [status |-> "ERROR"]
  ELSE LET ref  == ReadFrames(refBag, options)
           cand == ReadFrames(candBag, options)
       IN  [status  |-> "REPORT_ONLY",
            summary |-> Summarize(ref, cand, PairFrames(ref, cand, options.policy),
                                  options.classAware)]
=============================================================================
