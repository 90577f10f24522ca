------------------------- MODULE DetectionValidation -------------------------
(***************************************************************************)
(* The two tools on the same data: the live DetectionComparator, and then  *)
(* compare_detection2d_bags.py on bags of the two topics, with any of the  *)
(* given options.  A bag records what the topic carried, also what the     *)
(* live tool has refused.                                                  *)
(***************************************************************************)
EXTENDS DetectionComparator

CONSTANTS
  Options   \* command lines of the offline tool: [policy, classAware, minScore,
            \* limit, topic, types]

ASSUME OptionsAssumption ==
  /\ None \notin Options /\ None \notin {0, 1}
  /\ \A o \in Options : o.limit \in Int /\ o.minScore \in Numbers \cup {None}

VARIABLES
  options,  \* args of main(), or None before it runs
  report,   \* what main() is going to write
  file,     \* --output-json: absent, stale, partial, or the report's status
  exit      \* the exit status, or None

offline == <<options, report, file, exit>>

OfflineInit ==
  /\ options = None
  /\ report = None
  /\ file \in {"absent", "stale"}
  /\ exit = None

\* main() of the offline tool, up to the report.
CompareBags(o) ==
  /\ phase \in {"reported", "failed"}
  /\ options = None
  /\ options' = o
  /\ report' = OfflineReport(bags["a"], bags["b"], o)
  /\ UNCHANGED <<file, exit, vars>>

\* write_report(): opened for writing, then dumped.  An error report, and a
\* report that cannot be written, make the exit status 1.
WriteReport ==
  /\ report # None /\ exit = None
  /\ file' = report.status
  /\ exit' = IF report.status = "ERROR" THEN 1 ELSE 0
  /\ UNCHANGED <<options, report, vars>>

WriteFails ==
  /\ report # None /\ exit = None
  /\ file' \in {file, "partial"}
  /\ exit' = 1
  /\ UNCHANGED <<options, report, vars>>

ValidationInit == Init /\ OfflineInit

ValidationNext ==
  \/ Next /\ UNCHANGED offline
  \/ \E o \in Options : CompareBags(o)
  \/ WriteReport
  \/ WriteFails

ValidationSpec == ValidationInit /\ [][ValidationNext]_<<vars, offline>>

----------------------------------------------------------------------------
Compared == options # None /\ report.status = "REPORT_ONLY"

\* The summary accounts for every frame of the bags and every detection the
\* filters leave, each once, with stamps that repeat, either pairing policy, and
\* matchings that classes restrict.
OfflineConserves ==
  Compared =>
    LET kept(s)  == ReadFrames(bags[s], options)
        Left(s)  == SumFunction([k \in DOMAIN bags[s] |-> Len(kept(s)[k].dets)])
        summary  == report.summary
    IN  /\ summary.paired + summary.unpairedRef = Len(bags["a"])
        /\ summary.paired + summary.unpairedCand = Len(bags["b"])
        /\ summary.matched + summary.unmatchedRef = Left("a")
        /\ summary.matched + summary.unmatchedCand = Left("b")

\* With its defaults the offline tool pairs the frames the live tool has paired,
\* if no topic repeats a stamp, although one looks stamps up as messages come
\* and the other queues a whole bag.  They break equal IoUs differently (falling
\* and rising positions); where no two pairs that share a detection tie, they
\* match the same detections too.
NoConflictTies(dets, other) ==
  LET overlaps == {p \in (DOMAIN dets) \X (DOMAIN other) : PairIoU(dets, other, p)[1] > 0}
  IN  \A p, q \in overlaps :
        /\ p # q
        /\ p[1] = q[1] \/ p[2] = q[2]
        => ~Ties(PairIoU(dets, other, p), PairIoU(dets, other, q))

Unfiltered(o) == /\ o.policy = "stamp"
                 /\ o.minScore = None
                 /\ o.limit = 0
                 /\ ~o.classAware

AgreesWithOffline ==
  (Compared /\ Unfiltered(options) /\ ~dataError /\ UniqueStamps) =>
    LET summary == report.summary
    IN  /\ summary.paired = frames.paired
        /\ summary.unpairedRef = UnmatchedFrames("a")
        /\ summary.unpairedCand = UnmatchedFrames("b")
        /\ (\A p \in StampPairs : NoConflictTies(bags["a"][p[1]].dets, bags["b"][p[2]].dets)) =>
             /\ summary.matched = detections.matched
             /\ summary.unmatchedRef = UnmatchedDetections("a")
             /\ summary.unmatchedCand = UnmatchedDetections("b")
             /\ summary.classMatches = observations.matches
             /\ summary.classSamples = observations.matches + observations.mismatches

\* Neither tool draws conclusions from data that is not readable: the live tool
\* ends without a report, and the offline tool with an error, even when a filter
\* would have dropped the detection ("bad observations cannot disappear behind a
\* score threshold"); its exit status 0 means a whole report on the disk.
BadDataIsNotReported ==
  /\ phase = "reported" =>
       \A s \in Sides : \A k \in DOMAIN bags[s] : ValidMessage(bags[s][k])
  /\ exit = 0 =>
       /\ file = "REPORT_ONLY"
       /\ \A s \in Sides : \A k \in DOMAIN bags[s] : \A i \in DOMAIN bags[s][k].dets :
            Readable(bags[s][k].dets[i])
=============================================================================
