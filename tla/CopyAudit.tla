------------------------------ MODULE CopyAudit ------------------------------
(***************************************************************************)
(* The judgements of the copy audit on two lanes of normalized events:     *)
(* build_pair_report() of copy_audit_common.py (a managed lane against its *)
(* reference) and compare() of compare_nvidia_copy_traces.py (Config D     *)
(* against Config C).                                                      *)
(*                                                                         *)
(* The arguments of a report are a record:                                 *)
(*   payload             tensor sizes                                      *)
(*   refFrames, manFrames   frames of each lane, or None                   *)
(*   adapters, required  expected adapter directions, must they be seen    *)
(*   evidence            boundary evidence: None or [confirmed, flag,      *)
(*                       unresolved, resolvedKernels]; the first and third *)
(*                       are a JSON list ("empty", "list") or a boolean    *)
(*   risks               kernels named on the command line                 *)
(*   bindings            None or [reference, managed]: binding reports     *)
(* A binding report is None or [first, inputs, outputs]; its records are   *)
(* [fields, lifetime, bytes].                                              *)
(***************************************************************************)
EXTENDS TraceEvents
LOCAL INSTANCE FiniteSetsExt

CONSTANTS
  CopyLikeKernels   \* kernel names that looks_like_payload_kernel() suspects

----------------------------------------------------------------------------
(* summarize_events()                                                       *)

OfType(events, type) == {i \in DOMAIN events : events[i].type = type}
KernelsOf(events)    == {events[i].operation : i \in OfType(events, "kernel")}
CopiesOf(events)     == {events[i] : i \in OfType(events, "memory_copy")}

KernelCount(events, name) ==
  Cardinality({i \in OfType(events, "kernel") : events[i].operation = name})
CopyCount(events, sig) ==
  Cardinality({i \in OfType(events, "memory_copy") : Signature(events[i]) = sig})
PayloadCount(events, size, direction) ==
  Cardinality({i \in OfType(events, "memory_copy") : /\ events[i].bytes = size
                                                     /\ events[i].direction = direction})

SignaturesOf(events) == {Signature(e) : e \in CopiesOf(events)}
DirectionsOf(events) == {e.direction : e \in CopiesOf(events)}
PayloadsOf(events, payload) ==
  {<<e.bytes, e.direction>> : e \in {c \in CopiesOf(events) : c.bytes \in payload}}
Unsized(events)      == {e \in CopiesOf(events) : e.bytes = None}
Explainable(events)  == KernelsOf(events) # {} \/ CopiesOf(events) # {}

BytesMoved(events, direction) ==
  LET Bytes(i) == IF events[i].bytes = None THEN 0 ELSE events[i].bytes
  IN  MapThenSumSet(Bytes, {i \in OfType(events, "memory_copy") : events[i].direction = direction})
CopiesMoved(events, direction) ==
  Cardinality({i \in OfType(events, "memory_copy") : events[i].direction = direction})

----------------------------------------------------------------------------
(* Evidence from outside the traces                                         *)

\* _evidence_flags(): list() of a boolean raises a TypeError.
EvidenceRaises(evidence) ==
  evidence # None /\ evidence.flag /\ evidence.confirmed \in {"true", "false"}
Confirmed(evidence)  == evidence # None /\ (evidence.flag \/ evidence.confirmed \in {"list", "true"})
Unresolved(evidence) == evidence # None /\ evidence.unresolved \in {"list", "true"}

\* The binding checks of build_pair_report(), and those of _binding_errors().
PointerFields == {"name", "bytes", "storage", "ort_pointer", "pointer_identity", "lifetime_path"}
LaneFields    == {"name", "bytes", "storage", "lifetime_path"}

BindingComplete(report, needed) ==
  /\ report # None
  /\ report.first
  /\ \A side \in {report.inputs, report.outputs} :
       /\ side # <<>>
       /\ \A i \in DOMAIN side : needed \subseteq side[i].fields /\ side[i].lifetime

PointersComplete(bindings) ==
  bindings = None \/ \A lane \in {"reference", "managed"} :
                       BindingComplete(bindings[lane], PointerFields)

----------------------------------------------------------------------------
(* build_pair_report()                                                      *)

\* The ValueErrors on the frame counts.
FramesRaise(args) ==
  \/ (args.refFrames = None) # (args.manFrames = None)
  \/ None \notin {args.refFrames, args.manFrames} /\ (args.refFrames <= 0 \/ args.manFrames <= 0)

PairRaises(args) == FramesRaise(args) \/ EvidenceRaises(args.evidence)

\* str(direction).upper(), on the arguments too.
Upper(direction) == IF direction = "unknown" THEN "UNKNOWN" ELSE direction
Adapters(args)   == {Upper(d) : d \in args.adapters}

MissingAdapters(man, args) ==
  IF args.required THEN Adapters(args) \ DirectionsOf(man) ELSE {}

TraceComplete(ref, man, args, profilerComplete) ==
  /\ profilerComplete
  /\ Explainable(ref) /\ Explainable(man)
  /\ Unsized(ref) = {} /\ Unsized(man) = {}
  /\ MissingAdapters(man, args) = {}

\* A tensor-sized copy of the managed lane that the reference does not have.
ExtraCopies(ref, man, args) ==
  {sig \in SignaturesOf(man) \ SignaturesOf(ref) :
     sig[2] \in args.payload /\ Upper(sig[3]) \notin Adapters(args)}

\* Mutant of ExcessRates: each lane is divided by the other's frames.
ExcessRates_SwappedFrames(ref, man, args) ==
  IF args.refFrames = None THEN {}
  ELSE {key \in PayloadsOf(ref, args.payload) \cup PayloadsOf(man, args.payload) :
          /\ Upper(key[2]) \notin Adapters(args)
          /\ 20 * (PayloadCount(man, key[1], key[2]) * args.manFrames
                   - PayloadCount(ref, key[1], key[2]) * args.refFrames)
               > args.refFrames * args.manFrames}

\* max_payload_copy_rate_delta is 0.05, the default: managed minus reference
\* copies for each frame, the fractions multiplied out.
ExcessRates(ref, man, args) ==
  IF args.refFrames = None THEN {}
  ELSE {key \in PayloadsOf(ref, args.payload) \cup PayloadsOf(man, args.payload) :
          /\ Upper(key[2]) \notin Adapters(args)
          /\ 20 * (PayloadCount(man, key[1], key[2]) * args.refFrames
                   - PayloadCount(ref, key[1], key[2]) * args.manFrames)
               > args.refFrames * args.manFrames}

RiskyKernels(ref, man, args) ==
  {k \in KernelsOf(man) \ KernelsOf(ref) : k \in args.risks \/ k \in CopyLikeKernels}

Failures(ref, man, args) ==
  \/ ExtraCopies(ref, man, args) # {}
  \/ ExcessRates(ref, man, args) # {}
  \/ Confirmed(args.evidence)

\* Mutant of PairStatus: incomplete evidence is looked at before the failures.
PairStatus_DoubtsFirst(ref, man, args, profilerComplete) ==
  IF \/ ~TraceComplete(ref, man, args, profilerComplete)
     \/ ~PointersComplete(args.bindings)
     \/ RiskyKernels(ref, man, args) # {}
     \/ Unresolved(args.evidence)
  THEN "INCONCLUSIVE"
  ELSE IF Failures(ref, man, args) THEN "FAIL" ELSE "PASS"

PairStatus(ref, man, args, profilerComplete) ==
  IF Failures(ref, man, args) THEN "FAIL"
  ELSE IF /\ TraceComplete(ref, man, args, profilerComplete)
          /\ PointersComplete(args.bindings)
          /\ RiskyKernels(ref, man, args) = {}
          /\ ~Unresolved(args.evidence)
  THEN "PASS"
  ELSE "INCONCLUSIVE"

\* self_report_from_summary(), its profiler_complete.
SelfComplete(events, profilerComplete) == profilerComplete /\ Explainable(events)

----------------------------------------------------------------------------
(* compare() of compare_nvidia_copy_traces.py                               *)

\* _binding_payload_sizes(), added to the sizes of the command line.
BindingSizes(report) ==
  IF report = None THEN {}
  ELSE {rec.bytes : rec \in {r \in {report.inputs[i] : i \in DOMAIN report.inputs}
                                   \cup {report.outputs[i] : i \in DOMAIN report.outputs} :
                               r.bytes > 0}}

LaneBinding(args, lane) == IF args.bindings = None THEN None ELSE args.bindings[lane]
LanePayload(args) ==
  {s \in args.payload : s > 0} \cup BindingSizes(LaneBinding(args, "reference"))
                               \cup BindingSizes(LaneBinding(args, "managed"))

LaneRaises(args) == args.refFrames <= 0 \/ args.manFrames <= 0

\* _memory_total_deltas(): the directions in which the candidate moves more.
MoreMoved(ref, cand) ==
  {d \in Directions \cup {"unknown"} : \/ CopiesMoved(cand, d) > CopiesMoved(ref, d)
                                       \/ BytesMoved(cand, d) > BytesMoved(ref, d)}

\* _candidate_only_payload_evidence().
IncreasedPayload(ref, cand, payload) ==
  {sig \in SignaturesOf(cand) : sig[2] \in payload /\ CopyCount(cand, sig) > CopyCount(ref, sig)}

LaneStatus(ref, cand, args) ==
  IF /\ Explainable(ref) /\ Explainable(cand)
     /\ BindingComplete(LaneBinding(args, "reference"), LaneFields)
     /\ BindingComplete(LaneBinding(args, "managed"), LaneFields)
  THEN "PASS" ELSE "INCONCLUSIVE"
=============================================================================
