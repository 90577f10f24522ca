---------------------------- MODULE TransportAudit ----------------------------
(***************************************************************************)
(* The command-line tools of the copy audit, from the trace files to the   *)
(* exit status: analyze_rocprof_traces.py (rocprof),                       *)
(* compare_nsys_cuda_traces.py (nsys) and compare_nvidia_copy_traces.py    *)
(* (lanes).  A tool reads the records of the reference lane, then those of *)
(* the managed one, which may be any of the given ones in any order, and   *)
(* judges them under a command line; a file may be unreadable at any       *)
(* point, the report may be impossible to write, and an old report may be  *)
(* on the disk when the tool starts.                                       *)
(*                                                                         *)
(* A command line is the arguments of CopyAudit with the tool, self (one   *)
(* lane, --self-report), and manifests and csv by lane.                    *)
(***************************************************************************)
EXTENDS RocprofLoader

CONSTANTS
  CommandLines,       \* the command lines a tool may be started with
  Records,            \* the raw records of an Nsight trace
  Processes,          \* the processes of a ROCprofiler trace
  CopyBufferKernels,  \* kernel names with __amd_rocclr_copyBuffer in them
  MaxInputs           \* bound of the model: records or processes of a lane

Lanes == {"reference", "managed"}
Tools == {"rocprof", "nsys", "lanes"}

ASSUME NoneAssumption == None \notin {0, 1, 2}

\* argparse: the arguments are all there, and frame counts are integers.
ASSUME CommandAssumption ==
  \A c \in CommandLines :
    /\ DOMAIN c = {"tool", "self", "payload", "refFrames", "manFrames", "adapters", "required",
                  "evidence", "risks", "bindings", "manifests", "csv"}
    /\ c.tool \in Tools
    /\ c.refFrames = None \/ c.refFrames \in Int
    /\ c.manFrames = None \/ c.manFrames \in Int

\* What the JSON parser and the loader's own conversions leave of a process.
ASSUME ProcessAssumption ==
  \A p \in Processes :
    /\ \A i \in DOMAIN p.agents : p.agents[i].role \in {None, "host", "device"}
    /\ \A section \in {p.copies, p.dispatches} \ {None} :
         Len(section) \in Nat /\ DOMAIN section = 1..Len(section)
    /\ \A i \in DOMAIN RecordsOf(p.copies) : p.copies[i].bytes = None \/ p.copies[i].bytes \in Int

VARIABLES
  command,   \* args of main()
  loading,   \* the lane that is being read, or "done"
  captures,  \* what has been loaded, by lane
  input,     \* the processes that were read, by lane
  report,    \* the report to write, or None
  file,      \* --output-json: absent, stale, partial, fresh
  exit       \* the exit status, or None

vars == <<command, loading, captures, input, report, file, exit>>

Init ==
  /\ command \in CommandLines
  /\ loading = IF command.self THEN "managed" ELSE "reference"
  /\ captures = [lane \in Lanes |-> NoCapture]
  /\ input = [lane \in Lanes |-> <<>>]
  /\ report = None
  /\ file \in {"absent", "stale"}
  /\ exit = None

----------------------------------------------------------------------------
(* Loading                                                                  *)

Loads(lane) == loading = lane /\ exit = None /\ Len(input[lane]) < MaxInputs

\* load_trace_records(): a record is kept as it is.
ReadRecord(lane, r) ==
  /\ command.tool \in {"nsys", "lanes"}
  /\ Loads(lane)
  /\ captures' = [captures EXCEPT ![lane].events = Append(@, r)]
  /\ input' = [input EXCEPT ![lane] = Append(@, r)]
  /\ UNCHANGED <<command, loading, report, file, exit>>

\* load_rocprof_json(), one process of one of its files.
ReadProcess(lane, process) ==
  /\ command.tool = "rocprof"
  /\ Loads(lane)
  /\ captures' = [captures EXCEPT ![lane] = LoadProcess(@, process)]
  /\ input' = [input EXCEPT ![lane] = Append(@, process)]
  /\ UNCHANGED <<command, loading, report, file, exit>>

LaneRead ==
  /\ loading # "done" /\ exit = None
  /\ loading' = IF loading = "reference" THEN "managed" ELSE "done"
  /\ UNCHANGED <<command, captures, input, report, file, exit>>

\* A trace, a manifest, an evidence file or a binding report is missing, empty or
\* malformed: whatever raises, main() prints it and returns 2.
LoadFails ==
  /\ loading # "done" /\ exit = None
  /\ exit' = 2
  /\ UNCHANGED <<command, loading, captures, input, report, file>>

----------------------------------------------------------------------------
(* Judging                                                                  *)

EventsOf(capture) == Normalized(capture.events)

\* rocprof: H2D and D2H unless the command line names directions.
\* nsys has no option for them.
PairArguments ==
  CASE command.tool = "rocprof" ->
         [command EXCEPT !.adapters = IF @ = {} THEN {"H2D", "D2H"} ELSE @]
    [] command.tool = "nsys"  -> [command EXCEPT !.adapters = {}, !.required = FALSE]
    [] command.tool = "lanes" -> [command EXCEPT !.payload = LanePayload(command)]

\* _kernel_evidence(), what it leaves unresolved.
ResolvedKernels == IF command.evidence = None THEN {} ELSE command.evidence.resolvedKernels

UnresolvedKernels(ref, man) ==
  ({k \in CopyBufferKernels : KernelCount(man, k) # KernelCount(ref, k)}
     \cup (command.risks \cap KernelsOf(man)))
  \ ResolvedKernels

CsvDiffers(pair) ==
  \E lane \in Lanes : command.csv[lane] # None /\ ~CsvAgrees(pair[lane], command.csv[lane])

\* compare() of analyze_rocprof_traces.py: what only AMD traces have can make a
\* PASS inconclusive, and never touches a FAIL.
RocprofStatus(pair) ==
  LET ref      == EventsOf(pair["reference"])
      man      == EventsOf(pair["managed"])
      complete == \A lane \in Lanes : CaptureComplete(pair[lane], command.manifests[lane])
      base     == PairStatus(ref, man, PairArguments, complete)
      resolved == /\ UnresolvedKernels(ref, man) = {}
                  /\ \A lane \in Lanes : KernelDomainResolved(pair[lane], command.manifests[lane])
                  /\ ~CsvDiffers(pair)
  IN  IF base = "FAIL" \/ resolved THEN base ELSE "INCONCLUSIVE"

\* The verdict of a tool on a pair of captures.
Verdict(pair) ==
  LET ref == EventsOf(pair["reference"])
      man == EventsOf(pair["managed"])
  IN  CASE command.tool = "rocprof" -> RocprofStatus(pair)
        [] command.tool = "nsys"  -> PairStatus(ref, man, PairArguments, TRUE)
        [] command.tool = "lanes" -> LaneStatus(ref, man, PairArguments)

VerdictRaises ==
  IF command.tool = "lanes" THEN LaneRaises(command) ELSE PairRaises(command)

\* --self-report: nsys always says that the profiler data is complete.
SelfReport ==
  LET capture  == captures["managed"]
      complete == command.tool = "nsys"
                  \/ SelfComplete(EventsOf(capture),
                                  CaptureComplete(capture, command.manifests["managed"]))
  IN  [status |-> "SELF", complete |-> complete]

\* compare() of the lanes adds what the candidate moves more of.
LaneReport ==
  LET ref == EventsOf(captures["reference"])
      man == EventsOf(captures["managed"])
  IN  [status    |-> Verdict(captures),
       more      |-> MoreMoved(ref, man),
       increased |-> IncreasedPayload(ref, man, PairArguments.payload)]

JudgeRaises ==
  /\ loading = "done" /\ report = None /\ exit = None
  /\ ~command.self /\ VerdictRaises
  /\ exit' = 2
  /\ UNCHANGED <<command, loading, captures, input, report, file>>

Judge ==
  /\ loading = "done" /\ report = None /\ exit = None
  /\ command.self \/ ~VerdictRaises
  /\ report' = IF command.self THEN SelfReport
               ELSE IF command.tool = "lanes" THEN LaneReport
               ELSE [status |-> Verdict(captures)]
  /\ UNCHANGED <<command, loading, captures, input, file, exit>>

\* Mutant of WriteReport: only a FAIL fails the step of a pipeline.
WriteReport_FailsOnFail ==
  /\ report # None /\ exit = None
  /\ file' = "fresh"
  /\ exit' = IF report.status = "FAIL" THEN 1 ELSE 0
  /\ UNCHANGED <<command, loading, captures, input, report>>

\* write_text() and the exit status.
WriteReport ==
  /\ report # None /\ exit = None
  /\ file' = "fresh"
  /\ exit' = IF report.status \in {"PASS", "SELF"} THEN 0 ELSE 1
  /\ UNCHANGED <<command, loading, captures, input, report>>

\* Outside of the try block: a traceback, exit status 1.
WriteFails ==
  /\ report # None /\ exit = None
  /\ file' \in {file, "partial"}
  /\ exit' = 1
  /\ UNCHANGED <<command, loading, captures, input, report>>

Next ==
  \/ \E lane \in Lanes, r \in Records : ReadRecord(lane, r)
  \/ \E lane \in Lanes, p \in Processes : ReadProcess(lane, p)
  \/ LaneRead
  \/ LoadFails
  \/ JudgeRaises
  \/ Judge
  \/ WriteReport
  \/ WriteFails

Spec == Init /\ [][Next]_vars

----------------------------------------------------------------------------
(* Properties                                                               *)

Audited == report # None /\ command.tool # "lanes" /\ ~command.self

\* More managed records never take a FAIL back: neither a record that is
\* incomplete, nor damaged profiler data, nor copies in other directions.
FailIsMonotone ==
  (Audited /\ report.status = "FAIL") =>
    LET managed     == captures["managed"]
        Longer(x)   == IF command.tool = "rocprof" THEN LoadProcess(managed, x)
                       ELSE [managed EXCEPT !.events = Append(@, x)]
        Extended(x) == [captures EXCEPT !["managed"] = Longer(x)]
    IN  \A x \in IF command.tool = "rocprof" THEN Processes ELSE Records :
          Verdict(Extended(x)) = "FAIL"

\* A lane compared with itself over no fewer frames is no FAIL, unless boundary
\* evidence is confirmed, and what keeps it from a PASS is not a difference: the
\* kernels of both lanes are the same.
SelfComparisonNeverFails ==
  /\ Audited
  /\ captures["managed"] = captures["reference"]
  /\ command.refFrames = None \/ command.manFrames >= command.refFrames
  /\ ~Confirmed(command.evidence)
  => /\ report.status # "FAIL"
     /\ RiskyKernels(EventsOf(captures["reference"]), EventsOf(captures["managed"]),
                     PairArguments) = {}

\* A PASS is built on traces that were understood to the last record.  Of the
\* ROCprofiler tool: the events of a lane are those of its raw records, one for
\* each; no record is malformed, each handle is that of one agent with a known
\* role, in the record's own process, each operation has a name of its kind's
\* table, each kernel a name; a manifest's domains are there in every process.  Of
\* either audit: all copies have their size and no tensor-sized copy is the
\* managed lane's own, but in the adapter directions of the ROCprofiler tool.

\* The operation of a copy is a memory copy by its name.  A number is the one that
\* the name stands for; what is no number is the name itself or its key, and in
\* an object.
UnderstoodOperation(process, r) ==
  LET name       == CopyEvent(process, r).name
      operations == OperationTable(process)[r.kind]
      Names(key) == key \in DOMAIN operations.names /\ operations.names[key] = name
  IN  /\ name \in DOMAIN OperationDirection
      /\ r.kind \in DOMAIN OperationTable(process)
      /\ \E key \in DOMAIN operations.names : Names(key)
      /\ IF r.operation.number # None THEN OperationNumber[name] = r.operation.number
         ELSE ~operations.array /\ (r.operation.text = name \/ Names(r.operation.key))

UnderstoodCopy(process, r) ==
  LET OwnAgents(h) == {i \in DOMAIN process.agents : process.agents[i].handle = h}
  IN  /\ ~r.malformed
      /\ r.bytes # None /\ r.bytes >= 0
      /\ \A h \in {r.src, r.dst} :
           /\ Cardinality(OwnAgents(h)) = 1
           /\ \A i \in OwnAgents(h) : process.agents[i].role \in {"host", "device"}
      /\ UnderstoodOperation(process, r)

UnderstoodProcess(process, manifest) ==
  /\ \A i \in DOMAIN RecordsOf(process.copies) : UnderstoodCopy(process, process.copies[i])
  /\ \A i \in DOMAIN RecordsOf(process.dispatches) :
       ~process.dispatches[i].malformed /\ KernelName(process, process.dispatches[i].kernel) # None
  /\ manifest # None =>
       /\ {CopyDomain, KernelDomain} \subseteq manifest
       /\ None \notin {process.copies, process.dispatches}

\* The raw records of the processes of a lane, and the event of each.
RawRecords(processes) ==
  UNION {     {<<k, CopyDomain, i>> : i \in DOMAIN RecordsOf(processes[k].copies)}
         \cup {<<k, KernelDomain, i>> : i \in DOMAIN RecordsOf(processes[k].dispatches)}
         : k \in DOMAIN processes}
EventOf(processes, x) ==
  LET process == processes[x[1]]
  IN  IF x[2] = CopyDomain THEN CopyEvent(process, process.copies[x[3]])
      ELSE KernelEvent(process, process.dispatches[x[3]])

OneEventEach(events, processes) ==
  LET raw == RawRecords(processes)
  IN  \A e \in {events[j] : j \in DOMAIN events} \cup {EventOf(processes, x) : x \in raw} :
        Cardinality({j \in DOMAIN events : events[j] = e})
          = Cardinality({x \in raw : EventOf(processes, x) = e})

PassIsEarned ==
  LET ref == EventsOf(captures["reference"])
      man == EventsOf(captures["managed"])
  IN  (Audited /\ report.status = "PASS") =>
        /\ \A lane \in Lanes :
             /\ captures[lane].events # <<>>
             /\ command.tool = "rocprof" =>
                  /\ OneEventEach(captures[lane].events, input[lane])
                  /\ \A k \in DOMAIN input[lane] :
                       UnderstoodProcess(input[lane][k], command.manifests[lane])
        /\ \A e \in CopiesOf(ref) \cup CopiesOf(man) : e.bytes # None
        /\ \A e \in CopiesOf(man) :
             \/ e.bytes \notin command.payload
             \/ e \in CopiesOf(ref)
             \/ command.tool = "rocprof" /\ Upper(e.direction) \in Adapters(PairArguments)

\* Whoever trusts the exit status 0 finds the report of this run on the disk,
\* and its verdict is PASS or it is a single lane's.  After 2 the disk is as it
\* was: an older report may still be there.
ExitZeroMeansFreshPass ==
  /\ exit = 0 => file = "fresh" /\ report.status \in {"PASS", "SELF"}
  /\ exit = 2 => file \in {"absent", "stale"} /\ report = None
  /\ file = "fresh" => exit \in {0, 1} /\ (exit = 0 <=> report.status \in {"PASS", "SELF"})
=============================================================================
