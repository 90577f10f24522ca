---------------------------- MODULE RocprofLoader ----------------------------
(***************************************************************************)
(* rocprofv3_json_loader.py: reads the processes of a ROCprofiler trace    *)
(* into a capture of canonical events, one for every raw record, and       *)
(* diagnostics for everything that it could not resolve.  Handles, kinds   *)
(* and kernel ids mean something within one process only.                  *)
(*                                                                         *)
(* A process is a record:                                                  *)
(*   agents      sequence of [handle, role]; None for what is unreadable   *)
(*   ops         sequence of [kind, operations], with operations the       *)
(*               record [array, names]: a JSON array or object, and the      *)
(*               names by their keys, which are the positions in an array;   *)
(*               "" is an empty name or none, None is null                   *)
(*   symbols     kernel names by kernel id                                 *)
(*   copies      sequence of [malformed, kind, operation, src, dst, bytes],*)
(*               or None without the section                               *)
(*   dispatches  sequence of [malformed, kind, operation, kernel, agent],  *)
(*               or None                                                   *)
(* An absent field is None; a size that is none is negative; handles,      *)
(* kinds and ids are the texts they are looked up by.  An operation is the *)
(* record [number, key, text]: what _integer() and _key() make of it, and  *)
(* the text that it is, each None where it is none.                        *)
(***************************************************************************)
EXTENDS CopyAudit
LOCAL INSTANCE FiniteSetsExt
LOCAL INSTANCE TLC

CopyDomain   == "memory_copy_trace"
KernelDomain == "kernel_trace"

\* _MEMORY_COPY_OPERATION_NUMBERS and _MEMORY_COPY_DIRECTIONS.
OperationNumber == [MEMORY_COPY_NONE |-> 0,
                    MEMORY_COPY_HOST_TO_HOST |-> 1,
                    MEMORY_COPY_HOST_TO_DEVICE |-> 2,
                    MEMORY_COPY_DEVICE_TO_HOST |-> 3,
                    MEMORY_COPY_DEVICE_TO_DEVICE |-> 4]
OperationDirection == [MEMORY_COPY_HOST_TO_HOST |-> "H2H",
                       MEMORY_COPY_HOST_TO_DEVICE |-> "H2D",
                       MEMORY_COPY_DEVICE_TO_HOST |-> "D2H",
                       MEMORY_COPY_DEVICE_TO_DEVICE |-> "D2D"]

DirectionOf(name) == IF name \in DOMAIN OperationDirection THEN OperationDirection[name] ELSE "unknown"

----------------------------------------------------------------------------
(* The tables of a process                                                  *)

\* _build_agent_table(): the last agent of a handle is the one looked up.
Handled(process)       == {i \in DOMAIN process.agents : process.agents[i].handle # None}
LastWith(process, h)   == CHOOSE i \in Handled(process) :
                            /\ process.agents[i].handle = h
                            /\ \A j \in Handled(process) : process.agents[j].handle = h => j <= i
AgentTable(process)    ==
  [h \in {process.agents[i].handle : i \in Handled(process)} |->
     LET role == process.agents[LastWith(process, h)].role
     IN  IF role = None THEN "unknown" ELSE role]

AgentDiagnostics(process) ==
  LET agents == process.agents
      named  == Handled(process)
  IN  {d \in {"agent_handle_unresolved", "agent_role_unresolved", "duplicate_agent_handle"} :
         CASE d = "agent_handle_unresolved" -> named # DOMAIN agents
           [] d = "agent_role_unresolved"   -> \E i \in named : agents[i].role = None
           [] d = "duplicate_agent_handle"  ->
                \E i, j \in named : i # j /\ agents[i].handle = agents[j].handle}

\* _build_operation_table(): the operations of a kind, the last entry wins; the
\* position of an entry is a key too, where no entry names it.
OperationTable(process) ==
  LET ops      == process.ops
      byKind   == {ops[i].kind : i \in DOMAIN ops}
      byIndex  == {ToString(i - 1) : i \in DOMAIN ops}
      Last(k)  == CHOOSE i \in DOMAIN ops :
                    ops[i].kind = k /\ \A j \in DOMAIN ops : ops[j].kind = k => j <= i
      At(k)    == CHOOSE i \in DOMAIN ops : ToString(i - 1) = k
  IN  [k \in byKind \cup byIndex |-> ops[IF k \in byKind THEN Last(k) ELSE At(k)].operations]

\* An array is indexed by number; an object is looked up by any key.
KeyedName(operations, operation) ==
  IF /\ operation.key \in DOMAIN operations.names
     /\ operations.array => operation.number # None
  THEN operations.names[operation.key]
  ELSE None

\* Some converters keep the name in place of the number: an object may have it
\* among its values.
NameItself(operations, operation) ==
  IF /\ ~operations.array /\ operation.text # None
     /\ \E key \in DOMAIN operations.names : operations.names[key] = operation.text
  THEN operation.text
  ELSE None

\* _lookup_operation(): None when the kind or the operation is not found.
LookupOperation(process, kind, operation) ==
  LET table == OperationTable(process)
      keyed == KeyedName(table[kind], operation)
      name  == IF keyed # None THEN keyed ELSE NameItself(table[kind], operation)
  IN  IF kind = None \/ kind \notin DOMAIN table \/ operation = None \/ name = "" THEN None
      ELSE name

\* _symbol_table() and _kernel_name().
KernelName(process, id) ==
  IF id = None \/ id \notin DOMAIN process.symbols \/ process.symbols[id] = "" THEN None
  ELSE process.symbols[id]

Resolves(process, handle) == handle # None /\ handle \in DOMAIN AgentTable(process)
RoleOf(process, handle)   == IF Resolves(process, handle) THEN AgentTable(process)[handle] ELSE "unknown"

----------------------------------------------------------------------------
(* Records                                                                  *)

\* _parse_bytes().
ParseBytes(bytes) == IF bytes = None THEN None ELSE IF bytes >= 0 THEN bytes ELSE None

\* What cannot be resolved keeps its number, or its quoted text, in the name.
UnknownOperation(operation) ==
  "<unknown operation "
    \o (IF operation = None THEN "None"
        ELSE IF operation.text # None THEN "'" \o operation.text \o "'"
        ELSE ToString(operation.number))
    \o ">"
UnknownKernel(id)           == "<unknown kernel " \o ToString(id) \o ">"

MalformedCopy == [kind |-> {"copy"}, kernelField |-> FALSE, name |-> "<malformed>", size |-> None,
                  src |-> "unknown", dst |-> "unknown", dir |-> "unknown",
                  route |-> <<"unknown", "", "">>]

HandleText(handle) == IF handle = None THEN "None" ELSE handle

\* One turn of _parse_memory_copies(): the event, and its diagnostics.
CopyEvent(process, r) ==
  LET name  == LookupOperation(process, r.kind, r.operation)
      bytes == ParseBytes(r.bytes)
  IN  IF r.malformed THEN MalformedCopy
      ELSE [kind |-> {"copy"}, kernelField |-> FALSE,
            name |-> IF name = None THEN UnknownOperation(r.operation) ELSE name,
            size |-> IF bytes = None THEN None ELSE [number |-> bytes, unit |-> "B"],
            src  |-> RoleOf(process, r.src), dst |-> RoleOf(process, r.dst),
            dir  |-> DirectionOf(name),
            route |-> <<DirectionOf(name), HandleText(r.src), HandleText(r.dst)>>]

\* _schema_sanity_diagnostic(): only a number can be another than its name's.
SchemaMismatch(name, operation) ==
  /\ operation # None /\ operation.number # None
  /\ name \in DOMAIN OperationNumber /\ OperationNumber[name] # operation.number

\* Mutant of CopyDiagnostics: the operation's name is trusted without its number.
CopyDiagnostics_TrustsNames(process, r) ==
  LET name == LookupOperation(process, r.kind, r.operation)
  IN  IF r.malformed THEN {"malformed_memory_copy_record"}
      ELSE (IF name = None THEN {"operation_lookup_failed"} ELSE {})
           \cup (IF r.bytes = None THEN {"incomplete_memory_copy_record"} ELSE {})
           \cup (IF Resolves(process, r.src) /\ Resolves(process, r.dst) THEN {}
                 ELSE {"agent_handle_unresolved"})
           \cup (IF DirectionOf(name) = "unknown" THEN {"unknown_memory_copy_direction"} ELSE {})

CopyDiagnostics(process, r) ==
  LET name == LookupOperation(process, r.kind, r.operation)
      Holds(d) ==
        CASE d = "malformed_memory_copy_record" -> r.malformed
          [] d = "incomplete_memory_copy_record" ->
               \E field \in {"kind", "operation", "src", "dst", "bytes"} : r[field] = None
          [] d = "operation_lookup_failed" -> name = None
          [] d = "schema_version_mismatch" -> SchemaMismatch(name, r.operation)
          [] d = "agent_handle_unresolved" ->
               ~(Resolves(process, r.src) /\ Resolves(process, r.dst))
          [] d = "unknown_memory_copy_direction" -> DirectionOf(name) = "unknown"
      kinds == IF r.malformed THEN {"malformed_memory_copy_record"}
               ELSE {"incomplete_memory_copy_record", "operation_lookup_failed",
                     "schema_version_mismatch", "agent_handle_unresolved", "unknown_memory_copy_direction"}
  IN  {d \in kinds : Holds(d)}

\* One turn of _parse_kernel_dispatches().
KernelEvent(process, r) ==
  LET name == KernelName(process, r.kernel)
  IN  [kind |-> {"kernel"}, kernelField |-> TRUE,
       name |-> IF r.malformed THEN "<malformed>"
                ELSE IF name = None THEN UnknownKernel(r.kernel) ELSE name,
       size |-> None, src |-> "", dst |-> "", dir |-> "", route |-> None]

KernelDiagnostics(process, r) ==
  IF r.malformed THEN {"malformed_kernel_dispatch_record"}
  ELSE (IF r.kind = None \/ r.operation = None
        THEN {"incomplete_kernel_dispatch_record"} ELSE {})
       \cup (IF LookupOperation(process, r.kind, r.operation) = None
             THEN {"operation_lookup_failed"} ELSE {})
       \cup (IF KernelName(process, r.kernel) = None THEN {"kernel_id_unresolved"} ELSE {})
       \cup (IF Resolves(process, r.agent) THEN {} ELSE {"agent_handle_unresolved"})

----------------------------------------------------------------------------
(* load_rocprof_json()                                                      *)

NoCapture == [events |-> <<>>, diagnostics |-> {}, copySections |-> <<>>, kernelSections |-> <<>>]

SectionState(records) ==
  [present |-> records # None, count |-> IF records = None THEN 0 ELSE Len(records)]

RecordsOf(section) == IF section = None THEN <<>> ELSE section

\* All that a process has to say about itself and its records.
ProcessDiagnostics(process) ==
  LET copies     == RecordsOf(process.copies)
      dispatches == RecordsOf(process.dispatches)
  IN  UNION (      {AgentDiagnostics(process)}
              \cup {CopyDiagnostics(process, copies[i]) : i \in DOMAIN copies}
              \cup {KernelDiagnostics(process, dispatches[i]) : i \in DOMAIN dispatches})

\* One process: its copies, then its dispatches.
LoadProcess(capture, process) ==
  LET copies     == RecordsOf(process.copies)
      dispatches == RecordsOf(process.dispatches)
  IN  [events         |-> capture.events
                            \o [i \in DOMAIN copies |-> CopyEvent(process, copies[i])]
                            \o [i \in DOMAIN dispatches |-> KernelEvent(process, dispatches[i])],
       diagnostics    |-> capture.diagnostics \cup ProcessDiagnostics(process),
       copySections   |-> Append(capture.copySections, SectionState(process.copies)),
       kernelSections |-> Append(capture.kernelSections, SectionState(process.dispatches))]

\* _section_state(): of one section, over all processes.
SectionComplete(states) ==
  LET Held(i) == states[i].count
  IN  /\ states # <<>>
      /\ \A i \in DOMAIN states : states[i].present
      /\ MapThenSumSet(Held, DOMAIN states) > 0

\* manifest_domain_status(): a manifest is None or the set of traced domains.
DomainStatus(states, manifest, domain) ==
  IF manifest = None THEN "not_checked"
  ELSE IF domain \notin manifest THEN "not_requested"
  ELSE IF SectionComplete(states) THEN "complete"
  ELSE "incomplete"

\* capture_completeness() with _capture_profiler_complete(): diagnostics of any
\* domain count.
CaptureComplete(capture, manifest) ==
  /\ DomainStatus(capture.copySections, manifest, CopyDomain) \in {"complete", "not_checked"}
  /\ capture.diagnostics = {}

KernelDomainResolved(capture, manifest) ==
  DomainStatus(capture.kernelSections, manifest, KernelDomain) \in {"complete", "not_checked"}

----------------------------------------------------------------------------
(* cross_check_csv(): a CSV is None or a sequence of copy rows [operation,  *)
(* src, dst].  The summary has one entry for a route, with its count, and   *)
(* what is counted here are the entries.                                    *)

CsvRoute(row) == <<DirectionOf(row.operation), row.src, row.dst>>

JsonRoutes(capture, route) ==
  Cardinality({i \in DOMAIN capture.events : capture.events[i].route = route})
CsvRoutes(rows, route) == IF \E i \in DOMAIN rows : CsvRoute(rows[i]) = route THEN 1 ELSE 0

CsvAgrees(capture, rows) ==
  \A route \in ({capture.events[i].route : i \in DOMAIN capture.events} \ {None})
                 \cup {CsvRoute(rows[i]) : i \in DOMAIN rows} :
    JsonRoutes(capture, route) = CsvRoutes(rows, route)
=============================================================================
