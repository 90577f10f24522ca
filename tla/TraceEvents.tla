----------------------------- MODULE TraceEvents -----------------------------
(***************************************************************************)
(* normalize_event() of copy_audit_common.py: what one record of a profiler*)
(* trace is taken for.  The regular expressions look for words in free     *)
(* texts; here a text is an atom, and Says and AgentWords tell what the    *)
(* expressions find in it.                                                 *)
(*                                                                         *)
(* A raw record is [kind, kernelField, name, size, src, dst, dir]: the     *)
(* words of its kind, whether it has a kernel_name field, its operation    *)
(* or kernel name, its size (None or [number, unit]), the texts of its     *)
(* agents and of its direction.  An empty text is "", an absent field too. *)
(***************************************************************************)
EXTENDS Integers, Sequences, FiniteSets

CONSTANTS
  None,        \* Python's None
  Says,        \* the directions that the patterns find in a name or direction text
  AgentWords   \* "host", "device": which of the two word lists an agent's text meets

Directions == {"H2D", "D2H", "D2D", "H2H"}
Kinds      == {"copy", "kernel"}

ASSUME TextAssumption ==
  /\ \A t \in DOMAIN Says : Says[t] \subseteq Directions
  /\ \A a \in DOMAIN AgentWords : AgentWords[a] \subseteq {"host", "device"}
  /\ "" \in DOMAIN Says /\ Says[""] = {}

\* byte_count(): a column with a unit, or a text that ends in one.
UnitFactor == [B |-> 1, KB |-> 1000, KIB |-> 1024, MB |-> 1000000, MIB |-> 1048576]
ByteCount(size) == IF size = None THEN None ELSE size.number * UnitFactor[size.unit]

\* _agent_class(): the host words are looked for first.
AgentClass(agent) ==
  IF "host" \in AgentWords[agent] THEN "host"
  ELSE IF "device" \in AgentWords[agent] THEN "device"
  ELSE "unknown"

\* normalize_direction(): the first pattern that the explicit direction or the
\* operation meets, else the classes of the two agents.
PatternOrder == <<"H2D", "D2H", "D2D", "H2H">>

AgentDirection(src, dst) ==
  LET ends == <<AgentClass(src), AgentClass(dst)>>
  IN  CASE ends = <<"host", "device">>   -> "H2D"
        [] ends = <<"device", "host">>   -> "D2H"
        [] ends = <<"device", "device">> -> "D2D"
        [] ends = <<"host", "host">>     -> "H2H"
        [] OTHER                         -> "unknown"

NormalizeDirection(src, dst, operation, dir) ==
  LET said    == Says[dir] \cup Says[operation]
      matches == SelectSeq(PatternOrder, LAMBDA d : d \in said)
  IN  IF said = {} THEN AgentDirection(src, dst) ELSE Head(matches)

\* _is_copy_record(): a name alone never makes a copy, kernels are named copy_* too.
IsCopyRecord(r) ==
  \/ "copy" \in r.kind /\ "kernel" \notin r.kind
  \/ r.dir # "" \/ r.src # "" \/ r.dst # ""
  \/ ByteCount(r.size) # None /\ "copy" \in r.kind

\* normalize_event(): Nsight's kernel rows are the named ones without a size.
EventType(r) ==
  IF IsCopyRecord(r) THEN "memory_copy"
  ELSE IF "kernel" \in r.kind \/ r.kernelField \/ (r.size = None /\ r.name # "") THEN "kernel"
  ELSE "unknown"

NormalizeEvent(r) ==
  [type        |-> EventType(r),
   operation   |-> IF r.name = "" THEN "<unnamed>" ELSE r.name,
   direction   |-> IF IsCopyRecord(r) THEN NormalizeDirection(r.src, r.dst, r.name, r.dir) ELSE "",
   source      |-> r.src,
   destination |-> r.dst,
   bytes       |-> ByteCount(r.size)]

Normalized(records) == [i \in DOMAIN records |-> NormalizeEvent(records[i])]

\* signature().
Signature(e) == <<e.operation, e.bytes, e.direction, e.source, e.destination>>
=============================================================================
