-------------------------- MODULE TransportAuditProofs --------------------------
(***************************************************************************)
(* Proofs about TransportAudit, for any trace, of any length, and any      *)
(* command line.                                                           *)
(***************************************************************************)
EXTENDS TransportAudit, FiniteSetTheorems, FunctionTheorems, TLAPS

\* The records that a loaded lane is made of.
RawEvents ==
  Records \cup UNION {    {CopyEvent(p, RecordsOf(p.copies)[i]) : i \in DOMAIN RecordsOf(p.copies)}
                     \cup {KernelEvent(p, RecordsOf(p.dispatches)[i]) : i \in DOMAIN RecordsOf(p.dispatches)}
                     : p \in Processes}

Sections == [present : BOOLEAN, count : Nat]

Diagnostics == UNION {ProcessDiagnostics(p) : p \in Processes}

Captures == [events : Seq(RawEvents), diagnostics : SUBSET Diagnostics,
             copySections : Seq(Sections), kernelSections : Seq(Sections)]

\* A longer trace.
Extends(events, some) ==
  /\ DOMAIN some \subseteq DOMAIN events
  /\ \A j \in DOMAIN some : events[j] = some[j]

CapturesOK ==
  /\ command \in CommandLines
  /\ captures \in [Lanes -> Captures]
  /\ DOMAIN input = Lanes
  /\ \A lane \in Lanes : input[lane] \in Seq(Records \cup Processes)

\* A process has left all its diagnostics in the capture, and all its copies.
HasProcess(capture, process) ==
  /\ process \in Processes
  /\ ProcessDiagnostics(process) \subseteq capture.diagnostics
  /\ \A i \in DOMAIN RecordsOf(process.copies) :
       \E j \in DOMAIN capture.events :
         capture.events[j] = CopyEvent(process, RecordsOf(process.copies)[i])

\* What is said of the sections belongs to the processes, in their order.
HasSections(capture, processes) ==
  /\ Len(capture.copySections) = Len(processes)
  /\ Len(capture.kernelSections) = Len(processes)
  /\ \A k \in DOMAIN processes :
       /\ capture.copySections[k].present <=> processes[k].copies # None
       /\ capture.kernelSections[k].present <=> processes[k].dispatches # None

\* f takes each event of a capture to the raw record that it is the event of.
Origins(f, events, processes) ==
  /\ f \in [DOMAIN events -> RawRecords(processes)]
  /\ \A i, j \in DOMAIN events : f[i] = f[j] => i = j
  /\ \A x \in RawRecords(processes) : \E j \in DOMAIN events : f[j] = x
  /\ \A j \in DOMAIN events : events[j] = EventOf(processes, f[j])

HasRecords(capture, processes) == \E f : Origins(f, capture.events, processes)

NothingIsLost ==
  command.tool = "rocprof" =>
    \A lane \in Lanes :
      /\ \A k \in DOMAIN input[lane] : HasProcess(captures[lane], input[lane][k])
      /\ HasSections(captures[lane], input[lane])
      /\ HasRecords(captures[lane], input[lane])

\* A report is that of the captures, which do not change any more.
ReportIsOfCaptures ==
  /\ report # None => loading = "done"
  /\ Audited => ~VerdictRaises /\ report.status = Verdict(captures)

\* The disk and the exit status.
ExitsAreHonest ==
  /\ exit \in {None, 0, 1, 2}
  /\ exit = None => file \in {"absent", "stale"}
  /\ ExitZeroMeansFreshPass

IInv == CapturesOK /\ NothingIsLost /\ ReportIsOfCaptures /\ ExitsAreHonest

-----------------------------------------------------------------------------
(* Loading                                                                   *)

\* The parts that a process adds to a capture are sequences.
LEMMA ProcessEvents ==
  ASSUME NEW p \in Processes
  PROVE  LET copies     == RecordsOf(p.copies)
             dispatches == RecordsOf(p.dispatches)
         IN  /\ Len(copies) \in Nat /\ DOMAIN copies = 1..Len(copies)
             /\ [i \in DOMAIN copies |-> CopyEvent(p, copies[i])] \in Seq(RawEvents)
             /\ [i \in DOMAIN dispatches |-> KernelEvent(p, dispatches[i])] \in Seq(RawEvents)
             /\ SectionState(p.copies) \in Sections
             /\ SectionState(p.dispatches) \in Sections
<1> DEFINE copies     == RecordsOf(p.copies)
           dispatches == RecordsOf(p.dispatches)
<1>1. /\ Len(copies) \in Nat /\ DOMAIN copies = 1..Len(copies)
      /\ Len(dispatches) \in Nat /\ DOMAIN dispatches = 1..Len(dispatches)
  <2>1. Len(<<>>) \in Nat /\ DOMAIN <<>> = 1..Len(<<>>)
    OBVIOUS
  <2>2. \A section \in {p.copies, p.dispatches} :
          /\ Len(RecordsOf(section)) \in Nat
          /\ DOMAIN RecordsOf(section) = 1..Len(RecordsOf(section))
    BY <2>1, ProcessAssumption DEF RecordsOf
  <2>3. QED
    BY <2>2
<1>2. \A i \in DOMAIN copies : CopyEvent(p, copies[i]) \in RawEvents
  BY DEF RawEvents
<1>3. \A i \in DOMAIN dispatches : KernelEvent(p, dispatches[i]) \in RawEvents
  BY DEF RawEvents
<1>4. SectionState(p.copies) \in Sections /\ SectionState(p.dispatches) \in Sections
  BY <1>1 DEF SectionState, Sections, RecordsOf
<1> HIDE DEF copies, dispatches
<1>5. /\ [i \in DOMAIN copies |-> CopyEvent(p, copies[i])] \in Seq(RawEvents)
      /\ [i \in DOMAIN dispatches |-> KernelEvent(p, dispatches[i])] \in Seq(RawEvents)
  BY <1>1, <1>2, <1>3
<1>6. QED
  BY <1>1, <1>4, <1>5 DEF copies, dispatches

LEMMA RecordsAreListed ==
  /\ \A section : \A i \in DOMAIN RecordsOf(section) :
       section # None /\ RecordsOf(section)[i] = section[i]
BY DEF RecordsOf

\* A capture with one more process keeps what it had, in its place.
LEMMA LoadTypes ==
  ASSUME NEW capture \in Captures, NEW p \in Processes
  PROVE  /\ LoadProcess(capture, p) \in Captures
         /\ LoadProcess(capture, p).diagnostics = capture.diagnostics \cup ProcessDiagnostics(p)
         /\ LoadProcess(capture, p).copySections = Append(capture.copySections, SectionState(p.copies))
         /\ LoadProcess(capture, p).kernelSections
               = Append(capture.kernelSections, SectionState(p.dispatches))
         /\ Extends(LoadProcess(capture, p).events, capture.events)
         /\ \A i \in DOMAIN RecordsOf(p.copies) :
              \E j \in DOMAIN LoadProcess(capture, p).events :
                LoadProcess(capture, p).events[j] = CopyEvent(p, RecordsOf(p.copies)[i])
<1> DEFINE copied     == [i \in DOMAIN RecordsOf(p.copies) |-> CopyEvent(p, RecordsOf(p.copies)[i])]
           dispatched == [i \in DOMAIN RecordsOf(p.dispatches) |->
                            KernelEvent(p, RecordsOf(p.dispatches)[i])]
           loaded     == LoadProcess(capture, p)
<1>1. copied \in Seq(RawEvents) /\ dispatched \in Seq(RawEvents)
  BY ProcessEvents
<1>2. loaded = [events         |-> capture.events \o copied \o dispatched,
                diagnostics    |-> capture.diagnostics \cup ProcessDiagnostics(p),
                copySections   |-> Append(capture.copySections, SectionState(p.copies)),
                kernelSections |-> Append(capture.kernelSections, SectionState(p.dispatches))]
  BY Zenon DEF LoadProcess
<1>3. SectionState(p.copies) \in Sections /\ SectionState(p.dispatches) \in Sections
  BY ProcessEvents
<1>4. ProcessDiagnostics(p) \subseteq Diagnostics
  BY DEF Diagnostics
<1>5. /\ DOMAIN copied = DOMAIN RecordsOf(p.copies)
      /\ \A i \in DOMAIN copied : copied[i] = CopyEvent(p, RecordsOf(p.copies)[i])
  OBVIOUS
<1> HIDE DEF copied, dispatched, loaded
<1>6. capture.events \in Seq(RawEvents)
  BY DEF Captures
<1>7. capture.events \o copied \o dispatched \in Seq(RawEvents)
  BY <1>1, <1>6
<1>8. loaded \in Captures
  <2>1. capture.diagnostics \cup ProcessDiagnostics(p) \in SUBSET Diagnostics
    BY <1>4 DEF Captures
  <2>2. /\ Append(capture.copySections, SectionState(p.copies)) \in Seq(Sections)
        /\ Append(capture.kernelSections, SectionState(p.dispatches)) \in Seq(Sections)
    BY <1>3 DEF Captures
  <2>3. ASSUME NEW e \in Seq(RawEvents), NEW d \in SUBSET Diagnostics,
               NEW c \in Seq(Sections), NEW k \in Seq(Sections)
        PROVE  [events |-> e, diagnostics |-> d, copySections |-> c, kernelSections |-> k] \in Captures
    BY Zenon DEF Captures
  <2>4. QED
    BY <1>2, <1>7, <2>1, <2>2, <2>3, Zenon
<1>9. Extends(loaded.events, capture.events)
  BY <1>1, <1>2, <1>6 DEF Extends
<1>10. ASSUME NEW i \in DOMAIN copied
       PROVE  \E j \in DOMAIN loaded.events : loaded.events[j] = copied[i]
  <2>1. Len(capture.events) + i \in DOMAIN (capture.events \o copied)
    BY <1>1, <1>6
  <2>2. (capture.events \o copied)[Len(capture.events) + i] = copied[i]
    BY <1>1, <1>6
  <2>3. capture.events \o copied \in Seq(RawEvents)
    BY <1>1, <1>6
  <2>4. /\ Len(capture.events) + i \in DOMAIN (capture.events \o copied \o dispatched)
        /\ (capture.events \o copied \o dispatched)[Len(capture.events) + i]
             = (capture.events \o copied)[Len(capture.events) + i]
    BY <1>1, <2>1, <2>3
  <2>5. QED
    BY <1>2, <2>2, <2>4
<1>11. /\ loaded.diagnostics = capture.diagnostics \cup ProcessDiagnostics(p)
       /\ loaded.copySections = Append(capture.copySections, SectionState(p.copies))
       /\ loaded.kernelSections = Append(capture.kernelSections, SectionState(p.dispatches))
  BY <1>2
<1>12. \A i \in DOMAIN RecordsOf(p.copies) :
         \E j \in DOMAIN loaded.events : loaded.events[j] = CopyEvent(p, RecordsOf(p.copies)[i])
  BY <1>5, <1>10
<1>13. QED
  BY <1>8, <1>9, <1>11, <1>12 DEF loaded

LEMMA ReadTypes ==
  ASSUME NEW capture \in Captures, NEW r \in Records
  PROVE  /\ [capture EXCEPT !.events = Append(@, r)] \in Captures
         /\ Extends([capture EXCEPT !.events = Append(@, r)].events, capture.events)
<1>1. capture.events \in Seq(RawEvents) /\ r \in RawEvents
  BY DEF Captures, RawEvents
<1>2. Append(capture.events, r) \in Seq(RawEvents) /\ Extends(Append(capture.events, r), capture.events)
  BY <1>1 DEF Extends
<1>3. QED
  BY <1>2 DEF Captures

\* What a capture has is not lost when another process is loaded.
LEMMA LoadKeepsProcesses ==
  ASSUME NEW capture \in Captures, NEW p \in Processes, NEW q, HasProcess(capture, q)
  PROVE  HasProcess(LoadProcess(capture, p), q)
<1>1. /\ LoadProcess(capture, p).diagnostics = capture.diagnostics \cup ProcessDiagnostics(p)
      /\ Extends(LoadProcess(capture, p).events, capture.events)
  BY LoadTypes
<1>2. QED
  BY <1>1 DEF HasProcess, Extends

LEMMA LoadAddsProcess ==
  ASSUME NEW capture \in Captures, NEW p \in Processes
  PROVE  HasProcess(LoadProcess(capture, p), p)
BY LoadTypes DEF HasProcess

LEMMA LoadKeepsSections ==
  ASSUME NEW capture \in Captures, NEW p \in Processes,
         NEW processes \in Seq(Records \cup Processes), HasSections(capture, processes)
  PROVE  HasSections(LoadProcess(capture, p), Append(processes, p))
<1> DEFINE loaded == LoadProcess(capture, p)
<1>1. /\ loaded.copySections = Append(capture.copySections, SectionState(p.copies))
      /\ loaded.kernelSections = Append(capture.kernelSections, SectionState(p.dispatches))
      /\ capture.copySections \in Seq(Sections) /\ capture.kernelSections \in Seq(Sections)
      /\ SectionState(p.copies) \in Sections /\ SectionState(p.dispatches) \in Sections
  BY LoadTypes, ProcessEvents DEF Captures
<1> HIDE DEF loaded
<1>2. /\ SectionState(p.copies).present <=> p.copies # None
      /\ SectionState(p.dispatches).present <=> p.dispatches # None
  BY DEF SectionState
<1>3. /\ Len(loaded.copySections) = Len(Append(processes, p))
      /\ Len(loaded.kernelSections) = Len(Append(processes, p))
  BY <1>1 DEF HasSections
<1>4. ASSUME NEW k \in DOMAIN Append(processes, p)
      PROVE  /\ loaded.copySections[k].present <=> Append(processes, p)[k].copies # None
             /\ loaded.kernelSections[k].present <=> Append(processes, p)[k].dispatches # None
  <2>1. CASE k \in DOMAIN processes
    <3>1. /\ Append(processes, p)[k] = processes[k]
          /\ loaded.copySections[k] = capture.copySections[k]
          /\ loaded.kernelSections[k] = capture.kernelSections[k]
      BY <1>1, <2>1 DEF HasSections
    <3>2. QED
      BY <2>1, <3>1 DEF HasSections
  <2>2. CASE k \notin DOMAIN processes
    <3>1. k = Len(processes) + 1
      BY <2>2
    <3>2. /\ Append(processes, p)[k] = p
          /\ loaded.copySections[k] = SectionState(p.copies)
          /\ loaded.kernelSections[k] = SectionState(p.dispatches)
      BY <1>1, <3>1 DEF HasSections
    <3>3. QED
      BY <1>2, <3>2
  <2>3. QED
    BY <2>1, <2>2
<1>5. QED
  BY <1>3, <1>4 DEF HasSections, loaded

\* Another process adds its own records, and leaves the others where they are.
LEMMA RawRecordsAppend ==
  ASSUME NEW S, NEW processes \in Seq(S), NEW p \in S
  PROVE  LET K    == Len(processes) + 1
             more == Append(processes, p)
         IN  /\ RawRecords(more) = RawRecords(processes)
                    \cup {<<K, CopyDomain, i>> : i \in DOMAIN RecordsOf(p.copies)}
                    \cup {<<K, KernelDomain, i>> : i \in DOMAIN RecordsOf(p.dispatches)}
             /\ \A x \in RawRecords(processes) : x[1] # K /\ EventOf(more, x) = EventOf(processes, x)
             /\ \A i : EventOf(more, <<K, CopyDomain, i>>) = CopyEvent(p, p.copies[i])
             /\ \A i : EventOf(more, <<K, KernelDomain, i>>) = KernelEvent(p, p.dispatches[i])
<1> DEFINE K    == Len(processes) + 1
           more == Append(processes, p)
           Of(q, k) ==      {<<k, CopyDomain, i>> : i \in DOMAIN RecordsOf(q.copies)}
                       \cup {<<k, KernelDomain, i>> : i \in DOMAIN RecordsOf(q.dispatches)}
<1>1. /\ DOMAIN more = DOMAIN processes \cup {K} /\ K \notin DOMAIN processes
      /\ more[K] = p
      /\ \A k \in DOMAIN processes : more[k] = processes[k]
  OBVIOUS
<1> HIDE DEF K, more
<1>2. /\ RawRecords(more) = UNION {Of(more[k], k) : k \in DOMAIN more}
      /\ RawRecords(processes) = UNION {Of(processes[k], k) : k \in DOMAIN processes}
  BY DEF RawRecords
<1>3. \A q, k : \A x \in Of(q, k) : x[1] = k
  OBVIOUS
<1> HIDE DEF Of
<1>4. RawRecords(more) = RawRecords(processes) \cup Of(p, K)
  BY <1>1, <1>2
<1>5. ASSUME NEW x \in RawRecords(processes)
      PROVE  x[1] # K /\ EventOf(more, x) = EventOf(processes, x)
  <2>1. x[1] \in DOMAIN processes
    BY <1>2, <1>3
  <2>2. more[x[1]] = processes[x[1]]
    BY <1>1, <2>1
  <2>3. QED
    BY <1>1, <2>1, <2>2 DEF EventOf
<1>6. \A i : EventOf(more, <<K, CopyDomain, i>>) = CopyEvent(p, p.copies[i])
  BY <1>1 DEF EventOf
<1>7. \A i : EventOf(more, <<K, KernelDomain, i>>) = KernelEvent(p, p.dispatches[i])
  BY <1>1 DEF EventOf, CopyDomain, KernelDomain
<1>8. QED
  BY <1>4, <1>5, <1>6, <1>7 DEF Of, K, more

\* Where the elements of two, and of three, sequences are when they follow each other.
LEMMA TwoInARow ==
  ASSUME NEW S, NEW u \in Seq(S), NEW v \in Seq(S)
  PROVE  /\ u \o v \in Seq(S) /\ Len(u \o v) = Len(u) + Len(v)
         /\ DOMAIN (u \o v) = 1..(Len(u) + Len(v))
         /\ \A j \in 1..Len(u) : (u \o v)[j] = u[j]
         /\ \A j \in (Len(u) + 1)..(Len(u) + Len(v)) : (u \o v)[j] = v[j - Len(u)]
OBVIOUS

LEMMA ThreeInARow ==
  ASSUME NEW S, NEW u \in Seq(S), NEW v \in Seq(S), NEW w \in Seq(S)
  PROVE  /\ DOMAIN (u \o v \o w) = 1..(Len(u) + Len(v) + Len(w))
         /\ \A j \in 1..Len(u) : (u \o v \o w)[j] = u[j]
         /\ \A j \in (Len(u) + 1)..(Len(u) + Len(v)) : (u \o v \o w)[j] = v[j - Len(u)]
         /\ \A j \in (Len(u) + Len(v) + 1)..(Len(u) + Len(v) + Len(w)) :
              (u \o v \o w)[j] = w[j - (Len(u) + Len(v))]
<1> DEFINE two == u \o v
<1>1. /\ two \in Seq(S) /\ Len(two) = Len(u) + Len(v)
      /\ \A j \in 1..Len(u) : two[j] = u[j]
      /\ \A j \in (Len(u) + 1)..(Len(u) + Len(v)) : two[j] = v[j - Len(u)]
  BY TwoInARow
<1> HIDE DEF two
<1>2. /\ DOMAIN (two \o w) = 1..(Len(two) + Len(w))
      /\ \A j \in 1..Len(two) : (two \o w)[j] = two[j]
      /\ \A j \in (Len(two) + 1)..(Len(two) + Len(w)) : (two \o w)[j] = w[j - Len(two)]
  <2>1. two \in Seq(S)
    BY <1>1
  <2>2. QED
    BY <2>1, TwoInARow, Zenon
<1>3. Len(u) \in Nat /\ Len(v) \in Nat /\ Len(w) \in Nat
  OBVIOUS
<1> DEFINE all == two \o w
<1> HIDE DEF all
<1>4. /\ DOMAIN all = 1..(Len(u) + Len(v) + Len(w))
      /\ \A j \in 1..Len(u) : all[j] = u[j]
      /\ \A j \in (Len(u) + 1)..(Len(u) + Len(v)) : all[j] = v[j - Len(u)]
      /\ \A j \in (Len(u) + Len(v) + 1)..(Len(u) + Len(v) + Len(w)) : all[j] = w[j - (Len(u) + Len(v))]
  BY <1>1, <1>2, <1>3 DEF all
<1>5. QED
  BY <1>4 DEF all, two

\* The events that a process adds are those of its records, in its place.
LEMMA LoadAddsRecords ==
  ASSUME NEW capture \in Captures, NEW p \in Processes,
         NEW processes \in Seq(Records \cup Processes), HasRecords(capture, processes)
  PROVE  HasRecords(LoadProcess(capture, p), Append(processes, p))
<1> DEFINE events     == capture.events
           copies     == RecordsOf(p.copies)
           dispatches == RecordsOf(p.dispatches)
           loaded     == LoadProcess(capture, p).events
           more       == Append(processes, p)
           K          == Len(processes) + 1
           n          == Len(events)
           c          == Len(copies)
           d          == Len(dispatches)
           copied     == [i \in DOMAIN copies |-> CopyEvent(p, copies[i])]
           dispatched == [i \in DOMAIN dispatches |-> KernelEvent(p, dispatches[i])]
<1>1. PICK f : Origins(f, events, processes)
  BY DEF HasRecords
<1> DEFINE g == [j \in 1..(n + c + d) |->
                   IF j <= n THEN f[j]
                   ELSE IF j <= n + c THEN <<K, CopyDomain, j - n>>
                   ELSE <<K, KernelDomain, j - (n + c)>>]
<1>2. /\ copied \in Seq(RawEvents) /\ dispatched \in Seq(RawEvents) /\ events \in Seq(RawEvents)
      /\ loaded = events \o copied \o dispatched
  BY ProcessEvents, Zenon DEF LoadProcess, Captures
<1>3. /\ c \in Nat /\ DOMAIN copies = 1..c /\ d \in Nat /\ DOMAIN dispatches = 1..d
      /\ n \in Nat /\ DOMAIN events = 1..n
  <2>1. d \in Nat /\ DOMAIN dispatches = 1..d
    BY ProcessAssumption DEF RecordsOf
  <2>2. QED
    BY <1>2, <2>1, ProcessEvents
<1>4. /\ DOMAIN loaded = 1..(n + c + d)
      /\ \A j \in 1..n : loaded[j] = events[j]
      /\ \A j \in (n + 1)..(n + c) : loaded[j] = CopyEvent(p, copies[j - n])
      /\ \A j \in (n + c + 1)..(n + c + d) : loaded[j] = KernelEvent(p, dispatches[j - (n + c)])
  <2>1. /\ Len(copied) = c /\ Len(dispatched) = d
        /\ \A i \in 1..c : copied[i] = CopyEvent(p, copies[i])
        /\ \A i \in 1..d : dispatched[i] = KernelEvent(p, dispatches[i])
    BY <1>2, <1>3
  <2> HIDE DEF copied, dispatched, loaded, events, copies, dispatches
  <2>2. /\ DOMAIN loaded = 1..(n + Len(copied) + Len(dispatched))
        /\ \A j \in 1..n : loaded[j] = events[j]
        /\ \A j \in (n + 1)..(n + Len(copied)) : loaded[j] = copied[j - n]
        /\ \A j \in (n + Len(copied) + 1)..(n + Len(copied) + Len(dispatched)) :
             loaded[j] = dispatched[j - (n + Len(copied))]
    <3> DEFINE all == events \o copied \o dispatched
    <3>1. /\ DOMAIN all = 1..(Len(events) + Len(copied) + Len(dispatched))
          /\ \A j \in 1..Len(events) : all[j] = events[j]
          /\ \A j \in (Len(events) + 1)..(Len(events) + Len(copied)) : all[j] = copied[j - Len(events)]
          /\ \A j \in (Len(events) + Len(copied) + 1)..(Len(events) + Len(copied) + Len(dispatched)) :
               all[j] = dispatched[j - (Len(events) + Len(copied))]
      <4>1. /\ events \in Seq(RawEvents) /\ copied \in Seq(RawEvents)
            /\ dispatched \in Seq(RawEvents)
        BY <1>2
      <4>2. QED
        BY <4>1, ThreeInARow, SMTT(30)
    <3>2. loaded = all
      BY <1>2
    <3> HIDE DEF all
    <3>3. QED
      BY <3>1, <3>2
  <2> HIDE DEF n, c, d
  <2>3. /\ \A j \in (n + 1)..(n + c) : j - n \in 1..c
        /\ \A j \in (n + c + 1)..(n + c + d) : j - (n + c) \in 1..d
    BY <1>3
  <2>4. QED
    BY <2>1, <2>2, <2>3
<1>5. /\ RawRecords(more) = RawRecords(processes) \cup {<<K, CopyDomain, i>> : i \in 1..c}
                                                  \cup {<<K, KernelDomain, i>> : i \in 1..d}
      /\ \A x \in RawRecords(processes) : x[1] # K /\ EventOf(more, x) = EventOf(processes, x)
      /\ \A i \in 1..c : EventOf(more, <<K, CopyDomain, i>>) = CopyEvent(p, copies[i])
      /\ \A i \in 1..d : EventOf(more, <<K, KernelDomain, i>>) = KernelEvent(p, dispatches[i])
  BY <1>3, RawRecordsAppend, RecordsAreListed
<1>6. /\ f \in [1..n -> RawRecords(processes)]
      /\ \A i, j \in 1..n : f[i] = f[j] => i = j
      /\ \A x \in RawRecords(processes) : \E j \in 1..n : f[j] = x
      /\ \A j \in 1..n : events[j] = EventOf(processes, f[j])
  BY <1>1, <1>3 DEF Origins
<1> HIDE DEF events, copies, dispatches, loaded, more, n, c, d, K
<1>7. \A j \in 1..(n + c + d) :
        \/ j \in 1..n /\ g[j] = f[j]
        \/ j \in (n + 1)..(n + c) /\ j - n \in 1..c /\ g[j] = <<K, CopyDomain, j - n>>
        \/ /\ j \in (n + c + 1)..(n + c + d) /\ j - (n + c) \in 1..d
           /\ g[j] = <<K, KernelDomain, j - (n + c)>>
  BY <1>3
<1>8. /\ \A j \in 1..n : g[j] = f[j]
      /\ \A i \in 1..c : n + i \in 1..(n + c + d) /\ g[n + i] = <<K, CopyDomain, i>>
      /\ \A i \in 1..d : n + c + i \in 1..(n + c + d) /\ g[n + c + i] = <<K, KernelDomain, i>>
  <2>1. \A j \in 1..n : g[j] = f[j]
    BY <1>3
  <2>2. \A i \in 1..c : n + i \in 1..(n + c + d) /\ g[n + i] = <<K, CopyDomain, i>>
    BY <1>3
  <2>3. \A i \in 1..d : n + c + i \in 1..(n + c + d) /\ g[n + c + i] = <<K, KernelDomain, i>>
    BY <1>3
  <2>4. QED
    BY <2>1, <2>2, <2>3
<1>9. DOMAIN g = 1..(n + c + d) /\ g = [j \in 1..(n + c + d) |-> g[j]]
  OBVIOUS
<1> HIDE DEF g
<1>10. g \in [1..(n + c + d) -> RawRecords(more)]
  <2>1. ASSUME NEW j \in 1..(n + c + d)
        PROVE  g[j] \in RawRecords(more)
    <3>1. CASE j \in 1..n /\ g[j] = f[j]
      BY <1>5, <1>6, <3>1
    <3>2. CASE j - n \in 1..c /\ g[j] = <<K, CopyDomain, j - n>>
      BY <1>5, <3>2
    <3>3. CASE j - (n + c) \in 1..d /\ g[j] = <<K, KernelDomain, j - (n + c)>>
      BY <1>5, <3>3
    <3>4. QED
      BY <1>7, <3>1, <3>2, <3>3
  <2>2. QED
    BY <1>9, <2>1
<1>11. ASSUME NEW i \in 1..(n + c + d), NEW j \in 1..(n + c + d), g[i] = g[j]
       PROVE  i = j
  <2>1. \A k \in 1..n : f[k][1] # K
    BY <1>5, <1>6
  <2>2. CopyDomain # KernelDomain
    BY DEF CopyDomain, KernelDomain
  <2>3. CASE i \in 1..n \/ j \in 1..n
    BY <1>3, <1>6, <1>7, <1>11, <2>1, <2>3
  <2>4. CASE i \notin 1..n /\ j \notin 1..n
    <3>1. \/ i - n = j - n
          \/ i - (n + c) = j - (n + c)
      BY <1>7, <1>11, <2>2, <2>4
    <3>2. QED
      BY <1>3, <3>1
  <2>5. QED
    BY <2>3, <2>4
<1>12. ASSUME NEW x \in RawRecords(more)
       PROVE  \E j \in 1..(n + c + d) : g[j] = x
  <2>1. CASE x \in RawRecords(processes)
    <3>1. PICK j \in 1..n : f[j] = x
      BY <1>6, <2>1
    <3>2. j \in 1..(n + c + d)
      BY <1>3
    <3>3. g[j] = x
      BY <1>8, <3>1
    <3>4. QED
      BY <3>2, <3>3
  <2>2. CASE x \notin RawRecords(processes)
    BY <1>5, <1>8, <2>2
  <2>3. QED
    BY <2>1, <2>2
<1>13. ASSUME NEW j \in 1..(n + c + d)
       PROVE  loaded[j] = EventOf(more, g[j])
  <2>1. CASE j \in 1..n /\ g[j] = f[j]
    BY <1>4, <1>5, <1>6, <2>1
  <2>2. CASE j \in (n + 1)..(n + c) /\ j - n \in 1..c /\ g[j] = <<K, CopyDomain, j - n>>
    BY <1>4, <1>5, <2>2
  <2>3. CASE /\ j \in (n + c + 1)..(n + c + d) /\ j - (n + c) \in 1..d
             /\ g[j] = <<K, KernelDomain, j - (n + c)>>
    BY <1>4, <1>5, <2>3
  <2>4. QED
    BY <1>7, <2>1, <2>2, <2>3
<1>14. Origins(g, loaded, more)
  BY <1>4, <1>10, <1>11, <1>12, <1>13 DEF Origins
<1>15. QED
  BY <1>14 DEF HasRecords, loaded, more

\* The events that are equal are as many as the records that they are the events of.
LEMMA OriginsCount ==
  ASSUME NEW events, NEW processes, IsFiniteSet(DOMAIN events), NEW f, Origins(f, events, processes)
  PROVE  OneEventEach(events, processes)
<1>1. SUFFICES ASSUME NEW e
               PROVE  Cardinality({j \in DOMAIN events : events[j] = e})
                        = Cardinality({x \in RawRecords(processes) : EventOf(processes, x) = e})
  BY DEF OneEventEach
<1> DEFINE A == {j \in DOMAIN events : events[j] = e}
           B == {x \in RawRecords(processes) : EventOf(processes, x) = e}
           h == [j \in A |-> f[j]]
<1>2. h \in [A -> B] /\ \A i, j \in A : h[i] = h[j] => i = j
  BY DEF Origins
<1>3. \A x \in B : \E j \in A : h[j] = x
  BY DEF Origins
<1>4. IsFiniteSet(A)
  BY FS_Subset
<1> HIDE DEF A, B, h
<1>5. h \in Bijection(A, B)
  BY <1>2, <1>3, Fun_IsBij
<1>6. ExistsBijection(A, B)
  BY <1>5, Fun_ExistsBij
<1>7. Cardinality(B) = Cardinality(A)
  BY <1>4, <1>6, FS_Bijection
<1>8. QED
  BY <1>7 DEF A, B

-----------------------------------------------------------------------------
(* The invariant                                                             *)

LEMMA InitInvariant == Init => IInv
<1> SUFFICES ASSUME Init PROVE IInv
  OBVIOUS
<1>1. <<>> \in Seq(RawEvents) /\ <<>> \in Seq(Sections) /\ <<>> \in Seq(Records \cup Processes)
  OBVIOUS
<1>2. NoCapture \in Captures
  BY <1>1 DEF NoCapture, Captures
<1>3. CapturesOK
  BY <1>1, <1>2 DEF Init, CapturesOK
<1>4. NothingIsLost
  <2>1. \A lane \in Lanes : captures[lane] = NoCapture /\ input[lane] = <<>>
    BY DEF Init
  <2>2. HasSections(NoCapture, <<>>)
    BY DEF HasSections, NoCapture
  <2>3. HasRecords(NoCapture, <<>>)
    <3>1. RawRecords(<<>>) = {} /\ DOMAIN NoCapture.events = {}
      BY DEF RawRecords, NoCapture
    <3>2. Origins(<<>>, NoCapture.events, <<>>)
      BY <3>1 DEF Origins
    <3>3. QED
      BY <3>2 DEF HasRecords
  <2>4. QED
    BY <2>1, <2>2, <2>3 DEF NothingIsLost
<1>5. ReportIsOfCaptures
  BY DEF Init, ReportIsOfCaptures, Audited
<1>6. ExitsAreHonest
  BY NoneAssumption DEF Init, ExitsAreHonest, ExitZeroMeansFreshPass
<1>7. QED
  BY <1>3, <1>4, <1>5, <1>6 DEF IInv

\* Nothing is loaded.
LEMMA CapturesStay ==
  ASSUME CapturesOK, NothingIsLost, UNCHANGED <<command, captures, input>>
  PROVE  CapturesOK' /\ NothingIsLost'
<1>1. CapturesOK'
  BY DEF CapturesOK
<1>2. NothingIsLost'
  BY DEF NothingIsLost
<1>3. QED
  BY <1>1, <1>2

\* A verdict is a function of the command line and the captures.
LEMMA VerdictStays ==
  ASSUME UNCHANGED <<command, captures>>
  PROVE  Verdict(captures)' = Verdict(captures) /\ (VerdictRaises' <=> VerdictRaises)
BY DEF Verdict, VerdictRaises, RocprofStatus, PairArguments, UnresolvedKernels, ResolvedKernels,
       CsvDiffers

LEMMA ReportStays ==
  ASSUME ReportIsOfCaptures, UNCHANGED <<command, loading, captures, report>>
  PROVE  ReportIsOfCaptures'
<1>1. Audited' <=> Audited
  BY DEF Audited
<1>2. QED
  BY <1>1, VerdictStays DEF ReportIsOfCaptures

\* While a lane is loaded there is no report, and the disk is as it was.
LEMMA StillLoading ==
  ASSUME IInv, loading # "done", UNCHANGED <<command, report, file, exit>>
  PROVE  ReportIsOfCaptures' /\ ExitsAreHonest'
<1>1. report = None
  BY DEF IInv, ReportIsOfCaptures
<1>2. ReportIsOfCaptures'
  BY <1>1 DEF ReportIsOfCaptures, Audited
<1>3. ExitsAreHonest'
  BY DEF IInv, ExitsAreHonest, ExitZeroMeansFreshPass
<1>4. QED
  BY <1>2, <1>3

LEMMA ReadRecordKeeps ==
  ASSUME IInv, NEW lane \in Lanes, NEW r \in Records, ReadRecord(lane, r)
  PROVE  IInv'
<1>1. /\ captures' = [captures EXCEPT ![lane].events = Append(@, r)]
      /\ input' = [input EXCEPT ![lane] = Append(@, r)]
      /\ UNCHANGED <<command, loading, report, file, exit>>
      /\ loading # "done" /\ command.tool # "rocprof"
  BY DEF ReadRecord, Loads, Lanes
<1>2. captures \in [Lanes -> Captures] /\ [captures[lane] EXCEPT !.events = Append(@, r)] \in Captures
  BY ReadTypes DEF IInv, CapturesOK
<1>3. captures' \in [Lanes -> Captures]
  <2> DEFINE more == [captures[lane] EXCEPT !.events = Append(@, r)]
  <2>1. captures' = [captures EXCEPT ![lane] = more]
    BY <1>1
  <2> HIDE DEF more
  <2>2. more \in Captures
    BY <1>2 DEF more
  <2>3. QED
    BY <1>2, <2>1, <2>2
<1>4. DOMAIN input' = Lanes /\ \A l \in Lanes : input'[l] \in Seq(Records \cup Processes)
  BY <1>1 DEF IInv, CapturesOK
<1>5. CapturesOK'
  BY <1>1, <1>3, <1>4 DEF IInv, CapturesOK
<1>6. NothingIsLost'
  BY <1>1 DEF NothingIsLost
<1>7. ReportIsOfCaptures' /\ ExitsAreHonest'
  BY <1>1, StillLoading
<1>8. QED
  BY <1>5, <1>6, <1>7 DEF IInv

LEMMA ReadProcessKeeps ==
  ASSUME IInv, NEW lane \in Lanes, NEW p \in Processes, ReadProcess(lane, p)
  PROVE  IInv'
<1>1. /\ captures' = [captures EXCEPT ![lane] = LoadProcess(@, p)]
      /\ input' = [input EXCEPT ![lane] = Append(@, p)]
      /\ UNCHANGED <<command, loading, report, file, exit>>
      /\ loading # "done" /\ command.tool = "rocprof"
  BY DEF ReadProcess, Loads, Lanes
<1>2. /\ captures \in [Lanes -> Captures] /\ LoadProcess(captures[lane], p) \in Captures
      /\ \A l \in Lanes : captures[l] \in Captures
  BY LoadTypes DEF IInv, CapturesOK
<1>3. /\ captures' \in [Lanes -> Captures]
      /\ \A l \in Lanes : captures'[l] = IF l = lane THEN LoadProcess(captures[lane], p) ELSE captures[l]
  BY <1>1, <1>2
<1>4. /\ DOMAIN input' = Lanes /\ \A l \in Lanes : input'[l] \in Seq(Records \cup Processes)
      /\ \A l \in Lanes : input'[l] = IF l = lane THEN Append(input[lane], p) ELSE input[l]
      /\ input[lane] \in Seq(Records \cup Processes)
  BY <1>1 DEF IInv, CapturesOK
<1>5. CapturesOK'
  BY <1>1, <1>3, <1>4 DEF IInv, CapturesOK
<1>6. ASSUME NEW l \in Lanes, NEW k \in DOMAIN input'[l]
      PROVE  HasProcess(captures'[l], input'[l][k])
  <2>1. CASE l # lane
    BY <1>1, <1>3, <1>4, <1>6, <2>1 DEF IInv, NothingIsLost
  <2>2. CASE l = lane /\ k \in DOMAIN input[lane]
    <3>1. HasProcess(captures[lane], input[lane][k])
      BY <1>1, <2>2 DEF IInv, NothingIsLost
    <3>2. captures'[l] = LoadProcess(captures[lane], p) /\ input'[l][k] = input[lane][k]
      BY <1>3, <1>4, <2>2
    <3>3. QED
      BY <1>2, <3>1, <3>2, LoadKeepsProcesses
  <2>3. CASE l = lane /\ k \notin DOMAIN input[lane]
    <3>1. captures'[l] = LoadProcess(captures[lane], p) /\ input'[l][k] = p
      BY <1>3, <1>4, <1>6, <2>3
    <3>2. QED
      BY <1>2, <3>1, LoadAddsProcess
  <2>4. QED
    BY <2>1, <2>2, <2>3
<1>7. ASSUME NEW l \in Lanes
      PROVE  HasSections(captures'[l], input'[l])
  <2>1. HasSections(captures[l], input[l])
    BY <1>1 DEF IInv, NothingIsLost
  <2>2. QED
    BY <1>2, <1>3, <1>4, <2>1, LoadKeepsSections
<1>8. ASSUME NEW l \in Lanes
      PROVE  HasRecords(captures'[l], input'[l])
  <2>1. HasRecords(captures[l], input[l])
    BY <1>1 DEF IInv, NothingIsLost
  <2>2. QED
    BY <1>2, <1>3, <1>4, <2>1, LoadAddsRecords
<1>9. NothingIsLost'
  BY <1>6, <1>7, <1>8 DEF NothingIsLost
<1>10. ReportIsOfCaptures' /\ ExitsAreHonest'
  BY <1>1, StillLoading
<1>11. QED
  BY <1>5, <1>9, <1>10 DEF IInv

LEMMA LoadingEndsKeeps ==
  ASSUME IInv, LaneRead \/ LoadFails
  PROVE  IInv'
<1>1. loading # "done" /\ exit = None /\ UNCHANGED <<command, captures, input, report, file>>
  BY DEF LaneRead, LoadFails
<1>2. CapturesOK' /\ NothingIsLost'
  BY <1>1, CapturesStay DEF IInv
<1>3. LaneRead => ReportIsOfCaptures' /\ ExitsAreHonest'
  BY <1>1, StillLoading DEF LaneRead
<1>4. LoadFails => ReportIsOfCaptures'
  BY <1>1, ReportStays DEF LoadFails, IInv
<1>5. LoadFails => ExitsAreHonest'
  BY <1>1, NoneAssumption
  DEF LoadFails, IInv, ReportIsOfCaptures, ExitsAreHonest, ExitZeroMeansFreshPass
<1>6. QED
  BY <1>2, <1>3, <1>4, <1>5 DEF IInv

LEMMA JudgeKeeps ==
  ASSUME IInv, Judge \/ JudgeRaises
  PROVE  IInv'
<1>1. /\ loading = "done" /\ report = None /\ exit = None
      /\ UNCHANGED <<command, loading, captures, input, file>>
  BY DEF Judge, JudgeRaises
<1>2. CapturesOK' /\ NothingIsLost'
  BY <1>1, CapturesStay DEF IInv
<1>3. CASE Judge
  <2>1. (command.tool # "lanes" /\ ~command.self) =>
          /\ report' = [status |-> Verdict(captures)]
          /\ ~VerdictRaises
    BY <1>3 DEF Judge
  <2>2. (command.tool # "lanes" /\ ~command.self) =>
          report'.status = Verdict(captures) /\ ~VerdictRaises
    BY <2>1
  <2>3. ReportIsOfCaptures'
    BY <1>1, <2>2, VerdictStays DEF ReportIsOfCaptures, Audited
  <2>4. exit' = None
    BY <1>3 DEF Judge
  <2>5. ExitsAreHonest'
    BY <1>1, <2>4, NoneAssumption DEF IInv, ExitsAreHonest, ExitZeroMeansFreshPass
  <2>6. QED
    BY <1>2, <2>3, <2>5 DEF IInv
<1>4. CASE JudgeRaises
  <2>1. report' = None /\ exit' = 2
    BY <1>4 DEF JudgeRaises
  <2>2. ReportIsOfCaptures'
    BY <2>1 DEF ReportIsOfCaptures, Audited
  <2>3. ExitsAreHonest'
    BY <1>1, <2>1, NoneAssumption DEF IInv, ExitsAreHonest, ExitZeroMeansFreshPass
  <2>4. QED
    BY <1>2, <2>2, <2>3 DEF IInv
<1>5. QED
  BY <1>3, <1>4

LEMMA WriteKeeps ==
  ASSUME IInv, WriteReport \/ WriteFails
  PROVE  IInv'
<1>1. UNCHANGED <<command, loading, captures, input, report>> /\ report # None /\ exit = None
  BY DEF WriteReport, WriteFails
<1>2. CapturesOK' /\ NothingIsLost' /\ ReportIsOfCaptures'
  BY <1>1, CapturesStay, ReportStays DEF IInv
<1>3. WriteReport => ExitsAreHonest'
  BY <1>1, NoneAssumption DEF WriteReport, ExitsAreHonest, ExitZeroMeansFreshPass
<1>4. WriteFails => ExitsAreHonest'
  <2>1. file \in {"absent", "stale"}
    BY <1>1 DEF IInv, ExitsAreHonest
  <2>2. QED
    BY <1>1, <2>1, NoneAssumption DEF WriteFails, ExitsAreHonest, ExitZeroMeansFreshPass
<1>5. QED
  BY <1>2, <1>3, <1>4 DEF IInv

LEMMA StepInvariant == IInv /\ [Next]_vars => IInv'
<1> SUFFICES ASSUME IInv, [Next]_vars PROVE IInv'
  OBVIOUS
<1>1. CASE UNCHANGED vars
  <2>1. UNCHANGED <<command, loading, captures, input, report, file, exit>>
    BY <1>1 DEF vars
  <2>2. CapturesOK' /\ NothingIsLost' /\ ReportIsOfCaptures'
    BY <2>1, CapturesStay, ReportStays DEF IInv
  <2>3. ExitsAreHonest'
    BY <2>1 DEF IInv, ExitsAreHonest, ExitZeroMeansFreshPass
  <2>4. QED
    BY <2>2, <2>3 DEF IInv
<1>2. QED
  BY <1>1, ReadRecordKeeps, ReadProcessKeeps, LoadingEndsKeeps, JudgeKeeps, WriteKeeps DEF Next

-----------------------------------------------------------------------------

\* The inductive invariant: nothing that a process says about itself is lost on
\* the way to the verdict, which is that of the captures.
THEOREM Invariance == Spec => []IInv
BY InitInvariant, StepInvariant, PTL DEF Spec

\* The exit status and the file on the disk agree with the verdict, whatever
\* the traces are and wherever reading or writing fails.
THEOREM ExitStatusIsHonest == Spec => []ExitZeroMeansFreshPass
<1>1. IInv => ExitZeroMeansFreshPass
  BY DEF IInv, ExitsAreHonest
<1>2. QED
  BY <1>1, Invariance, PTL

-----------------------------------------------------------------------------
(* What makes a verdict FAIL                                                 *)

LEMMA LongerTraces ==
  ASSUME NEW events, NEW more, Extends(more, events)
  PROVE  /\ Extends(Normalized(more), Normalized(events))
         /\ CopiesOf(events) \subseteq CopiesOf(more)
         /\ SignaturesOf(events) \subseteq SignaturesOf(more)
         /\ \A payload : PayloadsOf(events, payload) \subseteq PayloadsOf(more, payload)
<1>1. Extends(Normalized(more), Normalized(events))
  BY DEF Extends, Normalized
<1>2. CopiesOf(events) \subseteq CopiesOf(more)
  BY DEF CopiesOf, OfType, Extends
<1>3. SignaturesOf(events) \subseteq SignaturesOf(more)
  BY <1>2 DEF SignaturesOf
<1>4. ASSUME NEW payload
      PROVE  PayloadsOf(events, payload) \subseteq PayloadsOf(more, payload)
  BY <1>2 DEF PayloadsOf
<1>5. QED
  BY <1>1, <1>2, <1>3, <1>4

LEMMA LongerCounts ==
  ASSUME NEW events, NEW more, IsFiniteSet(DOMAIN more), Extends(more, events),
         NEW size, NEW direction
  PROVE  /\ PayloadCount(events, size, direction) \in Nat
         /\ PayloadCount(more, size, direction) \in Nat
         /\ PayloadCount(events, size, direction) <= PayloadCount(more, size, direction)
<1> DEFINE Of(s) == {i \in DOMAIN s : s[i].type = "memory_copy" /\ s[i].bytes = size
                                                             /\ s[i].direction = direction}
<1>1. Of(events) \subseteq Of(more)
  BY DEF Extends
<1>2. IsFiniteSet(Of(more))
  BY FS_Subset
<1>3. /\ IsFiniteSet(Of(events)) /\ Cardinality(Of(events)) <= Cardinality(Of(more))
      /\ Cardinality(Of(events)) \in Nat /\ Cardinality(Of(more)) \in Nat
  <2> HIDE DEF Of
  <2>1. QED
    BY <1>1, <1>2, FS_Subset, FS_CardinalityType
<1>4. /\ PayloadCount(events, size, direction) = Cardinality(Of(events))
      /\ PayloadCount(more, size, direction) = Cardinality(Of(more))
  BY DEF PayloadCount, OfType
<1>5. QED
  BY <1>3, <1>4

FramesOK(args) ==
  \/ args.refFrames = None
  \/ args.refFrames \in Nat \ {0} /\ args.manFrames \in Nat \ {0}

\* More records of the managed lane, and the same failure.
LEMMA FailuresStay ==
  ASSUME NEW ref, NEW man, NEW more, NEW args, FramesOK(args),
         IsFiniteSet(DOMAIN ref), IsFiniteSet(DOMAIN more), Extends(more, man),
         Failures(ref, man, args)
  PROVE  Failures(ref, more, args)
<1>1. ExtraCopies(ref, man, args) \subseteq ExtraCopies(ref, more, args)
  BY LongerTraces DEF ExtraCopies
<1>2. ASSUME NEW key \in ExcessRates(ref, man, args)
      PROVE  key \in ExcessRates(ref, more, args)
  <2> DEFINE r == PayloadCount(ref, key[1], key[2])
             m == PayloadCount(man, key[1], key[2])
             n == PayloadCount(more, key[1], key[2])
             rf == args.refFrames
             mf == args.manFrames
  <2>1. /\ args.refFrames # None
        /\ key \in PayloadsOf(ref, args.payload) \cup PayloadsOf(man, args.payload)
        /\ Upper(key[2]) \notin Adapters(args)
        /\ 20 * (m * rf - r * mf) > rf * mf
    BY <1>2 DEF ExcessRates
  <2>2. key \in PayloadsOf(ref, args.payload) \cup PayloadsOf(more, args.payload)
    BY <2>1, LongerTraces
  <2>3. m \in Nat /\ n \in Nat /\ m <= n /\ r \in Nat
    <3>1. Extends(ref, ref)
      BY DEF Extends
    <3>2. QED
      BY <3>1, LongerCounts
  <2>4. rf \in Nat /\ mf \in Nat
    BY <2>1 DEF FramesOK
  <2>5. 20 * (n * rf - r * mf) > rf * mf
    <3> HIDE DEF r, m, n, rf, mf
    <3>1. n * rf >= m * rf
      BY <2>3, <2>4
    <3>2. n * rf \in Int /\ m * rf \in Int /\ r * mf \in Int /\ rf * mf \in Int
      BY <2>3, <2>4
    <3> DEFINE nr == n * rf
               mr == m * rf
               rm == r * mf
               ff == rf * mf
    <3>3. nr >= mr /\ nr \in Int /\ mr \in Int /\ rm \in Int /\ ff \in Int /\ 20 * (mr - rm) > ff
      BY <2>1, <3>1, <3>2
    <3> HIDE DEF nr, mr, rm, ff
    <3>4. 20 * (nr - rm) > ff
      BY <3>3
    <3>5. QED
      BY <3>4 DEF nr, rm, ff
  <2>6. QED
    BY <2>1, <2>2, <2>5 DEF ExcessRates
<1>3. QED
  BY <1>1, <1>2 DEF Failures

\* A lane has no failures against itself, over no fewer frames.
LEMMA NoFailureOfItsOwn ==
  ASSUME NEW ref, NEW args, FramesOK(args), IsFiniteSet(DOMAIN ref),
         args.refFrames = None \/ args.manFrames >= args.refFrames, ~Confirmed(args.evidence)
  PROVE  ~Failures(ref, ref, args)
<1>1. ExtraCopies(ref, ref, args) = {}
  BY DEF ExtraCopies
<1>2. ASSUME NEW key \in ExcessRates(ref, ref, args)
      PROVE  FALSE
  <2> DEFINE r == PayloadCount(ref, key[1], key[2])
             rf == args.refFrames
             mf == args.manFrames
  <2>1. /\ args.refFrames # None
        /\ 20 * (r * rf - r * mf) > rf * mf
    BY <1>2 DEF ExcessRates
  <2>2. r \in Nat
    <3>1. Extends(ref, ref)
      BY DEF Extends
    <3>2. QED
      BY <3>1, LongerCounts
  <2>3. rf \in Nat /\ mf \in Nat /\ mf >= rf
    BY <2>1 DEF FramesOK
  <2> HIDE DEF r, rf, mf
  <2>4. r * rf <= r * mf /\ rf * mf >= 0 /\ r * rf \in Int /\ r * mf \in Int /\ rf * mf \in Int
    BY <2>2, <2>3
  <2> DEFINE x == r * rf
             y == r * mf
             z == rf * mf
  <2>5. x <= y /\ z >= 0 /\ x \in Int /\ y \in Int /\ z \in Int /\ 20 * (x - y) > z
    BY <2>1, <2>4
  <2> HIDE DEF x, y, z
  <2>6. QED
    BY <2>5
<1>3. QED
  BY <1>1, <1>2 DEF Failures

\* The arguments of build_pair_report() are those of the command line.
LEMMA AuditArguments ==
  ASSUME IInv, Audited
  PROVE  /\ command.tool \in {"rocprof", "nsys"}
         /\ PairArguments.payload = command.payload
         /\ PairArguments.refFrames = command.refFrames
         /\ PairArguments.manFrames = command.manFrames
         /\ PairArguments.evidence = command.evidence
         /\ FramesOK(PairArguments)
         /\ command.tool = "nsys" => Adapters(PairArguments) = {}
<1>1. /\ command.tool \in {"rocprof", "nsys"}
      /\ DOMAIN command = {"tool", "self", "payload", "refFrames", "manFrames", "adapters", "required",
                          "evidence", "risks", "bindings", "manifests", "csv"}
      /\ command.refFrames = None \/ command.refFrames \in Int
      /\ command.manFrames = None \/ command.manFrames \in Int
  BY CommandAssumption DEF IInv, CapturesOK, Tools, Audited
<1>2. \/ /\ command.tool = "rocprof"
         /\ PairArguments = [command EXCEPT !.adapters = IF @ = {} THEN {"H2D", "D2H"} ELSE @]
      \/ /\ command.tool = "nsys"
         /\ PairArguments = [command EXCEPT !.adapters = {}, !.required = FALSE]
  BY <1>1 DEF PairArguments
<1>3. /\ PairArguments.payload = command.payload
      /\ PairArguments.refFrames = command.refFrames
      /\ PairArguments.manFrames = command.manFrames
      /\ PairArguments.evidence = command.evidence
      /\ command.tool = "nsys" => PairArguments.adapters = {}
  BY <1>1, <1>2
<1>4. ~FramesRaise(PairArguments)
  <2>1. ~PairRaises(command)
    BY DEF IInv, ReportIsOfCaptures, VerdictRaises, Audited
  <2>2. QED
    BY <1>3, <2>1 DEF PairRaises, FramesRaise
<1>5. FramesOK(PairArguments)
  BY <1>1, <1>3, <1>4 DEF FramesRaise, FramesOK
<1>6. QED
  BY <1>1, <1>3, <1>5 DEF Adapters

\* Both audits fail for what build_pair_report() fails for, and for nothing else.
LEMMA FailMeansFailures ==
  ASSUME command.tool \in {"rocprof", "nsys"}, NEW pair
  PROVE  Verdict(pair) = "FAIL"
           <=> Failures(EventsOf(pair["reference"]), EventsOf(pair["managed"]), PairArguments)
<1>1. \A complete : PairStatus(EventsOf(pair["reference"]), EventsOf(pair["managed"]),
                                PairArguments, complete) = "FAIL"
        <=> Failures(EventsOf(pair["reference"]), EventsOf(pair["managed"]), PairArguments)
  BY DEF PairStatus
<1>2. CASE command.tool = "rocprof"
  <2>1. Verdict(pair) = RocprofStatus(pair)
    BY <1>2 DEF Verdict
  <2>2. QED
    BY <1>1, <2>1 DEF RocprofStatus
<1>3. CASE command.tool = "nsys"
  BY <1>1, <1>3 DEF Verdict
<1>4. QED
  BY <1>2, <1>3

LEMMA CaptureTypes ==
  ASSUME IInv, NEW lane \in Lanes
  PROVE  /\ captures[lane] \in Captures
         /\ IsFiniteSet(DOMAIN EventsOf(captures[lane]))
<1>1. captures[lane] \in Captures
  BY DEF IInv, CapturesOK
<1>2. \A capture \in Captures : IsFiniteSet(DOMAIN EventsOf(capture))
  <2> SUFFICES ASSUME NEW capture \in Captures PROVE IsFiniteSet(DOMAIN EventsOf(capture))
    OBVIOUS
  <2>1. Len(capture.events) \in Nat /\ DOMAIN capture.events = 1..Len(capture.events)
    BY DEF Captures
  <2>2. DOMAIN EventsOf(capture) = DOMAIN capture.events
    BY DEF EventsOf, Normalized
  <2>3. QED
    BY <2>1, <2>2, FS_Interval
<1>3. QED
  BY <1>1, <1>2

\* More managed records never take a FAIL back.
THEOREM FailuresAreFinal == Spec => []FailIsMonotone
<1>1. IInv => FailIsMonotone
  <2> SUFFICES ASSUME IInv, Audited, report.status = "FAIL",
                      NEW x \in IF command.tool = "rocprof" THEN Processes ELSE Records
               PROVE  Verdict([captures EXCEPT !["managed"] =
                                 IF command.tool = "rocprof" THEN LoadProcess(captures["managed"], x)
                                 ELSE [captures["managed"] EXCEPT !.events = Append(@, x)]]) = "FAIL"
    BY DEF FailIsMonotone
  <2> DEFINE longer == IF command.tool = "rocprof" THEN LoadProcess(captures["managed"], x)
                       ELSE [captures["managed"] EXCEPT !.events = Append(@, x)]
             pair == [captures EXCEPT !["managed"] = longer]
             ref  == EventsOf(captures["reference"])
  <2>1. /\ captures["managed"] \in Captures /\ captures["reference"] \in Captures
        /\ IsFiniteSet(DOMAIN ref) /\ DOMAIN captures = Lanes
    BY CaptureTypes DEF Lanes, IInv, CapturesOK
  <2>2. longer \in Captures /\ Extends(longer.events, captures["managed"].events)
    <3>1. CASE command.tool = "rocprof"
      BY <2>1, <3>1, LoadTypes
    <3>2. CASE command.tool # "rocprof"
      BY <2>1, <3>2, ReadTypes
    <3>3. QED
      BY <3>1, <3>2
  <2> HIDE DEF longer
  <2>3. pair["managed"] = longer /\ pair["reference"] = captures["reference"]
    BY <2>1 DEF Lanes
  <2>4. Extends(EventsOf(longer), EventsOf(captures["managed"]))
    BY <2>2, LongerTraces DEF EventsOf
  <2>5. IsFiniteSet(DOMAIN EventsOf(longer))
    <3>1. Len(longer.events) \in Nat /\ DOMAIN longer.events = 1..Len(longer.events)
      BY <2>2 DEF Captures
    <3>2. DOMAIN EventsOf(longer) = DOMAIN longer.events
      BY DEF EventsOf, Normalized
    <3>3. QED
      BY <3>1, <3>2, FS_Interval
  <2>6. Failures(ref, EventsOf(captures["managed"]), PairArguments)
    BY AuditArguments, FailMeansFailures DEF IInv, ReportIsOfCaptures
  <2>7. Failures(ref, EventsOf(longer), PairArguments)
    BY <2>1, <2>4, <2>5, <2>6, AuditArguments, FailuresStay
  <2> HIDE DEF pair
  <2>8. Verdict(pair) = "FAIL"
    BY <2>3, <2>7, AuditArguments, FailMeansFailures
  <2>9. QED
    BY <2>8 DEF pair, longer
<1>2. QED
  BY <1>1, Invariance, PTL

\* A lane never fails against itself, unless boundary evidence is confirmed.
THEOREM SelfComparisonIsSafe == Spec => []SelfComparisonNeverFails
<1>1. IInv => SelfComparisonNeverFails
  <2> SUFFICES ASSUME IInv, Audited, captures["managed"] = captures["reference"],
                      command.refFrames = None \/ command.manFrames >= command.refFrames,
                      ~Confirmed(command.evidence)
               PROVE  /\ report.status # "FAIL"
                      /\ RiskyKernels(EventsOf(captures["reference"]), EventsOf(captures["managed"]),
                                      PairArguments) = {}
    BY DEF SelfComparisonNeverFails
  <2> DEFINE ref == EventsOf(captures["reference"])
  <2>1. IsFiniteSet(DOMAIN ref)
    BY CaptureTypes DEF Lanes
  <2>2. /\ FramesOK(PairArguments) /\ ~Confirmed(PairArguments.evidence)
        /\ PairArguments.refFrames = None \/ PairArguments.manFrames >= PairArguments.refFrames
    BY AuditArguments
  <2>3. ~Failures(ref, ref, PairArguments)
    BY <2>1, <2>2, NoFailureOfItsOwn
  <2>4. Verdict(captures) # "FAIL"
    BY <2>3, AuditArguments, FailMeansFailures
  <2>5. RiskyKernels(ref, ref, PairArguments) = {}
    BY DEF RiskyKernels
  <2>6. QED
    BY <2>4, <2>5 DEF IInv, ReportIsOfCaptures
<1>2. QED
  BY <1>1, Invariance, PTL

-----------------------------------------------------------------------------
(* What a PASS is built on                                                   *)

\* A handle that is looked up without a complaint is one agent's, with a role.
LEMMA HandleIsOneAgents ==
  ASSUME NEW p \in Processes, AgentDiagnostics(p) = {}, NEW h, Resolves(p, h)
  PROVE  LET own == {i \in DOMAIN p.agents : p.agents[i].handle = h}
         IN  /\ Cardinality(own) = 1
             /\ \A i \in own : p.agents[i].role \in {"host", "device"}
<1> DEFINE own == {i \in DOMAIN p.agents : p.agents[i].handle = h}
<1>1. /\ ~\E i \in Handled(p) : p.agents[i].role = None
      /\ ~\E i, j \in Handled(p) : i # j /\ p.agents[i].handle = p.agents[j].handle
  <2>1. "agent_role_unresolved" \notin AgentDiagnostics(p)
        /\ "duplicate_agent_handle" \notin AgentDiagnostics(p)
    OBVIOUS
  <2>2. QED
    BY <2>1 DEF AgentDiagnostics
<1>2. h # None /\ \E i \in Handled(p) : p.agents[i].handle = h
  BY DEF Resolves, AgentTable
<1>3. own \subseteq Handled(p)
  BY <1>2 DEF Handled
<1>4. PICK i \in own : own = {i}
  BY <1>1, <1>2, <1>3 DEF Handled
<1>5. Cardinality(own) = 1
  BY <1>4, FS_Singleton
<1>6. \A j \in own : p.agents[j].role \in {"host", "device"}
  BY <1>1, <1>3, ProcessAssumption
<1>7. QED
  BY <1>5, <1>6

\* What a lookup finds is a name of the table, by number or in an object.
LEMMA LookupFinds ==
  ASSUME NEW p, NEW kind, NEW operation, LookupOperation(p, kind, operation) # None
  PROVE  LET name       == LookupOperation(p, kind, operation)
             operations == OperationTable(p)[kind]
             Names(key) == key \in DOMAIN operations.names /\ operations.names[key] = name
         IN  /\ operation # None /\ kind \in DOMAIN OperationTable(p)
             /\ \E key \in DOMAIN operations.names : Names(key)
             /\ operation.number = None =>
                  ~operations.array /\ (operation.text = name \/ Names(operation.key))
<1> DEFINE operations == OperationTable(p)[kind]
           name       == LookupOperation(p, kind, operation)
<1>1. /\ operation # None /\ kind \in DOMAIN OperationTable(p)
      /\ name = IF KeyedName(operations, operation) # None THEN KeyedName(operations, operation)
                ELSE NameItself(operations, operation)
  BY DEF LookupOperation
<1> HIDE DEF operations, name
<1>2. CASE KeyedName(operations, operation) # None
  BY <1>1, <1>2 DEF KeyedName, operations, name
<1>3. CASE KeyedName(operations, operation) = None
  <2>1. NameItself(operations, operation) # None
    BY <1>1, <1>3 DEF name
  <2>2. QED
    BY <1>1, <1>3, <2>1 DEF NameItself, operations, name
<1>4. QED
  BY <1>2, <1>3

\* A copy without a complaint, and whose event has its size, is understood.
LEMMA CopyIsUnderstood ==
  ASSUME NEW p \in Processes, AgentDiagnostics(p) = {}, NEW i \in DOMAIN RecordsOf(p.copies),
         CopyDiagnostics(p, p.copies[i]) = {},
         NormalizeEvent(CopyEvent(p, p.copies[i])).bytes # None
  PROVE  UnderstoodCopy(p, p.copies[i])
<1> DEFINE r == p.copies[i]
           name == LookupOperation(p, r.kind, r.operation)
<1>1. r.bytes = None \/ r.bytes \in Int
  BY ProcessAssumption
<1> HIDE DEF r
<1>2. ~r.malformed
  <2>1. SUFFICES ASSUME r.malformed PROVE "malformed_memory_copy_record" \in CopyDiagnostics(p, r)
    BY DEF r
  <2>2. QED
    BY <2>1 DEF CopyDiagnostics
<1>3. \A d \in {"incomplete_memory_copy_record", "operation_lookup_failed", "schema_version_mismatch",
               "agent_handle_unresolved", "unknown_memory_copy_direction"} :
        d \notin CopyDiagnostics(p, r)
  BY DEF r
<1>4. r.bytes # None
  <2>1. "incomplete_memory_copy_record" \notin CopyDiagnostics(p, r)
    BY <1>3
  <2>2. QED
    BY <1>2, <2>1 DEF CopyDiagnostics
<1>5. r.bytes >= 0
  <2>1. NormalizeEvent(CopyEvent(p, r)).bytes = ByteCount(CopyEvent(p, r).size)
    BY DEF NormalizeEvent
  <2>2. ~(r.bytes >= 0) => CopyEvent(p, r).size = None
    BY <1>2, <1>4 DEF CopyEvent, ParseBytes
  <2>3. ByteCount(None) = None
    BY DEF ByteCount
  <2>4. QED
    BY <2>1, <2>2, <2>3 DEF r
<1>6. Resolves(p, r.src) /\ Resolves(p, r.dst)
  <2>1. "agent_handle_unresolved" \notin CopyDiagnostics(p, r)
    BY <1>3
  <2>2. QED
    BY <1>2, <2>1 DEF CopyDiagnostics
<1>7. DirectionOf(name) # "unknown"
  <2>1. "unknown_memory_copy_direction" \notin CopyDiagnostics(p, r)
    BY <1>3
  <2>2. QED
    BY <1>2, <2>1 DEF CopyDiagnostics
<1>8. name \in DOMAIN OperationDirection
  BY <1>7 DEF DirectionOf
<1>9. name # None
  <2>1. "operation_lookup_failed" \notin CopyDiagnostics(p, r)
    BY <1>3
  <2>2. QED
    BY <1>2, <2>1 DEF CopyDiagnostics
<1>10. (r.operation # None /\ r.operation.number # None) => OperationNumber[name] = r.operation.number
  <2>1. "schema_version_mismatch" \notin CopyDiagnostics(p, r)
    BY <1>3
  <2>2. name \in DOMAIN OperationNumber
    BY <1>8 DEF OperationDirection, OperationNumber
  <2>3. ~SchemaMismatch(name, r.operation)
    BY <1>2, <2>1 DEF CopyDiagnostics
  <2>4. QED
    BY <2>2, <2>3 DEF SchemaMismatch
<1>11. CopyEvent(p, r).name = name
  BY <1>2, <1>9 DEF CopyEvent
<1>12. UnderstoodOperation(p, r)
  <2> HIDE DEF name
  <2>1. QED
    BY <1>8, <1>9, <1>10, <1>11, LookupFinds DEF UnderstoodOperation, name
<1>13. UnderstoodCopy(p, r)
  BY <1>2, <1>4, <1>5, <1>6, <1>12, HandleIsOneAgents DEF UnderstoodCopy
<1>14. QED
  BY <1>13 DEF r

LEMMA DispatchIsUnderstood ==
  ASSUME NEW p, NEW r, KernelDiagnostics(p, r) = {}
  PROVE  ~r.malformed /\ KernelName(p, r.kernel) # None
<1>1. r.malformed => "malformed_kernel_dispatch_record" \in KernelDiagnostics(p, r)
  BY DEF KernelDiagnostics
<1>2. (~r.malformed /\ KernelName(p, r.kernel) = None) => "kernel_id_unresolved" \in KernelDiagnostics(p, r)
  BY DEF KernelDiagnostics
<1>3. QED
  BY <1>1, <1>2

LEMMA PassNeeds ==
  ASSUME IInv, Audited, report.status = "PASS"
  PROVE  LET ref == EventsOf(captures["reference"])
             man == EventsOf(captures["managed"])
         IN  /\ ExtraCopies(ref, man, PairArguments) = {}
             /\ \A lane \in Lanes : /\ Explainable(EventsOf(captures[lane]))
                                   /\ Unsized(EventsOf(captures[lane])) = {}
             /\ command.tool = "rocprof" =>
                  \A lane \in Lanes : /\ CaptureComplete(captures[lane], command.manifests[lane])
                                      /\ KernelDomainResolved(captures[lane], command.manifests[lane])
<1> DEFINE ref == EventsOf(captures["reference"])
           man == EventsOf(captures["managed"])
           complete == \A lane \in Lanes : CaptureComplete(captures[lane], command.manifests[lane])
<1>1. Verdict(captures) = "PASS" /\ command.tool \in {"rocprof", "nsys"}
  BY AuditArguments DEF IInv, ReportIsOfCaptures
<1>2. ASSUME NEW c, PairStatus(ref, man, PairArguments, c) = "PASS"
      PROVE  /\ ExtraCopies(ref, man, PairArguments) = {}
             /\ Explainable(ref) /\ Explainable(man)
             /\ Unsized(ref) = {} /\ Unsized(man) = {}
             /\ c
  BY <1>2 DEF PairStatus, Failures, TraceComplete
<1>3. CASE command.tool = "rocprof"
  <2>1. RocprofStatus(captures) = "PASS"
    BY <1>1, <1>3 DEF Verdict
  <2>2. /\ PairStatus(ref, man, PairArguments, complete) = "PASS"
        /\ \A lane \in Lanes : KernelDomainResolved(captures[lane], command.manifests[lane])
    BY <2>1 DEF RocprofStatus
  <2>3. QED
    BY <1>2, <2>2 DEF Lanes
<1>4. CASE command.tool = "nsys"
  <2>1. PairStatus(ref, man, PairArguments, TRUE) = "PASS"
    BY <1>1, <1>4 DEF Verdict
  <2>2. QED
    BY <1>2, <1>4, <2>1 DEF Lanes
<1>5. QED
  BY <1>1, <1>3, <1>4

LEMMA ProcessIsUnderstood ==
  ASSUME NEW capture, NEW p, HasProcess(capture, p), capture.diagnostics = {},
         Unsized(EventsOf(capture)) = {}
  PROVE  /\ \A i \in DOMAIN RecordsOf(p.copies) : UnderstoodCopy(p, p.copies[i])
         /\ \A i \in DOMAIN RecordsOf(p.dispatches) :
              ~p.dispatches[i].malformed /\ KernelName(p, p.dispatches[i].kernel) # None
<1>1. /\ p \in Processes /\ AgentDiagnostics(p) = {}
      /\ \A i \in DOMAIN RecordsOf(p.copies) : CopyDiagnostics(p, RecordsOf(p.copies)[i]) = {}
      /\ \A i \in DOMAIN RecordsOf(p.dispatches) :
           KernelDiagnostics(p, RecordsOf(p.dispatches)[i]) = {}
  <2>1. p \in Processes /\ ProcessDiagnostics(p) = {}
    BY DEF HasProcess
  <2>2. AgentDiagnostics(p) = {}
    BY <2>1 DEF ProcessDiagnostics
  <2>3. ASSUME NEW i \in DOMAIN RecordsOf(p.copies)
        PROVE  CopyDiagnostics(p, RecordsOf(p.copies)[i]) = {}
    BY <2>1 DEF ProcessDiagnostics
  <2>4. ASSUME NEW i \in DOMAIN RecordsOf(p.dispatches)
        PROVE  KernelDiagnostics(p, RecordsOf(p.dispatches)[i]) = {}
    BY <2>1 DEF ProcessDiagnostics
  <2>5. QED
    BY <2>1, <2>2, <2>3, <2>4
<1>2. ASSUME NEW i \in DOMAIN RecordsOf(p.copies)
      PROVE  UnderstoodCopy(p, p.copies[i])
  <2>1. PICK j \in DOMAIN capture.events : capture.events[j] = CopyEvent(p, p.copies[i])
    BY RecordsAreListed DEF HasProcess
  <2>2. /\ j \in DOMAIN EventsOf(capture)
        /\ EventsOf(capture)[j] = NormalizeEvent(CopyEvent(p, p.copies[i]))
    BY <2>1 DEF EventsOf, Normalized
  <2>3. CopyEvent(p, p.copies[i]).kind = {"copy"}
    BY DEF CopyEvent, MalformedCopy
  <2>4. NormalizeEvent(CopyEvent(p, p.copies[i])).type = "memory_copy"
    BY <2>3 DEF NormalizeEvent, EventType, IsCopyRecord
  <2>5. NormalizeEvent(CopyEvent(p, p.copies[i])).bytes # None
    BY <2>2, <2>4 DEF Unsized, CopiesOf, OfType
  <2>6. QED
    BY <1>1, <2>5, RecordsAreListed, CopyIsUnderstood
<1>3. QED
  BY <1>1, <1>2, RecordsAreListed, DispatchIsUnderstood

\* The domains of a manifest are there in every process.
LEMMA SectionsArePresent ==
  ASSUME NEW capture, NEW processes, HasSections(capture, processes), NEW manifest, manifest # None,
         CaptureComplete(capture, manifest), KernelDomainResolved(capture, manifest),
         capture.copySections \in Seq(Sections), capture.kernelSections \in Seq(Sections),
         NEW S, processes \in Seq(S), NEW k \in DOMAIN processes
  PROVE  /\ {CopyDomain, KernelDomain} \subseteq manifest
         /\ None \notin {processes[k].copies, processes[k].dispatches}
<1>1. /\ CopyDomain \in manifest /\ SectionComplete(capture.copySections)
      /\ KernelDomain \in manifest /\ SectionComplete(capture.kernelSections)
  BY DEF CaptureComplete, KernelDomainResolved, DomainStatus
<1>2. k \in DOMAIN capture.copySections /\ k \in DOMAIN capture.kernelSections
  BY DEF HasSections
<1>3. capture.copySections[k].present /\ capture.kernelSections[k].present
  BY <1>1, <1>2 DEF SectionComplete
<1>4. QED
  BY <1>1, <1>3 DEF HasSections

LEMMA ExplainedIsNotEmpty ==
  ASSUME NEW capture, Explainable(EventsOf(capture))
  PROVE  capture.events # <<>>
<1>1. SUFFICES ASSUME capture.events = <<>> PROVE FALSE
  OBVIOUS
<1>2. DOMAIN EventsOf(capture) = {}
  BY <1>1 DEF EventsOf, Normalized
<1>3. QED
  BY <1>2 DEF Explainable, KernelsOf, CopiesOf, OfType

\* A copy of the managed lane with a signature of the reference is one of its copies.
LEMMA SignatureTellsAll ==
  ASSUME NEW ref, NEW man, NEW e \in CopiesOf(Normalized(man)),
         Signature(e) \in SignaturesOf(Normalized(ref))
  PROVE  e \in CopiesOf(Normalized(ref))
<1>1. PICK f \in CopiesOf(Normalized(ref)) : Signature(f) = Signature(e)
  BY DEF SignaturesOf
<1>2. ASSUME NEW events, NEW x \in CopiesOf(Normalized(events))
      PROVE  x = [type |-> "memory_copy", operation |-> x.operation, direction |-> x.direction,
                  source |-> x.source, destination |-> x.destination, bytes |-> x.bytes]
  <2>1. PICK i \in DOMAIN events : x = NormalizeEvent(events[i]) /\ x.type = "memory_copy"
    BY DEF CopiesOf, OfType, Normalized
  <2>2. QED
    BY <2>1 DEF NormalizeEvent
<1>3. /\ f.operation = e.operation /\ f.bytes = e.bytes /\ f.direction = e.direction
      /\ f.source = e.source /\ f.destination = e.destination
  BY <1>1 DEF Signature
<1>4. f = e
  BY <1>2, <1>3
<1>5. QED
  BY <1>1, <1>4

\* A PASS of the ROCprofiler tool is about traces with one event for each raw
\* record, all of them understood; no tensor-sized copy is the managed lane's own,
\* but in that tool's adapter directions.
THEOREM PassMeansUnderstood == Spec => []PassIsEarned
<1>1. IInv => PassIsEarned
  <2> SUFFICES ASSUME IInv, Audited, report.status = "PASS" PROVE PassIsEarned
    BY DEF PassIsEarned
  <2> DEFINE ref == EventsOf(captures["reference"])
             man == EventsOf(captures["managed"])
  <2>1. /\ ExtraCopies(ref, man, PairArguments) = {}
        /\ \A lane \in Lanes : /\ Explainable(EventsOf(captures[lane]))
                              /\ Unsized(EventsOf(captures[lane])) = {}
    BY PassNeeds
  <2>2. ASSUME NEW lane \in Lanes, command.tool = "rocprof", NEW k \in DOMAIN input[lane]
        PROVE  UnderstoodProcess(input[lane][k], command.manifests[lane])
    <3>1. /\ CaptureComplete(captures[lane], command.manifests[lane])
          /\ KernelDomainResolved(captures[lane], command.manifests[lane])
          /\ captures[lane].diagnostics = {}
      BY <2>2, PassNeeds DEF CaptureComplete
    <3>2. HasProcess(captures[lane], input[lane][k]) /\ HasSections(captures[lane], input[lane])
      BY <2>2 DEF IInv, NothingIsLost
    <3>3. /\ captures[lane].copySections \in Seq(Sections) /\ captures[lane].kernelSections \in Seq(Sections)
          /\ input[lane] \in Seq(Records \cup Processes)
      BY CaptureTypes DEF Captures, IInv, CapturesOK
    <3>4. command.manifests[lane] # None =>
            /\ {CopyDomain, KernelDomain} \subseteq command.manifests[lane]
            /\ None \notin {input[lane][k].copies, input[lane][k].dispatches}
      BY <3>1, <3>2, <3>3, SectionsArePresent
    <3>5. QED
      BY <2>1, <3>1, <3>2, <3>4, ProcessIsUnderstood DEF UnderstoodProcess
  <2>3. \A lane \in Lanes : captures[lane].events # <<>>
    BY <2>1, ExplainedIsNotEmpty
  <2>4. \A e \in CopiesOf(ref) \cup CopiesOf(man) : e.bytes # None
    BY <2>1 DEF Unsized, Lanes
  <2>5. ASSUME NEW e \in CopiesOf(man), e.bytes \in command.payload, e \notin CopiesOf(ref)
        PROVE  command.tool = "rocprof" /\ Upper(e.direction) \in Adapters(PairArguments)
    <3>1. Signature(e) \in SignaturesOf(man) /\ Signature(e) \notin SignaturesOf(ref)
      BY <2>5, SignatureTellsAll DEF SignaturesOf, EventsOf
    <3>2. Signature(e)[2] = e.bytes /\ Signature(e)[3] = e.direction
      BY DEF Signature
    <3>3. Upper(e.direction) \in Adapters(PairArguments)
      BY <2>1, <2>5, <3>1, <3>2, AuditArguments DEF ExtraCopies
    <3>4. QED
      BY <3>3, AuditArguments
  <2>6. ASSUME NEW lane \in Lanes, command.tool = "rocprof"
        PROVE  OneEventEach(captures[lane].events, input[lane])
    <3>1. PICK f : Origins(f, captures[lane].events, input[lane])
      BY <2>6 DEF IInv, NothingIsLost, HasRecords
    <3>2. IsFiniteSet(DOMAIN captures[lane].events)
      BY CaptureTypes DEF EventsOf, Normalized
    <3>3. QED
      BY <3>1, <3>2, OriginsCount
  <2>7. QED
    BY <2>2, <2>3, <2>4, <2>5, <2>6 DEF PassIsEarned
<1>2. QED
  BY <1>1, Invariance, PTL

=============================================================================
