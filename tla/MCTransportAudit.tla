--------------------------- MODULE MCTransportAudit ---------------------------
(***************************************************************************)
(* A small instance of TransportAudit: lanes of at most MaxInputs records  *)
(* or processes, and the command lines that reach each rule of a verdict.  *)
(* A tensor has 2000 bytes.                                                *)
(***************************************************************************)
EXTENDS TransportAudit, TLC

SaysNothing == {"", "gemm", "copy_rows", "__amd_rocclr_copyBuffer", "unknown", "<malformed>",
                "<unknown operation 9>", "<unknown operation 'MEMORY_COPY_HOST_TO_DEVICE'>",
                "MEMORY_COPY_NONE"}
MCSays ==
  [t \in SaysNothing |-> {}]
  @@ [d \in Directions |-> {d}]
  @@ [n \in DOMAIN OperationDirection |-> {OperationDirection[n]}]
  @@ [t \in {"[CUDA memcpy HtoD]"} |-> {"H2D"}]

MCAgentWords ==
  [a \in {"host", "Pageable"} |-> {"host"}] @@ [a \in {"device", "Device"} |-> {"device"}]
  @@ [a \in {"", "unknown"} |-> {}]

----------------------------------------------------------------------------
(* Nsight records                                                           *)

Row(name) == [kind |-> {}, kernelField |-> FALSE, name |-> name, size |-> None,
              src |-> "", dst |-> "", dir |-> ""]
Kernel    == Row("gemm")
Suspect   == [Row("copy_rows") EXCEPT !.kind = {"copy", "kernel"}, !.kernelField = TRUE]
Upload    == [Row("[CUDA memcpy HtoD]") EXCEPT !.size = [number |-> 2, unit |-> "KB"],
                                               !.src = "Pageable", !.dst = "Device"]
\* Its direction is that of its agents; its size has another unit.
OnDevice  == [Row("") EXCEPT !.kind = {"copy"}, !.size = [number |-> 2000, unit |-> "B"],
                             !.src = "Device", !.dst = "Device"]
Unmeasured == [Upload EXCEPT !.size = None]
Strange    == [Row("gemm") EXCEPT !.size = [number |-> 1, unit |-> "B"]]

MCRecords == {Kernel, Suspect, Upload, OnDevice, Unmeasured, Strange}

----------------------------------------------------------------------------
(* ROCprofiler processes                                                    *)

CopyNames == <<"MEMORY_COPY_NONE", "MEMORY_COPY_HOST_TO_HOST", "MEMORY_COPY_HOST_TO_DEVICE",
               "MEMORY_COPY_DEVICE_TO_HOST", "MEMORY_COPY_DEVICE_TO_DEVICE">>

\* A table's array or object, and an operation that is a number or another text.
Array(names)  == [array |-> TRUE,
                  names |-> [key \in {ToString(i - 1) : i \in DOMAIN names} |->
                               names[CHOOSE i \in DOMAIN names : ToString(i - 1) = key]]]
Object(names) == [array |-> FALSE, names |-> names]

Number(n) == [number |-> n, key |-> ToString(n), text |-> None]
Word(t)   == [number |-> None, key |-> t, text |-> t]

Copy(n, src, dst) ==
  [malformed |-> FALSE, kind |-> "copies", operation |-> Number(n), src |-> src, dst |-> dst,
   bytes |-> 2000]
Worded(t) == [Copy(0, "a0", "a1") EXCEPT !.operation = Word(t)]
Dispatch(kernel) ==
  [malformed |-> FALSE, kind |-> "1", operation |-> Number(0), kernel |-> kernel, agent |-> "a1"]

\* The table names the kernels' kind, and their records its position.
Usual == [agents     |-> <<[handle |-> "a0", role |-> "host"], [handle |-> "a1", role |-> "device"]>>,
          ops        |-> <<[kind |-> "copies", operations |-> Array(CopyNames)],
                           [kind |-> "KERNEL_DISPATCH", operations |-> Array(<<"KERNEL_DISPATCH_COMPLETE">>)]>>,
          symbols    |-> ("k" :> "gemm") @@ ("b" :> "__amd_rocclr_copyBuffer"),
          copies     |-> <<Copy(2, "a0", "a1")>>,
          dispatches |-> <<Dispatch("k")>>]

MovesOnDevice == [Usual EXCEPT !.copies = <<Copy(4, "a1", "a1")>>]
Blits         == [Usual EXCEPT !.copies = None, !.dispatches = <<Dispatch("b")>>]
Silent        == [Usual EXCEPT !.copies = <<>>, !.dispatches = <<>>]
\* Another process' handle.  Records that cannot be read, in part or at all.
Foreign       == [Usual EXCEPT !.copies = <<Copy(2, "a0", "a7")>>]
Damaged       == [Usual EXCEPT !.copies = <<[Copy(9, "a0", "a1") EXCEPT !.bytes = -1],
                                            [Copy(2, None, "a1") EXCEPT !.malformed = TRUE],
                                            Worded(CopyNames[3])>>,
                               !.dispatches = <<Dispatch("x")>>]
\* The enumeration of another version: every number names its neighbour.
Shifted       == [Usual EXCEPT !.ops[1].operations = Array(Tail(CopyNames))]
\* An object of operations: looked up by number, by any key, and by the name itself.
Keyed         == [Usual EXCEPT !.ops[1].operations =
                                 Object(("2" :> CopyNames[3]) @@ ("upload" :> CopyNames[3])),
                               !.copies = <<Copy(2, "a0", "a1"), Worded("upload"), Worded(CopyNames[3])>>]
Misnamed      == [Keyed EXCEPT !.ops[1].operations =
                                 Object(("2" :> CopyNames[4]) @@ ("upload" :> CopyNames[3]))]
\* The agent table names a handle twice.
Ambiguous     == [Usual EXCEPT !.agents = Append(@, [handle |-> "a1", role |-> "host"])]

MCProcesses == {Usual, MovesOnDevice, Blits, Silent, Foreign, Damaged, Shifted, Ambiguous,
                Keyed, Misnamed}

----------------------------------------------------------------------------
(* Command lines                                                            *)

EachLane(x) == [lane \in Lanes |-> x]
Plain(t) == [tool |-> t, self |-> FALSE, payload |-> {2000}, refFrames |-> None, manFrames |-> None,
             adapters |-> {}, required |-> FALSE, evidence |-> None, risks |-> {},
             bindings |-> None, manifests |-> EachLane(None), csv |-> EachLane(None)]
Frames(c, ref, man) == [c EXCEPT !.refFrames = ref, !.manFrames = man]

NoEvidence == [confirmed |-> "empty", flag |-> FALSE, unresolved |-> "empty",
               resolvedKernels |-> {}]
Bound      == [fields |-> PointerFields, lifetime |-> TRUE, bytes |-> 2000]
Binding    == [first |-> TRUE, inputs |-> <<Bound>>, outputs |-> <<Bound>>]
Nameless   == [Binding EXCEPT !.outputs[1].fields = @ \ {"name"}]
CsvUpload  == <<[operation |-> "MEMORY_COPY_HOST_TO_DEVICE", src |-> "a0", dst |-> "a1"]>>

RocprofLines ==
  LET plain == Plain("rocprof")
  IN  {Frames(plain, 1, 1),
       [Frames(plain, 2, 1) EXCEPT !.adapters = {"D2D"}, !.required = TRUE],
       [plain EXCEPT !.manifests = EachLane({CopyDomain, KernelDomain}),
                     !.csv["managed"] = CsvUpload],
       [plain EXCEPT !.evidence = [NoEvidence EXCEPT !.resolvedKernels = CopyBufferKernels],
                     !.manifests["managed"] = {CopyDomain},
                     !.adapters = {"unknown"}, !.required = TRUE, !.risks = {"gemm"}],
       [plain EXCEPT !.self = TRUE, !.manifests["managed"] = {CopyDomain}]}

NsysLines ==
  LET plain == Plain("nsys")
  IN  {Frames(plain, 1, 1), Frames(plain, 1, 2), Frames(plain, 20, 20), Frames(plain, 1, None),
       [plain EXCEPT !.evidence = [NoEvidence EXCEPT !.flag = TRUE]],
       [plain EXCEPT !.evidence = [NoEvidence EXCEPT !.flag = TRUE, !.confirmed = "false"]],
       [plain EXCEPT !.evidence = [NoEvidence EXCEPT !.unresolved = "true"]],
       [plain EXCEPT !.bindings = EachLane(Binding)],
       [plain EXCEPT !.bindings = [reference |-> Nameless, managed |-> Binding]],
       [plain EXCEPT !.self = TRUE]}

LaneLines ==
  LET plain == Frames(Plain("lanes"), 1, 1)
  IN  {[plain EXCEPT !.bindings = EachLane(Binding), !.payload = {}],
       [plain EXCEPT !.bindings = [reference |-> Binding, managed |-> None]],
       Frames(plain, 0, 1)}

MCCommandLines == RocprofLines \cup NsysLines \cup LaneLines
=============================================================================
