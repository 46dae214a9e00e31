---------------------------- MODULE OverlapBench ----------------------------
(***************************************************************************)
(* overlap_bench.cu: how much of an AllReduce hides behind computation.    *)
(* Every device has a compute stream and a communication stream.  A row of *)
(* the CSV takes four measurements -- compute alone, communication alone,  *)
(* one after the other, both at once -- each timeUs(body, warmup, iters),  *)
(* and after the last one reads the events that bracket each stream's work.*)
(* A "micro" row has one stage; a "bucket" row is the DDP-like pipeline of *)
(* n_buckets stages, each with the AllReduce of its bucket.                *)
(*                                                                         *)
(* The repetitions of one kernel inside a stage follow each other in one   *)
(* stream and are one operation here.  Durations, the arithmetic on them,  *)
(* and the measurements before the rows that calibrate the repetitions are *)
(* left out.                                                               *)
(***************************************************************************)
EXTENDS Integers, FiniteSets, SequencesExt, CudaStreams

CONSTANTS
  NG,           \* number of devices
  Warmup,       \* timeUs: iterations before the clock starts
  Iters,        \* timeUs: iterations on the clock
  Repeats,      \* rows of one configuration
  commSizes,    \* the micro rows: message sizes, in KiB; none with --only-buckets
  workloads,    \* ... and kinds of computation
  ratios,       \* ... and lengths of it, in percent of the AllReduce's
  bucketSizes,  \* the bucket rows: sizes in KiB; none with --only-micro
  totalGrad     \* ... and the bytes of the whole gradient, in KiB

ASSUME OverlapAssumption ==
  /\ NG \in Nat \ {0} /\ Warmup \in Nat /\ Iters \in Nat \ {0}
  /\ Repeats \in Nat /\ totalGrad \in Nat
  /\ commSizes \in Seq(Nat) /\ ratios \in Seq(Nat) /\ bucketSizes \in Seq(Nat \ {0})
  /\ workloads \in Seq({"compute-gemm", "memory-triad", "mixed"})

-----------------------------------------------------------------------------
(* F(1) \o ... \o F(n): a loop of the host.                                *)
Loop(F(_), n) == FlattenSeq([i \in 1..n |-> F(i)])

(* The rows in the order of main's loops.  A bucket row is printed with    *)
(* the gradient's size, whatever the buckets, and a ratio of 1.            *)
MicroRows ==
  Loop(LAMBDA s : Loop(LAMBDA w : Loop(LAMBDA q :
    [rep \in 1..Repeats |->
       [experiment |-> "micro", workload |-> workloads[w], comm_bytes |-> commSizes[s],
        ratio_target |-> ratios[q], bucket_bytes |-> 0, n_buckets |-> 0, repeat |-> rep - 1]],
    Len(ratios)), Len(workloads)), Len(commSizes))

BucketRows ==
  Loop(LAMBDA s :
    IF bucketSizes[s] > totalGrad THEN << >>
    ELSE [rep \in 1..Repeats |->
           [experiment |-> "bucket", workload |-> "compute-gemm", comm_bytes |-> totalGrad,
            ratio_target |-> 100, bucket_bytes |-> bucketSizes[s],
            n_buckets |-> totalGrad \div bucketSizes[s], repeat |-> rep - 1]],
    Len(bucketSizes))

Rows == MicroRows \o BucketRows

IsMicro(r) == Rows[r].experiment = "micro"
NStages(r) == IF IsMicro(r) THEN 1 ELSE Rows[r].n_buckets

-----------------------------------------------------------------------------
VARIABLES
  row,      \* the row being measured; past the last one, the program is over
  measure,  \* which measurement of the row
  iter,     \* which call of its body
  body,     \* its body: the host calls of one iteration
  pc,       \* the next host call of the body
  stamp,    \* per event: the work its stream had finished when it was recorded
  spans     \* what elapsed() returned for the last row

hostVars == <<row, measure, iter, body, pc, stamp, spans>>
vars == <<hostVars, cudaVars>>

Devices == 1..NG
Streams == {"compute", "comm"}
Measures == <<"compute", "comm", "sequential", "overlapped">>

(* The four events of a device, and the stream each is recorded on.        *)
StreamOf(kind) == IF kind \in {"compute", "compS", "compE"} THEN "compute" ELSE "comm"

OpKinds == {"compute", "comm", "compS", "compE", "commS", "commE"}

-----------------------------------------------------------------------------
(* The bodies, as sequences of host calls.  An operation is what it does,  *)
(* on which device, for which stage and in which iteration.                *)

(* One call for every device.                                              *)
OnEveryDevice(call, what, b) == [d \in Devices |-> <<call, what, d, b>>]

LaunchCompute(b) == OnEveryDevice("launch", "compute", b)

(* An ncclAllReduce per device outside a group blocks the host.            *)
LaunchCommUngrouped(b) ==
  Loop(LAMBDA d : << <<"launch", "comm", d, b>>, <<"sync", "comm", d, 0>> >>, NG)

LaunchComm(b) == OnEveryDevice("launch", "comm", b)

SyncStreamsElse(streams) ==
  Loop(LAMBDA d : IF "compute" \in streams THEN << <<"sync", "compute", d, 0>> >>
                  ELSE << <<"sync", "comm", d, 0>> >>, NG)

SyncStreams(streams) ==
  Loop(LAMBDA d : (IF "compute" \in streams THEN << <<"sync", "compute", d, 0>> >> ELSE << >>)
               \o (IF "comm" \in streams THEN << <<"sync", "comm", d, 0>> >> ELSE << >>), NG)

RecordStart ==
  Loop(LAMBDA d : << <<"launch", "compS", d, 0>>, <<"launch", "commS", d, 0>> >>, NG)

RecordEnd ==
  Loop(LAMBDA d : << <<"launch", "compE", d, 0>>, <<"launch", "commE", d, 0>> >>, NG)

SequentialUnsynced(n) ==
  Loop(LaunchCompute, n) \o Loop(LaunchComm, n) \o SyncStreams(Streams)

Sequential(n) ==
  Loop(LaunchCompute, n) \o SyncStreams({"compute"})
    \o Loop(LaunchComm, n) \o SyncStreams({"comm"})

OverlappedRecordsEarly(r) ==
  RecordStart \o Loop(LaunchComm, NStages(r)) \o RecordEnd
    \o Loop(LaunchCompute, NStages(r)) \o SyncStreams(Streams)

(* The micro row launches the AllReduce first; the pipeline launches it    *)
(* after the stage's compute.                                              *)
Overlapped(r) ==
  RecordStart
    \o (IF IsMicro(r)
        THEN LaunchComm(1) \o LaunchCompute(1)
        ELSE Loop(LAMBDA b : LaunchCompute(b) \o LaunchComm(b), NStages(r)))
    \o RecordEnd \o SyncStreams(Streams)

Body(r, m) ==
  CASE m = "compute"    -> Loop(LaunchCompute, NStages(r)) \o SyncStreams({"compute"})
    [] m = "comm"       -> Loop(LaunchComm, NStages(r)) \o SyncStreams({"comm"})
    [] m = "sequential" -> Sequential(NStages(r))
    [] m = "overlapped" -> Overlapped(r)

-----------------------------------------------------------------------------
Init ==
  /\ row = 1 /\ measure = 1 /\ iter = 1
  /\ body = IF Rows = << >> THEN << >> ELSE Body(1, Measures[1])
  /\ pc = 1
  /\ stamp = [e \in (OpKinds \ Streams) \X Devices |-> 0]
  /\ spans = [s \in Streams \X Devices |-> 0]
  /\ CudaQuiet

Measuring == row <= Len(Rows) /\ measure <= Len(Measures)
InBody == Measuring /\ pc <= Len(body)

(* Without events to wait for, only the order within a stream counts.      *)
SameStream(p, o) == p[2] = o[2] /\ StreamOf(p[1]) = StreamOf(o[1])
Place(o) == CHOOSE i \in 1..Len(body) : body[i] = <<"launch", o[1], o[2], o[3]>>
AheadInStream(p, o) ==
  /\ SameStream(p, o)
  /\ \/ p[4] < o[4]
     \/ p[4] = o[4] /\ Place(p) < Place(o)

Launch ==
  /\ InBody /\ body[pc][1] = "launch"
  /\ Enqueue(<<body[pc][2], body[pc][3], body[pc][4], iter>>, {})
  /\ pc' = pc + 1
  /\ UNCHANGED <<row, measure, iter, body, stamp, spans>>

(* cudaStreamSynchronize returns once the stream is empty.                 *)
Sync ==
  /\ InBody /\ body[pc][1] = "sync"
  /\ \A o \in issued \ done : o[2] = body[pc][3] => StreamOf(o[1]) # body[pc][2]
  /\ pc' = pc + 1
  /\ UNCHANGED <<row, measure, iter, body, stamp, spans, cudaVars>>

(* The body returns.  After the warmup and at the end, timeUs waits for    *)
(* every device.                                                           *)
NextIteration ==
  /\ Measuring /\ pc > Len(body)
  /\ iter < Warmup + Iters
  /\ iter = Warmup => Drained
  /\ iter' = iter + 1 /\ pc' = 1
  /\ UNCHANGED <<row, measure, body, stamp, spans, cudaVars>>

NextMeasure ==
  /\ Measuring /\ pc > Len(body)
  /\ iter = Warmup + Iters /\ Drained
  /\ measure' = measure + 1 /\ iter' = 1 /\ pc' = 1
  /\ body' = IF measure < Len(Measures) THEN Body(row, Measures[measure + 1]) ELSE << >>
  /\ CudaReset
  /\ UNCHANGED <<row, stamp, spans>>

(* From the start to the end event of a stream.                            *)
SpanOf(s, d) ==
  IF s = "compute" THEN stamp[<<"compE", d>>] - stamp[<<"compS", d>>]
                   ELSE stamp[<<"commE", d>>] - stamp[<<"commS", d>>]

(* elapsed() reads the spans, then the row is printed.                     *)
Elapsed ==
  /\ row <= Len(Rows) /\ measure > Len(Measures)
  /\ spans' = [s \in Streams \X Devices |-> SpanOf(s[1], s[2])]
  /\ row' = row + 1 /\ measure' = 1
  /\ body' = IF row < Len(Rows) THEN Body(row + 1, Measures[1]) ELSE << >>
  /\ UNCHANGED <<iter, pc, stamp, cudaVars>>

(* The program is over.                                                    *)
Finished ==
  /\ row > Len(Rows)
  /\ UNCHANGED vars

Begin(o) ==
  /\ DeviceBegin(o, AheadInStream)
  /\ UNCHANGED hostVars

(* An AllReduce ends on no device before it has begun on all of them.      *)
EndWork(o) ==
  /\ o[1] \in Streams
  /\ o[1] = "comm" => \A d \in Devices : Started(<<"comm", d, o[3], o[4]>>)
  /\ DeviceEnd(o)
  /\ UNCHANGED hostVars

FinishedWork(s, d) == Cardinality({p \in done : p[1] = s /\ p[2] = d})

(* An event takes the time at which the stream reaches it.                 *)
EndRecord(o) ==
  /\ o[1] \notin Streams
  /\ DeviceEnd(o)
  /\ stamp' = [stamp EXCEPT ![<<o[1], o[2]>>] = FinishedWork(StreamOf(o[1]), o[2])]
  /\ UNCHANGED <<row, measure, iter, body, pc, spans>>

Host == Launch \/ Sync \/ NextIteration \/ NextMeasure \/ Elapsed
Device ==
  \/ \E o \in issued \ done : Begin(o)
  \/ \E o \in running : EndWork(o)
  \/ \E o \in running : EndRecord(o)
Next == Host \/ Device \/ Finished

(* The host runs on while it can, and the devices work while there is work.*)
Spec == Init /\ [][Next]_vars /\ WF_vars(Host) /\ WF_vars(Device)

-----------------------------------------------------------------------------
(* T_sequential is the baseline of overlap_efficiency: in it no device     *)
(* communicates while any device still computes, neither within one call   *)
(* of the body nor between the end of one and the start of the next.       *)
SequentialNeverOverlaps ==
  Measuring /\ Measures[measure] = "sequential" =>
    ~ \E o, p \in running : o[1] = "compute" /\ p[1] = "comm"

(* "events bracket each stream's own work": what elapsed() reads spans the *)
(* work of exactly one iteration, all of its stages, on every device.      *)
ElapsedCoversOneIteration ==
  row > 1 => \A s \in DOMAIN spans : spans[s] = NStages(row - 1)

(* The work of one timed call is over on all devices before any work of    *)
(* the next one is launched, so that a mean over calls is a mean of equals.*)
IterationsAreSeparate ==
  \A o \in issued : \A p \in issued \ done : o[4] <= p[4]

(* Every row gets printed: no AllReduce waits for a device the host has    *)
(* not launched it on and will not, because it is itself waiting.          *)
EveryRowIsPrinted == <>(row > Len(Rows))
=============================================================================
