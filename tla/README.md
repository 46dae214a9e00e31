# Verification of nccl-network-benchmark

TLA+ models of the programs in this repository, TLC runs that check them on
small instances, and TLAPS proofs for every number of GPUs, ranks, hosts, launches
and configurations.

Check a run from this directory with `tlc -workers 2 -config RingV2.cfg
RingAllReduce.tla` (the module and the configuration of each run are in the table
of runs), a proof with `tlapm RingAllReduceProofs.tla`. `PROJECT.json` lists the
runs, for each property a mutation of the model that breaks it, the source lines
of every definition, the hazards, the findings and the theorems.

Source paths below are relative to the repository's root, `src/` here: the ring
benchmark is `src/src/ring_allreduce/ring_allreduce.cu`, called *ring.cu* for short;
likewise *train_ddp.py* (`src/src/ddp/`) and *overlap.cu* (`src/src/overlap/overlap_bench.cu`).

## 1. The system and its parts

The repository measures collective communication between GPUs and reports numbers.
Three programs run on GPUs, shell scripts launch them and NVIDIA's `nccl-tests`
into one directory of raw outputs per experiment, and Python parsers turn these into rows
of CSV. What a wrong program looks like here is a *wrong number that looks right*: a
sum that is only usually correct, a baseline that is not what its name says, a row that is
attributed to something else. So correctness is mostly order: which operation ran
before which, and which state was current when something was read.

| Component | State | Operations | Interacts through | Hard because | Correct when |
|---|---|---|---|---|---|
| **Ring algorithms** (ring.cu 326-533) | device buffers, a staging buffer per step, streams, events, `g_bytesMoved` | `ringAllReduceV1/V2/V3`: copies, kernels, records, waits, synchronisations | CUDA streams; peer writes into the neighbour's memory | v2 and v3 have no synchronisation until the end: all orders the event graph allows | no race, every element is the sum of all inputs once, on all ranks; the bytes counted are the bytes moved |
| **Ring program** (ring.cu 172-265, 623-786) | peer mappings enabled, the ring, buffers, counters, row | `p2pFunctional`, `findP2PRing`, enabling access, correctness run, timing, rows | the driver's mappings, which may be reported and not work | state left by one step is seen by the next: mappings, buffers, counters | finds a ring when there is one; the measurement runs with exactly its mappings; only correct cases get a latency |
| **DDP benchmark** (train_ddp.py) | parameters, gradients, optimizer moments, loss and gradient checks, on every rank | windows of steps, probe, `check_param_sync`, abort, `resync_params`, exchange of times | collectives: every rank must enter the same ones in the same order | each rank decides by itself; a number may become non-finite anywhere | ranks never drift; all abort or none; every rank comes to its end |
| **Overlap benchmark** (overlap.cu) | two streams and four events per device | four bodies, `timeUs`, `elapsed` | streams; an AllReduce that is a rendezvous of all devices | what overlaps is decided by synchronisations only | the sequential baseline is sequential; what is timed is one body's work; no deadlock |
| **NCCL baseline** (run_nccl_baseline.sh, parse_nccl_output.py) | the experiment directory: outputs, manifests, env.json | an invocation per configuration: tiers, gate, manifest; the parser | the directory only | the pod may vanish at any moment; runner and parser judge by different rules | no output overwritten; a failed smoke tier stops the sweep; every output is parsed once; what passed the gate is correct in the results (the converse fails: section 6) |
| **Multi-node NCCL** (run_nccl_multinode.sh, verify_nccl_transport.py) | the same directory, the debug log | transport gate, then tiers | the log of NCCL | the evidence is the log of one small run | no row unless the network was the one chosen |
| **DDP campaign** (preflight_ddp.sh, run_final_ddp.sh) | transport_env.txt, a directory of outputs | candidate transports behind a gate, sessions of launches behind a timeout | files, exit codes, a CORRECTNESS line | a hang is an answer; a launch that fails leaves a partial output; a second session writes into the directory of the first | what is compared was measured in one session, over a transport that works |
| **DDP results** (parse_ddp_output.py, analyze_ddp.py) | none: functions of the directory | rows, pairing with the no_sync probe, cells, noise floor, verdicts | the directory, results.jsonl | labels are shared by launches and by sessions | a cost is a difference within one launch; a difference called real is one |
| **Ring runner and parser** (run_ring_benchmark.sh, parse_ring_output.py) | the directory, exit code, manifest | refusal, build, gate, rows | the output of the ring program | the program may crash at any row; two judges | the runner succeeds exactly on complete, correct results |
| **Overlap parser and analysis** (parse_overlap_output.py, analyze_contention.py) | none | labels, cells | the output of the overlap program | two experiments share columns | a label names one configuration; medians are of repeats of one (but for the cell of the bucket rows: section 6) |
| **The rest**: harness_calibration.cu, model.py, plots, environment capture, provisioning | - | - | - | - | not modelled: durations, tensor arithmetic, output, pure I/O |

## 2. Modules

```
CudaStreams            streams, events, devices (external)
 ├─ RingAllReduce      v1, v2, v3            ── implements ──> ChunkRelay
 │   ├─ RingSchedule   indices, memory
 │   ├─ RingCases      main's cases of one size
 │   └─ RingScheduleProofs, RingAllReduceProofs
 └─ OverlapBench       overlap.cu
     └─ OverlapResults parser and cells      MCOverlapBench
         └─ OverlapBenchProofs
RingBench              main of ring.cu       MCRingBench
 └─ RingExperiment     runner and parser     MCRingExperiment
     └─ RingBenchProofs
DdpTraining            train_ddp.py
 └─ DdpTrainingProofs
DdpResults             parser and analysis, pure operators
 └─ DdpCampaign        preflight, sessions   MCDdpCampaign
     └─ DdpCampaignProofs
NcclExperiment         runner and parser     MCNcclExperiment
 └─ NcclExperimentProofs
MultinodeNccl          multi-node runner     MCMultinodeNccl
 └─ MultinodeNcclProofs
```

**CudaStreams** is the execution model the two CUDA programs rely on, kept to what they
use. The host enqueues; a stream runs its operations in order; different streams
interleave freely; an operation begins and ends in two steps, so that two may be under way at once
and *race* is a state, not an argument. `cudaStreamWaitEvent` waits for the latest record
*at the time of the host's call*, and for nothing when there was none. That
detail decides whether v2 and v3 are right, so it is modelled as it is: `Awaited` is
computed when an operation is enqueued.

**RingSchedule** has the index arithmetic, `next`/`prev`, `(r - s + N) % N` and so on, and
the memory. A value counts how often each rank's input is in it (`Values`): a sum of floats
would let two errors cancel, this does not.

**RingAllReduce** enqueues one operation per copy and per kernel in the order the loops reach
them. `HostBefore` is that order; `Issue(o)` is enabled for the one operation the host is at. `V2Waits`,
`V2Records` and so on are the events of the code, slot by slot (`calcDone[r][s-1]`,
`copyDone[prev][s]`, `copyDone[r][agBase+s]`, and the single `subCopy[r]` that v3 records over and over). `Issue`
does all the host does for one operation: what `syncAll` waited for, the waits, the
launch, the byte count. `End(o)` makes the memory effect, `Return` is the last
`syncAll`, `CallAgain` is main's next correctness run.

**RingCases** makes the calls of a size's cases, v1, v2 and v3, each an instance of RingAllReduce on the same buffers and streams.

**ChunkRelay** is what a call promises, without streams, staging or steps: on each chunk a sum
travels around the ring, each rank adds its input once to a sum its predecessor already
has, and only complete sums are passed on. `ImplementsRelay` says that the
three algorithms implement it, with `held` read off the buffers at one element.

**RingBench** is main around them. A mapping `<<i, j>>` lets device i access device j; a
host is a capability matrix and the set of mappings that do not deliver what they are
given, which is what the comment at ring.cu:185-190 reports of real hosts. The search
goes through the orders of the devices as `std::next_permutation` does, an edge at a
time, with the test's enabling and disabling of a mapping as two steps. Of the
algorithms it keeps what they leave in the buffers and the bytes they count, in chunks. A case goes
through the statements of main one at a time: `ResetForCase`, `CorrectnessCall`, `Validate`, `ReadCounter`, then the
calls of `timeUs`, each of which adds to the counter again (`TimedCall`), and `PrintRow` last.

**RingExperiment** EXTENDS it with the script around it: the directory that must not exist, the
build, the program as a process that may crash between any two steps and leaves the rows it has
flushed, `Gate` with the count of bad rows, the manifest and the exit status. `ParsedRows` is what the
parser makes of the directory: a row's label tells v3's subchunks, its correctness wants a latency as
well as no mismatch.

**DdpTraining** turns the arguments of a launch into the program each rank executes: the
sequence of forward, backward, reducer, flat AllReduce, optimizer and so on that
`main` amounts to. Ranks advance on their own and meet in collectives only: a rank enters with what it
has (`Enter`), the last to enter makes the result, each leaves by itself. Ranks that
enter different collectives never leave; that is how a hang shows. Parameters are the
list of updates that made them, gradients the set of ranks they average. A loss or a gradient may become
non-finite at any computation, on one rank alone.

**OverlapBench** builds the body of each measurement as the list of host calls in the code and runs it
`warmup + iters` times. An AllReduce is one operation per device that ends on no
device before it has begun on all. Event timestamps are replaced by the amount of work
the stream had finished, so that an interval says *whose* work it spans.

Its `Rows` are those of main's loops with the columns they are printed with.
**OverlapResults** is what happens to them: `parse_table` holds the rows before the one in progress, which is
what an output cut off there holds, `config_label` is the parser's and `Key` the analysis'
choice of columns that are to name a configuration; `aggregate` has whole cells, bucket rows among them.

**DdpResults** has the functions from a directory to rows, cells and verdicts. A file is named by its launch and
says which execution printed it (`by`), which no script can see: the properties compare what the
scripts conclude with it. `Median2` doubles the median so that it stays an integer.

**DdpCampaign** fills the directory. A host's transports each work, hang, yield NaN or let the ranks drift;
`Accepts` is the gate of the preflight, the only place where drifting shows. A session is a list of
launches (`Matrix`), each of which truncates its output, runs, and ends by itself (`EndLaunch`: with all rows, or failing with
those it had printed), by the timeout (`Timeout`) or with its script (`Interrupted`). Preflights and sessions follow each other in any
order an operator who keeps to REPRODUCING.md, step 6, may start them in: `StartFinal` after a PREFLIGHT OK over what it wrote,
`StartAnchor` over SHM at any time. What a launch prints is train_ddp.py's order of lines, without what DdpTraining says of the ranks behind it.

**NcclExperiment** is a directory and what is done to it: invocations, each of which
captures the environment once, runs the collectives of its tiers, each with an output truncated at
the start and complete at the end, and writes the manifest last; `Terminated` at any moment; `Commit` between
invocations. The parser is a function of the directory (`Rows`).

**MultinodeNccl** is run_nccl_multinode.sh with verify_nccl_transport.py as its gate. What
mpirun's processes really are (`launch`: one job or one each, on which hosts, on which network, and
which of them the exported variables reach) is
chosen at the start and hidden from the programs; the processes print their lines into
the log in any interleaving, or fail. NCCL_DEBUG travels with the variables that choose the network
(run_nccl_multinode.sh:129-144, 185), so that a process they miss prints no banner and no channel.
`Seen`, `RankToHost` and so on are what `analyse` reads out of
the log, `Verified` is `verify`. After the gate come the tiers, the manifest and the exit status.

## 3. Runs

| Run | Instance | Shows |
|---|---|---|
| `ring_v2` | 4 ranks | `ConflictsInHostOrder` (no race), `ReduceScatterOwnership`, `AllReduceCorrect`, `BytesMatchPrediction`, `WaitsAreDependencies`, `ImplementsRelay`, types and bounds of buffers |
| `ring_cases` | 3 ranks; v1, v2, and v3 with chunks of 3 in 2 subchunks, one after the other | `ConflictsInHostOrder`, `AllReduceCorrect`, `ImplementsRelay`; `WaitsAreDependencies` is false of v3: its wait at subchunk 0 also covers subchunks it does not need |
| `bench` | 4 devices; any capability matrix with sound mappings, or full capability with any mappings broken; a crash anywhere | `FindsARingIfThereIsOne`, `OnlyRingMappingsStayEnabled`, `SoundHostsAreMeasured`, `RowCountsOneCall`, and of the runner and parser `SuccessIsComplete` |
| `ddp` | 3 ranks, ddp and serial, probe and calibration on and off, two overflows | `ParametersNeverDrift`, `MeasuredStepsStartEqual`, `AbortIsUnanimous`, `EveryRankExits` |
| `campaign` | 6 hosts, 2 capacities, 2 launches each, 2 preflights, 2 sessions, 2 faults, 3 step times | `CostComesFromOwnLaunch`, `ComparisonsAreOfOneSession`, `FinalRowsAreSound`, `NoiseIsAcrossLaunches`, `ResolvableGapsAreReal`, `EveryScriptEnds` |
| `overlap` | 2 devices; 2 kinds of computation, 2 ratios, a pipeline of two buckets, 2 repeats; 3 calls per body | `SequentialNeverOverlaps`, `ElapsedCoversOneIteration`, `IterationsAreSeparate`, `EveryRowIsPrinted`, `RowsOfOneNameAreRepeats` (of labels), `OnlyTheBucketCellIsMixed` (of the cells of the analysis) |
| `nccl` | 2 collectives, 3 configurations, 2 invocations | `OutputsAreNeverRewritten`, `SmokeGatesFull`, `PassedRunsHaveCorrectRows`, `EveryOutputIsParsed` |
| `multinode` | 2 hosts; collectives with and without a binary | `OnlyBaselinesAreTimed`, `BaselinesAreVerified`, `SuccessIsComplete`, `SmokeGatesFull` |
| `bench_mappings`, `bench_oracle`, `nccl_commit`, `nccl_trailer` | as above, `bench_*` on every host of 3 devices | the findings of section 6 |

**Why these bounds.** Four ranks give three ReduceScatter steps: the first with two
steps of equal parity, which the staging hazard described in `struct Ring` (ring.cu:136-147)
needs, and AllGather steps in the first, middle and last position. For safety the bounds of the ring do not matter
anyway: the proofs have none. v3 needs two subchunks, a remainder, and two steps: 3 ranks with
chunks of 3 in 2 parts. Four devices are the least with several rings that are not
rotations of each other, and with orders in which the identity fails and another works. Two calls of `timeUs`, a warmup and a timed one,
are behind every correct correctness call. Three ranks in
DdpTraining let one abort, one wait and one be elsewhere. Two invocations cover any
pair of "first" and "later" configuration, of the same name or not.
Two hosts are what the multi-node runner asks for at least; two processes print in
every order, and the ways to go wrong (one job each, both on one host, one on another network) need no third.
In the campaign two sessions in one directory are the first and the one that meets its files, of the same tag or of the other; two
faults are one in each, or a failed launch in a session that is then interrupted; two launches give a cell a spread, and one that is missing
leaves a cell of one; three step times, unevenly apart, put a gap below, at and beyond a spread. Of the hosts, each way the default transport fails is there, with an SHM that
works, and an SHM that hangs or drifts under a default that works. The bucket size of 4096 KiB in `overlap` is one main skips.
Three calls of a body are the warmup, and two on the clock without a synchronisation of
timeUs between them.

**Named bounds.** `MaxOverflows` (how often a number stops being finite by itself; once
non-finite, what is computed from it is too), `MaxInvocations`, `MaxCommits`, `MaxSessions`, `MaxPreflights`, `MaxFaults`, `Repeats`, `FullRepeats`, and the
number of steps per window. None is in a guard the code does not have except to end
the enumeration.

**Deadlock** is checked in the ring and overlap runs. (In the ring, host and streams wait only for work that
has been issued before, so that no call can block; it is not claimed as a property.) The others stop where the
program ends, or at a bound, and turn it off; that no rank of DdpTraining stops anywhere else is
`EveryRankExits`, and that no script of the campaign does `EveryScriptEnds`.

**Fairness.** The host thread and every device of the overlap benchmark make progress when they can
(`WF_vars(Host)`, `WF_vars(Device)`): the host is one thread without locks, and CUDA
runs enqueued work whose predecessors are done. A behaviour of one call is finite, so
fairness of the disjunction is enough. Every rank of train_ddp.py is a process
of its own (`WF_vars(RankStep(r))` for each). A script of the campaign goes on when its launch has ended, and its launch ends by itself
or, after GATE_TIMEOUT or 900 seconds, by `timeout -k` (`WF_vars(Step)`); nobody has to start a script or to interrupt one.
Nothing assumes that a collective completes: it does when
all ranks have entered the same one.

## 4. Proofs

Every theorem below is about the specification of a module with its constants left open. What they
assume of the constants are the named assumptions of the modules, which TLC evaluates on every run, and
the few hypotheses said here. All invariants the runs check are proved, and all refinements.

### The ring algorithms

`RingScheduleProofs` has the facts on the indices: they are in range, what a rank receives is what its
predecessor sends, a rank's next send is what it just reduced, and the AllGather starts with the
chunk the rank owns. `RingAllReduceProofs` proves of v1, v2 and v3, for every N >= 2, every chunk length and every number of
subchunks, the remainder and the fall-back to v2 included:

- `OrderInvariant`: when an operation is under way, the earlier hops of the elements it works on have ended, and the later ones have not begun;
- `NoDataRace`: conflicting operations run in the host's order;
- `DataInvariant`: what every slot and staging buffer holds, element by element;
- `RanksOwnTheirChunk`, `EveryVersionIsAnAllReduce`, `TypeCorrect`;
- `EveryElementIsRelayed`, `EveryVersionImplementsRelay`: the refinement of ChunkRelay, at any element;
- `BytesAsPredicted`: a call that has returned has counted 2(N-1)/N of the tensor on every rank;

and of v2 alone

- `V2WaitsAreDependencies`: no wait is on an event not recorded yet (CUDA would silently not
  wait), and none is superfluous. The second half is false of v3 (section 3).

*The argument.* An element makes one journey of 3(N-1) hops: copy, reduce, copy, reduce, ..., then
N-1 AllGather copies. `ChunkOf(o)` and `Hop(o)` place each operation on it, and `Covers` says which subchunk's operations an element sees. What the
versions have in common is `OrderInv`, and each reaches it in its own way.

*v2 and v3.* `ConflictsInHostOrder` is not inductive: that two conflicting operations do not run at once says
nothing of what happens when the next begins. `ControlInv` adds what has been enqueued
(`HostOrderInv`: a prefix of the host's order), what each operation waits
for (`WaitsInv`: `<<o, Pred(o)>>` and nothing else), what the streams have behind them (`InOrderInv`), and what has begun
(`JourneyInv`: the earlier hops of its chunk are done). The last is what the waits
give by induction, one hop at a time; the others make it so that a wait is always on a record that exists and on the right one. In v3 the one event
`subCopy` of a rank is recorded by every copy it makes: the reduction waits for its own subchunk because the records before it are overwritten and
those after it have not been enqueued when the host comes to the wait (`RecordedBehindPred`). A copy of a later step waits for the *last*
subchunk's reduction, at subchunk 0 only: the reductions before that one are ahead of it in the compute stream (`AfterLastPiece`), and
the other subchunks' copies are behind the first in the copy stream. That one staging buffer per step is enough is `ConflictSameChunk`.

*v1.* `SyncedInv` says that what has been enqueued has all operations of earlier loops over
the ranks done; an earlier hop is of an earlier loop (`HopsByLoops`), and no two operations of one loop conflict (`LoopsDoNotConflict`).

*The data.* `DataInv` gives each element of each slot its value from the operations done, and each staging buffer
what the copy brought, from its end until it is reduced. The last is the only place where v1 differs: its single staging buffer
is not overwritten in between because copies of earlier steps have ended before this one and those of later
steps begin after the reduction (`EndStage`). Sums, ownership and the refinement follow.

*The bytes.* `moved` is a sum over operations, which the provers cannot fold. `BytesInv` makes it a cardinality: the number of pairs of
a copy enqueued and an element it covers. When all operations have been enqueued, the pairs of a rank are in one-to-one correspondence with
two passes, N-1 steps and the elements of a chunk, because the subchunks of a step partition the chunk, the last one with the remainder.

*Assumptions:* `NAssumption` (N >= 2: with one rank all loops are empty), `VersionAssumption`,
`SizeAssumption` (a chunk has an element: main skips empty tensors).

### The ring program and its runner

`RingBenchProofs`, for any number of devices, any hosts, any list of cases and any number of repeats:

- `BenchInvariant`: the inductive invariant of the program, the conjunction of the following parts;
- `SearchIsComplete`: `findP2PRing` gives up only when no order of all devices makes a ring, and returns a ring that works (`SearchInv`: every
  order given up has an edge that does not work, and the order under test works up to its edge). The program tries the
  orders that keep device 0 first; the proof turns any other order until device 0 is, and
  that there is such a turn is a pigeonhole argument: an order without device 0 would put n devices on n-1;
- `MachineIsLeftAsFound`: `EnabledInv` adds to the property what is enabled while an edge is tested;
- `CountsAreOfOneCall`: `CountInv` says of the counter that it is zero behind the reset and one call's until it has been read, after which the timed
  calls may add to it what they like, and the row has its own copy;
- `SoundHosts`: `SoundInv` follows the buffers from the inputs to the sum, and the row from there;
- `RunnerRunsTheProgram`: `ExpSpec => Spec`, every behaviour of the runner is one of the program or leaves it as it is. So all of the above hold
  under the script, crashes included;
- `CompleteSuccess`, of the runner: its exit status is 0 exactly when the parser finds every case of every repeat, correct. `PlaceInv` has
  the i-th row at its place in the order of the loops; so rows of different places have different labels or repeats,
  and their number decides. `StageInv` ties exit code and manifest to it.

`CompleteSuccess` supposes `LabelsDiffer`, that the cases of main's list have labels of their own: the list is v1, v2, v3 with 2, 4, 8, 16 subchunks,
and nccl, and nothing on the command line changes it (ring.cu:592, 722-725). Assumed are `GpuAssumption` (a device, a repeat, a call of `timeUs` and a case at least) and
`HostAssumption` (what a host can map are pairs of devices, what is broken can be mapped).

### DDP training

`DdpTrainingProofs`, for any number of ranks, steps and repeats, in every mode, with or without probe and calibration, wherever numbers stop being
finite:

- `Lockstep`: the inductive invariant `LockstepInv`;
- `NoDrift`: `check_param_sync` never finds a difference on a rank whose numbers are finite;
- `EqualStarts`: measured steps start from equal parameters and optimizer state;
- `UnanimousAbort`: no rank aborts while another goes on.

*The argument.* Ranks leave a collective one by one, so between two steps there is always one that has left and one that has not. `Position(r)` counts a
rank that has yet to leave a completed collective (`owed`) as past it, with what it is about to take: seen so, all ranks pass a collective
in one step, and no rank is past one that another has not come to (`MeetInv`). Where gradients are averaged, ranks have made the same
updates (`UpdatesInv`, an update being counted from the moment its gradient is averaged); the no_sync probe is the only
place where they are not, and nothing measured follows it. That a rank's own loss decides on its abort is harmless because a
loss that is not finite shows in the averaged gradients (`LossInv`), so that the judgements of ranks that have looked
are equal (`JudgementInv`). Of the program the proof knows which instruction may follow which (`ProgramInv`), not
where an instruction stands, so that the number of steps does not matter.

*Assumptions:* `WorldAssumption`, `WindowAssumption` (windows have numbers of steps, possibly none), `ModeAssumption` (single mode is one process; under torchrun
its ranks would drift).

### The DDP campaign

`DdpCampaignProofs`, for every set of hosts, every sequence of capacities, any step times, any number of launches, sessions, preflights
and faults:

- `FinalSessionsAreSound`: what is compared was measured over a transport that works;
- `CostsAreOfOneLaunch`: a sync cost is the difference of two times of one launch;
- `ComparisonsOfOneSession`: when the last final session has run to its end, what is compared is all of that session;
- `NoiseOfLaunches`: the noise floor is a spread across launches, one row of each;
- `GapsAreReal`: what the plateau rule calls resolvably slower was slower in every launch.

*The argument.* None is inductive: that all rows there are now are sound says nothing of the launch that is under way.
`GateStandsInv` adds that the preflight's word is true while it stands (`GateInv`: PREFLIGHT OK is taken back as a preflight starts, and given
only with a transport that passed), that a script with a final launch left to do runs over a transport that works, and that the rows of a
file are at most those of one run in its mode and of one probe (`FilesInv`). An anchor session is started
without the gate; what keeps its rows out is that all its launches carry the tag `shm`, as it is started with SKIP_REF (`MatrixIsOfTag`: an anchor
that ran the serialised control would put ungated rows beside the final ones). The second theorem needs that a file is written by one launch at a
time, and truncated by it (`ProbesAreOfOneFile`).

For the third, `SessionInv` says of every compared output that it has been overwritten by the last final session or that this session has it still to do: a
final session launches *all* that may be compared (`FinalPaths`), so nothing is left at its end. The fourth counts: a training row is the one row of
its file that is (`TrainingRow`), a cell's rows are of one capacity, so they are as many as launch numbers at most. The last is arithmetic on
minimum, median and maximum: a median lies between the others, the noise is at least each cell's spread, and a gap of medians
larger than it leaves no room. That a cell has these at all needs it to be finite, which `FinalPaths` is.

`CampaignAssumption` gives the types of the constants, and at least one launch; `HostAssumption` how a transport may behave.

### The overlap benchmark

`OverlapBenchProofs`, for any number of devices, of stages of the pipeline, of warmup and timed calls, and any lists of rows:

- `OverlapInvariant`: the inductive invariant `IInv`, and `TypeCorrect`, the types of the variables, a part of it;
- `EveryCallIsSeparate`: the calls of a body that `timeUs` makes do not mix;
- `TheBaselineIsSequential`: no device communicates while any computes in the sequential measurement;
- `ElapsedIsOneCall`: `elapsed()` reads the work of exactly one call, of all stages and on all devices;
- `NamesAreOfOneConfiguration`: rows of one label and size are different repeats of one configuration;
- `CellsAreOfOneConfiguration`: all rows of a cell of the analysis are, but in the one cell that has the bucket rows.

*The argument.* A body is a concatenation of loops over stages and devices. It is known by what is in it and what comes behind
what (`Bodies`): nothing twice; behind every launch a synchronisation of its stream (`Closed`); in the sequential one, no way from a computation to
an AllReduce but by the synchronisation of the computation's stream (`ByWayOf`); in the overlapped one, a stream's work between its two records
(`Bracketed`). `IssuedInv` ties what is issued to the place of the host in the body, and `SyncedInv` says that what the host has
waited for is done. With `Closed`, all work of a call is done at the end of its body, whether `timeUs` waits for the devices there or not. `StampInv` is what the last record of an event saw: a
record runs after everything ahead of it in its stream and before everything behind it (`OrderInv`), so that the start event of call i has counted the n(i-1)
pieces of work of the calls before and the end event n more. TLC has checked the invariant, `IInv`, on the instance of the run.

The last two theorems are about data: a row is known by its place in the nest of loops, a label by its tail. Their hypothesis, `DistinctLists`, is that no list of
sizes, workloads, ratios or buckets has an entry twice, and that buckets differ in whole MiB, which is all a label shows of them
(parse_overlap_output.py:126). The defaults do (overlap.cu:211-215); `--sizes`, `--buckets` and the other lists are taken as given, and one with an
entry twice has two rows of one name and repeat. The second theorem also supposes `--only-micro`: with bucket rows its property is false (section 6). `OverlapAssumption` gives the types of the constants, and a device and a timed call at least.

### The NCCL baseline

`NcclExperimentProofs`, for any collectives and configurations, any number of invocations and of commits in between, terminated wherever it may be:

- `InvocationsKeepApart`: the inductive invariant of the directory (`OwnInv`: an invocation has outputs of its own configuration to do,
  which had none when it began, and has recorded all that are there; `ManifestInv`: what a manifest lists is there and is nobody's any more);
- `SmokeFirst`: the full tier starts behind a smoke tier that has passed, all of it (`SmokeInv`);
- `RunsAreNotRepeated`, `OutputsAreKept`, `PassedRunsAreParsed`: no output is changed once its run is over, so that what the gate has
  passed, and a manifest lists, has correct rows ever after (`FreshInv`, `AgreeInv`);
- `OutputsAreParsed`: in a finished experiment the rows come from all outputs, each once (`ListedInv`: a manifest lists all of its
  configuration, and something: the parser takes an empty list for none).

The two hypotheses are what the proofs found the properties to depend on. `Distinct`: no collective is named twice in `-c`; the
script does not refuse it, and the second run of one truncates the output of the first (run_nccl_baseline.sh:56, 243).
`FullRepeats # 0`: with FULL_REPEATS=0 a full tier is empty and its manifest too. The defaults satisfy both. `LabelAssumption`: a configuration and a collective at least.

### The multi-node runner

`MultinodeNcclProofs`, for any number of hosts, any request, however the processes were launched and however their lines fell in the log:

- `RunnerInvariant`: the inductive invariant;
- `OnlyBaselines`: nothing is timed but one job with a rank on each host and sockets in every process that the variables reached; and, hosts
  exchanging data over a network both use (`Connected`), sockets everywhere;
- `AllBaselines`: no baseline on the chosen interface is refused, if the variables reached any process of it;
- `CompleteSuccess`: exit status 0 means that every collective passed every tier asked for;
- `SmokeFirst`: the smoke tier gates the full tier.

*The argument.* The gate sees nothing but the log. `LogInv`: every line of it is a line of some process, and all that has
been printed is there; at the gate, all lines of all processes (`GateInv`). Processes that are a job each
would all be rank 0, and a log names one host per rank (`RankToHost`): as many hosts as asked for therefore mean as many ranks, that is one job, and that no two of
its processes share a host is a pigeonhole argument. A silent process shows its host only; with `Connected`, its network is that of one
that speaks, and the gate demands one. The tiers are as in the
baseline (`TierInv`, `CompleteInv`). `MultinodeAssumption`: two hosts at least, as the script demands, and requests that are not empty.

## 5. Model-checked only

- Liveness (`EveryRankExits`, `EveryRowIsPrinted`, `EveryScriptEnds`): out of the prover's
  reach, as is everything with fairness or ENABLED.
- The sequence of cases in RingCases; the theorems are about calls of one version.

## 6. Findings

Each is a run with one property, taken from a comment or a document, that TLC shows false.

1. `bench_mappings`: `p2pFunctional` tests the edge a to b through b's access to a; main
   enables a's access to b. On a host with a one-way fault the ring passes the test and
   runs over the broken mapping.
2. `bench_oracle`: `verify` counts `err > 1e-3`, which no NaN satisfies. A case whose result is NaN has no
   mismatches and is timed.
3. `nccl_commit`: rows of a configuration added later carry the commit of the manifest first
   by name.
4. `nccl_trailer`: the phase 1 document (240-251) wants exit code 0 and the out-of-bounds trailer of a correct run; the parser takes no exit code and no trailer
   for correct too (parse_nccl_output.py:351-352). A collective cut off with the pod, recovered from its file name, has correct rows. So has a run with
   exit code 0 whose trailer is lost, which the runner's gate fails: gate and parser agree in one direction only, `PassedRunsHaveCorrectRows`.

Seen while reading and modelling, and not a run of its own:
- bucket rows are printed with the size of the gradient, compute-gemm and ratio 1.00 whatever their buckets (overlap.cu:463), so that
  analyze_contention.py puts those of all bucket sizes, and the micro row of that size and ratio 1, into one cell (63) and takes medians of what it
  calls repeats (60). REPRODUCING.md:114 makes the rows for it with `--only-micro`; the script does not ask for it. `OnlyTheBucketCellIsMixed`
  says that this is the only such cell, and that there is none without bucket rows;
- no event orders the AllReduce of a bucket behind the computation of its stage (overlap.cu:450), while the
  comment at 409 says "as soon as a bucket is ready"; the buffers are not those of the computation, so only
  the overlap that is measured depends on it;
- the transport gate confirms the interface when *any* process used it (verify_nccl_transport.py:123), and reads
  the first interface of a banner only (63): a run in which another process used another interface, or a process used two, passes,
  while run_nccl_multinode.sh:33 says the gate proves the requested interface;
- the gate does not count who speaks: a process that the exported variables miss prints no NCCL line (NCCL_DEBUG goes with them), and
  one banner of another stands for it. What keeps such a process from using another network than its peers, the case
  run_nccl_multinode.sh:130-131 warns of, is only that NCCL does not connect two networks: hence `Connected` in `OnlyBaselinesAreTimed`;
- that a banner alone counts as presence of the transport (verify_nccl_transport.py:94-99); the phase 3 document (line 452)
  wants at least one channel line;
- the aliasing of events that ring.cu:150-154 describes would only happen in the AllGather: in a ReduceScatter step
  the waits of a step are made before the next step records, so that one event per rank would do there (v3 has just that);
- v3 prints its own name and subchunk count also when it fell back to v2 (ring.cu:472);
- timed calls run on the sums of the call before, so that values grow by a factor of N (ring.cu:765);
- only rank 0's byte counter is printed (ring.cu:757); `BytesMatchPrediction` has all of them;
- `sync_err` is printed and not part of the decision to abort (train_ddp.py:383): only the preflight's gate stands between
  ranks that drift and the results, and the SHM anchor session of REPRODUCING.md is started without one, although
  preflight_ddp.sh:13 says that only a configuration that passes may be benchmarked;
- serial mode passes `sync_grads=True` (train_ddp.py:369, 411), so that the reducer averages in the backward pass what the flat AllReduce averages
  again, where the text at line 38 has a no_sync backward and the comment at 316 says the reducer never runs; the result is the same (the
  average of equal averages), but the baseline without overlap overlaps;
- run_final_ddp.sh calls a launch that failed "not reportable" on the terminal (line 55) and goes on; a launch that failed after its rows has them
  in the results, with `correctness_ok` true and the manifest's exit code;
- the transport of a directory's rows is its one manifest's (parse_ddp_output.py:214), also of rows measured in an anchor session over another;
- a session that is interrupted half way through leaves its rows beside those of the session before it, and no row says which is which:
  `ComparisonsAreOfOneSession` is about directories whose last session ran to its end;
- without `--prefix`, launches of two tags share a cell of their capacity (analyze_ddp.py:56); the noise floor is printed as one "across independent
  relaunches" also when it is the spread of the cells compared (181-184), and is 0 when one launch of each is left;
- the gate's test for finite values cannot fail when the exit code is 0 (preflight_ddp.sh:88, train_ddp.py:383);
- `RowsOfOneNameAreRepeats` and `OnlyTheBucketCellIsMixed` hold for buckets of whole MiB and ratios of two decimals, which the parser and the printout
  round to, each given once;
- parse_overlap_output.py bounds the efficiency by -0.5 and 1.5 (line 139) where its comment has 0 and 1.2; `transport_verified` is a constant there (165)
  and in parse_ring_output.py (183), and `--strict` of the former can never fail (250);
- the pipeline drops the remainder of `totalGrad / bucket` (overlap.cu:416);
- a configuration cut off before its manifest is ignored by the parser once another
  configuration has one, and cannot be re-run under its name (run_nccl_baseline.sh:133);
- a collective named twice in `-c` is run twice under one name (run_nccl_baseline.sh:56, 243), and the second run truncates the output of the first, where
  results/raw is to be append-only; `OutputsAreNeverRewritten` is about lists without repetition, see `Distinct` in section 4.

## 7. What is left out

In the modelled parts: failing CUDA calls (`CUDA_CHECK` exits), options, NVTX ranges, all durations, element types and
sizes beyond chunks and subchunks; the second test of the identity order that main makes
only to print it; the calibration that chooses how much computation a row of the overlap benchmark has; in the results, columns that are copied or
converted, and medians and bounds of durations other than in the plateau rule; the `relaunch-*` family of rows, which no script of the repository makes,
so that the noise floor is always the fallback; the overwritten `nccl_debug_info` file, which nothing reads; the bandwidth arithmetic
and the schema checks of rows. A non-finite loss is taken to give non-finite
gradients. The repository is taken not to move on while an invocation runs.

Components not modelled: see section 1 and `components` in PROJECT.json. The harness calibration and the plots decide
nothing; the model's tensors are arithmetic; environment capture, setup and provisioning are I/O.

## 8. Plan

Done, in this order, most important first: CudaStreams, RingSchedule,
RingAllReduce, RingCases, ChunkRelay and their proofs; RingBench; DdpTraining; OverlapBench;
NcclExperiment; MultinodeNccl; DdpResults and DdpCampaign; RingExperiment; OverlapResults.
What is left of the repository is listed in section 7; none of it keeps state or decides anything a model would show.

Proved, in this order: RingAllReduce's v2, DdpCampaign, DdpTraining, MultinodeNccl, NcclExperiment, RingBench with RingExperiment, the bytes of all
versions of the ring, OverlapBench with OverlapResults, and v1 and v3 with the argument of v2 made one for all three.

Every invariant and refinement that a run checks is now a theorem, of each version where RingCases has them in a row. What may follow are facts about the pure operators of the models that no run states on
its own, such as the parsers' folds over rows.
