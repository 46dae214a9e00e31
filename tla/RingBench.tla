------------------------------ MODULE RingBench ------------------------------
(***************************************************************************)
(* The main program of ring_allreduce.cu around the algorithms: it tests   *)
(* which peer mappings of the host deliver what they are given, looks for  *)
(* a ring of devices whose edges all work, enables peer access along it,   *)
(* and puts every implementation through a correctness run before it times *)
(* it and prints its row.                                                  *)
(*                                                                         *)
(* A mapping <<i, j>> lets device i access the memory of device j.  The    *)
(* driver may allow it (can) and it may still corrupt what goes through it *)
(* (broken): the comment above p2pFunctional reports such hosts.           *)
(*                                                                         *)
(* Left out: allocations and launches that fail (CUDA_CHECK exits), the    *)
(* printout of the identity ring's edges before the search, which tests    *)
(* what the search tests again, and the sizes, which all see the same.     *)
(***************************************************************************)
EXTENDS Integers, Sequences, FiniteSets

CONSTANTS
  ngpu,     \* the devices of the run
  Hosts,    \* the hosts looked at, and how main is called: [can, broken, allowHostStaged]
  Cases,    \* the sequence of cases: [impl, sub], an implementation and its subchunks
  Repeats,
  TimedCalls  \* warmup + iters

(* With no case or no repeat to run main prints no row; that is left out.  *)
ASSUME GpuAssumption ==
  /\ ngpu \in Nat \ {0} /\ Repeats \in Nat \ {0} /\ TimedCalls \in Nat \ {0}
  /\ Cases \in Seq([impl : STRING, sub : Nat]) \ {<< >>}

Devices  == 0 .. ngpu - 1
Mappings == {m \in Devices \X Devices : m[1] # m[2]}
ASSUME HostAssumption ==
  \A h \in Hosts : h.can \subseteq Mappings /\ h.broken \subseteq h.can

VARIABLES
  host,       \* the host: never changes
  enabled,    \* mappings enabled now
  phase,      \* "search", "test", "chosen"; of a case "next", "reset", "called",
              \* "validated", "checked", "timed"; "exit"
  order,      \* the ring order under test, then the ring of the run
  edge,       \* the edge of it under test
  tried,      \* the orders found not to work
  transport,  \* "none" until decided, "p2p-direct", "host-staged", "refused"
  at,         \* index of the case and repeat in progress
  data,       \* what the buffers hold
  counter,    \* g_bytesMoved[0], in chunks
  calls,      \* of timeUs, made for this case
  row,        \* the row being made
  rows        \* the rows printed

searchVars == <<order, edge, tried, transport>>
caseVars   == <<at, data, counter, calls, row, rows>>
vars       == <<host, enabled, phase, searchVars, caseVars>>

-----------------------------------------------------------------------------
(* Orders of the devices that begin with device 0, and which of two        *)
(* std::next_permutation reaches first.                                    *)
AllOrders == {o \in [1 .. ngpu -> Devices] : \A i, j \in 1 .. ngpu : o[i] = o[j] => i = j}
OrdersKeepingTheLast == {o \in AllOrders : o[1] = 0 /\ o[ngpu] = ngpu - 1}
Orders    == {o \in AllOrders : o[1] = 0}
Earlier(o, p) == \E i \in 1 .. ngpu : o[i] < p[i] /\ \A j \in 1 .. i - 1 : o[j] = p[j]
Identity  == [i \in 1 .. ngpu |-> i - 1]

From(o, i) == o[i]
To(o, i)   == o[(i % ngpu) + 1]
RingMappings(o) == {<<From(o, i), To(o, i)>> : i \in 1 .. ngpu}

(* The mapping p2pFunctional enables to test the edge: the destination     *)
(* accesses the source.                                                    *)
TestedMapping(o, i) == <<To(o, i), From(o, i)>>

NoRow == [latency |-> FALSE, mismatches |-> FALSE, moved |-> 0, result |-> "none"]

Init ==
  /\ host \in Hosts
  /\ enabled = {}
  /\ phase = "search"
  /\ order = Identity /\ edge = 1
  /\ tried = {}
  /\ transport = "none"
  /\ at = [case |-> 1, repeat |-> 1]
  /\ data = "unset" /\ counter = 0 /\ calls = 0
  /\ row = NoRow /\ rows = <<>>

-----------------------------------------------------------------------------
(* The order under test fails at its edge: the search goes on to the next. *)
(* With none left main refuses, or goes host-staged if it was allowed to.  *)
GiveUpOrder ==
  /\ tried' = tried \cup {order}
  /\ edge' = 1
  /\ IF Orders \subseteq tried'
     THEN /\ order' = Identity
          /\ transport' = IF host.allowHostStaged THEN "host-staged" ELSE "refused"
          /\ phase' = IF host.allowHostStaged THEN "chosen" ELSE "exit"
     ELSE /\ order' \in Orders \ tried'
          /\ \A o \in Orders \ tried' : ~Earlier(o, order')
          /\ phase' = "search"
          /\ UNCHANGED transport

(* The order's next edge: without the capability bit it fails at once,     *)
(* with it p2pFunctional starts: it enables the mapping it copies through. *)
NoCapability ==
  /\ phase = "search"
  /\ <<From(order, edge), To(order, edge)>> \notin host.can
  /\ GiveUpOrder
  /\ UNCHANGED <<host, enabled, caseVars>>

StartTest ==
  /\ phase = "search"
  /\ <<From(order, edge), To(order, edge)>> \in host.can
  /\ phase' = "test"
  /\ enabled' = enabled \cup ({TestedMapping(order, edge)} \cap host.can)
  /\ UNCHANGED <<host, searchVars, caseVars>>

(* The rest of p2pFunctional: the pattern comes back as it was, or not;    *)
(* the mapping is disabled either way.                                     *)
EndTestLeavesEnabled(ok) ==
  /\ ok = (TestedMapping(order, edge) \in enabled \ host.broken)
  /\ UNCHANGED enabled
EndTest(ok) ==
  /\ ok = (TestedMapping(order, edge) \in enabled \ host.broken)
  /\ enabled' = enabled \ {TestedMapping(order, edge)}

EdgeFails ==
  /\ phase = "test"
  /\ EndTest(FALSE)
  /\ GiveUpOrder
  /\ UNCHANGED <<host, caseVars>>

EdgeWorks ==
  /\ phase = "test"
  /\ EndTest(TRUE)
  /\ IF edge = ngpu
     THEN phase' = "chosen" /\ transport' = "p2p-direct" /\ UNCHANGED <<order, edge>>
     ELSE phase' = "search" /\ edge' = edge + 1 /\ UNCHANGED <<order, transport>>
  /\ UNCHANGED <<host, tried, caseVars>>

(* main enables each device of a direct ring to access its successor.      *)
EnablePeerAccess ==
  /\ phase = "chosen"
  /\ enabled' = IF transport = "p2p-direct" THEN enabled \cup RingMappings(order) ELSE enabled
  /\ phase' = "next"
  /\ UNCHANGED <<host, searchVars, caseVars>>

-----------------------------------------------------------------------------
(* ringReset and resetByteCounter, before every correctness run.           *)
NotReset(d) == IF d = "unset" THEN "inputs" ELSE d
Reset(d)    == "inputs"

ResetForCase ==
  /\ phase = "next"
  /\ data' = Reset(data)
  /\ counter' = 0
  /\ phase' = "reset"
  /\ UNCHANGED <<host, enabled, searchVars, at, calls, row, rows>>

(* What one call leaves in the buffers.  On a ring with a corrupting       *)
(* mapping it is garbage, NaN or not; NCCL may cope with the mapping.  The *)
(* sum is the expected one only from fresh inputs, and a NaN stays one.    *)
Corrupting == enabled \cap RingMappings(order) \cap host.broken # {}
Sum(d) == CASE d = "inputs" -> "sum" [] d = "nan" -> "nan" [] OTHER -> "grown"
Outcomes(c, d) ==
  (IF Corrupting THEN {"nan", "wrong"} ELSE {}) \cup
  (IF Corrupting /\ c.impl # "nccl-reference" THEN {} ELSE {Sum(d)})

(* A ring algorithm counts a chunk for every step of the ReduceScatter and *)
(* of the AllGather; NCCL's own traffic is not counted.                    *)
Counts(c) == IF c.impl = "nccl-reference" THEN 0 ELSE 2 * (ngpu - 1)

(* run: a call of the case's implementation on the buffers as they are.    *)
Call ==
  /\ data' \in Outcomes(Cases[at.case], data)
  /\ counter' = counter + Counts(Cases[at.case])

CorrectnessCall ==
  /\ phase = "reset"
  /\ Call
  /\ phase' = "called"
  /\ UNCHANGED <<host, enabled, searchVars, at, calls, row, rows>>

(* verify counts the elements whose error exceeds a tolerance: a NaN does  *)
(* not exceed it.                                                          *)
Mismatches(d) == d \in {"wrong", "grown"}

Validate ==
  /\ phase = "called"
  /\ row' = [row EXCEPT !.mismatches = Mismatches(data), !.result = data]
  /\ phase' = "validated"
  /\ UNCHANGED <<host, enabled, searchVars, at, data, counter, calls, rows>>

(* moved = g_bytesMoved[0].                                                *)
ReadCounter ==
  /\ phase = "validated"
  /\ row' = [row EXCEPT !.moved = counter]
  /\ phase' = "checked"
  /\ UNCHANGED <<host, enabled, searchVars, at, data, counter, calls, rows>>

(* timeUs makes its calls on what the correctness run left, only if that   *)
(* found no mismatch; they count their bytes like any other.               *)
MayTime == ~row.mismatches
TimedCall ==
  /\ phase = "checked" /\ MayTime
  /\ calls < TimedCalls
  /\ Call
  /\ calls' = calls + 1
  /\ UNCHANGED <<host, enabled, phase, searchVars, at, row, rows>>

EndTiming ==
  /\ phase = "checked" /\ MayTime
  /\ calls = TimedCalls
  /\ calls' = 0
  /\ row' = [row EXCEPT !.latency = TRUE]
  /\ phase' = "timed"
  /\ UNCHANGED <<host, enabled, searchVars, at, data, counter, rows>>

SkipTiming ==
  /\ phase = "checked"
  /\ ~MayTime
  /\ phase' = "timed"
  /\ UNCHANGED <<host, enabled, searchVars, caseVars>>

(* The row is printed.  After the last case the buffers are freed; a       *)
(* further repeat allocates its own.                                       *)
BytesReadLate(c) == IF c.impl = "nccl-reference" THEN 0 ELSE counter
BytesMoved(c)    == IF c.impl = "nccl-reference" THEN 0 ELSE row.moved
Line == [case |-> Cases[at.case], repeat |-> at.repeat - 1, latency |-> row.latency,
         mismatches |-> row.mismatches, moved |-> BytesMoved(Cases[at.case]),
         result |-> row.result]

PrintRow ==
  /\ phase = "timed"
  /\ rows' = Append(rows, Line)
  /\ row' = NoRow
  /\ \/ /\ at.case < Len(Cases)
        /\ at' = [at EXCEPT !.case = @ + 1] /\ phase' = "next"
        /\ UNCHANGED data
     \/ /\ at.case = Len(Cases) /\ at.repeat < Repeats
        /\ at' = [case |-> 1, repeat |-> at.repeat + 1] /\ phase' = "next"
        /\ data' = "unset"
     \/ /\ at.case = Len(Cases) /\ at.repeat = Repeats
        /\ phase' = "exit" /\ data' = "unset"
        /\ UNCHANGED at
  /\ UNCHANGED <<host, enabled, searchVars, counter, calls>>

Next ==
  \/ NoCapability \/ StartTest \/ EdgeFails \/ EdgeWorks \/ EnablePeerAccess
  \/ ResetForCase \/ CorrectnessCall \/ Validate \/ ReadCounter
  \/ TimedCall \/ EndTiming \/ SkipTiming \/ PrintRow

Spec == Init /\ [][Next]_vars

-----------------------------------------------------------------------------
Measuring == phase \in {"next", "reset", "called", "validated", "checked", "timed"}

(* An edge a ring may have: the capability bit is set for it, and the      *)
(* pattern test passes.                                                    *)
EdgeIsGood(o, i) ==
  /\ <<From(o, i), To(o, i)>> \in host.can
  /\ TestedMapping(o, i) \in host.can \ host.broken

(* findP2PRing, which keeps device 0 first as a ring may be rotated, gives *)
(* up only if no order of the devices whatsoever makes a working ring, and *)
(* what it returns is one.                                                 *)
FindsARingIfThereIsOne ==
  /\ transport \in {"refused", "host-staged"} =>
       \A o \in AllOrders : \E i \in 1 .. ngpu : ~EdgeIsGood(o, i)
  /\ transport = "p2p-direct" => \A i \in 1 .. ngpu : EdgeIsGood(order, i)

(* "Leave the machine as we found it": a test leaves no mapping enabled,   *)
(* and the measurements run with those of the direct ring and no others.   *)
OnlyRingMappingsStayEnabled ==
  /\ phase \in {"search", "chosen"} => enabled = {}
  /\ Measuring =>
       enabled = IF transport = "p2p-direct" THEN RingMappings(order) ELSE {}

(* On a host whose mappings all work, every case of every repeat passes    *)
(* its correctness run and is timed, whatever ran on the buffers before.   *)
SoundHostsAreMeasured ==
  host.broken = {} =>
    \A i \in 1 .. Len(rows) : rows[i].latency /\ rows[i].result = "sum"

(* expectBytes: 2(N-1)/N of the tensor, in chunks.                         *)
BytesExpected == 2 * (ngpu - 1)

(* bytes_moved_per_rank of a row is what one call moves, and equal to the  *)
(* bytes_expected_per_rank beside it: the counter, to which every call     *)
(* adds, timed or not, holds those of this case's correctness call alone   *)
(* when it is read.                                                        *)
RowCountsOneCall ==
  \A i \in 1 .. Len(rows) :
    rows[i].moved = IF rows[i].case.impl = "nccl-reference" THEN 0 ELSE BytesExpected

(* The comment above p2pFunctional: an edge is tested before it is         *)
(* believed, so what the benchmark enables delivers its bytes.             *)
EnabledMappingsWork ==
  Measuring => enabled \cap host.broken = {}

(* "Correctness first, always": a row has a latency only if its buffers    *)
(* held the sum.                                                           *)
OnlyCorrectRowsAreTimed ==
  \A i \in 1 .. Len(rows) : rows[i].latency => rows[i].result = "sum"
=============================================================================
