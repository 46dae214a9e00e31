--------------------------- MODULE RingAllReduce ---------------------------
(***************************************************************************)
(* The three ring AllReduce implementations of ring_allreduce.cu, as the   *)
(* host thread enqueues them and the devices execute them:                 *)
(*                                                                         *)
(*   v1  peer copies and kernels on the default streams, with a            *)
(*       synchronisation of every device after every loop over the ranks;  *)
(*   v2  one copy and one compute stream per rank, ordered by events, one  *)
(*       staging buffer per ReduceScatter step;                            *)
(*   v3  v2 with every chunk moved and reduced in subchunks.               *)
(*                                                                         *)
(* One behaviour is a sequence of calls on freshly filled buffers, as main *)
(* makes them for the correctness run of every case.  A timed call starts  *)
(* from other values, but from the same control state; nothing below looks *)
(* at a value except as a sum of this call's inputs, so it is covered.     *)
(***************************************************************************)
EXTENDS RingSchedule, CudaStreams

CONSTANTS
  Version,  \* "v1", "v2" or "v3": the function main calls
  Sub,      \* the argument of v3, the number of subchunks
  Chunk     \* elements per chunk

ASSUME VersionAssumption == Version \in {"v1", "v2", "v3"}
(* main trims the tensor to a multiple of N and skips an empty one.        *)
ASSUME SizeAssumption == Sub \in Int /\ Chunk \in Nat /\ Chunk >= 1

VARIABLES
  mem,    \* mem[l][e]: element e of location l
  moved,  \* g_bytesMoved, in elements
  call    \* "running", or "returned" from the call

vars == <<cudaVars, mem, moved, call>>

-----------------------------------------------------------------------------
(* v3 takes at least one subchunk, and falls back to v2 when a chunk has   *)
(* fewer elements than there are subchunks.                                *)
Subs == IF Sub < 1 THEN 1 ELSE Sub
Base == Chunk \div Subs
Algo == IF Version = "v3" /\ Base = 0 THEN "v2" ELSE Version

Elems  == 0 .. Chunk - 1
Pieces == IF Algo = "v3" THEN 0 .. Subs - 1 ELSE {0}

(* The operations one call enqueues: for a step s, rank r (and subchunk k, *)
(* 0 where chunks are not split), the ReduceScatter copy r makes to its    *)
(* successor, the reduction r makes of what it received, and the AllGather *)
(* copy r makes to its successor.                                          *)
Kinds == {"rsCopy", "reduce", "agCopy"}
Ops   == {o \in [kind : Kinds, s : Steps, k : Pieces, r : Ranks] :
             o.kind = "agCopy" => o.k = 0}

RSCopyOp(s, k, r) == [kind |-> "rsCopy", s |-> s, k |-> k, r |-> r]
ReduceOp(s, k, r) == [kind |-> "reduce", s |-> s, k |-> k, r |-> r]
AGCopyOp(s, r)    == [kind |-> "agCopy", s |-> s, k |-> 0, r |-> r]

(* The elements of the chunk an operation covers.  The last subchunk takes *)
(* the remainder.                                                          *)
EvenPieceLen(o) == IF o.kind # "agCopy" /\ Algo = "v3" THEN Base ELSE Chunk
PieceOff(o) == IF o.kind # "agCopy" /\ Algo = "v3" THEN o.k * Base ELSE 0
PieceLen(o) == IF o.kind # "agCopy" /\ Algo = "v3"
               THEN IF o.k = Subs - 1 THEN Chunk - PieceOff(o) ELSE Base
               ELSE Chunk
Piece(o) == PieceOff(o) .. PieceOff(o) + PieceLen(o) - 1

(* Which staging buffer step s uses: v1 has one for all, as each step ends *)
(* with a synchronisation, v2 and v3 one per step.                         *)
ParityStageSlot(s) == IF Algo = "v1" THEN 0 ELSE s % 2
StageSlot(s) == IF Algo = "v1" THEN 0 ELSE s

Src(o) == CASE o.kind = "rsCopy" -> Buf(o.r, RSSend(o.r, o.s))
            [] o.kind = "reduce" -> Stage(StageSlot(o.s), o.r)
            [] o.kind = "agCopy" -> Buf(o.r, AGSend(o.r, o.s))
Dst(o) == CASE o.kind = "rsCopy" -> Stage(StageSlot(o.s), NextRank(o.r))
            [] o.kind = "reduce" -> Buf(o.r, RSRecv(o.r, o.s))
            [] o.kind = "agCopy" -> Buf(NextRank(o.r), AGSend(o.r, o.s))

-----------------------------------------------------------------------------
(* The order in which the host's loops reach the operations: the           *)
(* ReduceScatter steps before the AllGather steps; in a ReduceScatter step *)
(* the subchunks in order, for each a loop over the ranks that copies and  *)
(* then one that reduces.                                                  *)
EarlierLoop(p, o) ==
  \/ p.kind # "agCopy" /\ o.kind = "agCopy"
  \/ p.kind = "agCopy" /\ o.kind = "agCopy" /\ p.s < o.s
  \/ /\ p.kind # "agCopy" /\ o.kind # "agCopy"
     /\ \/ p.s < o.s
        \/ p.s = o.s /\ p.k < o.k
        \/ p.s = o.s /\ p.k = o.k /\ p.kind = "rsCopy" /\ o.kind = "reduce"

SameLoop(p, o) == p.kind = o.kind /\ p.s = o.s /\ p.k = o.k

HostBefore(p, o) == EarlierLoop(p, o) \/ (SameLoop(p, o) /\ p.r < o.r)

(* What syncAll has waited for when the host reaches o.  Only v1 calls it  *)
(* before the end: after every loop over the ranks.                        *)
SyncedBefore(o) ==
  IF Algo = "v1" THEN {p \in Ops : EarlierLoop(p, o)} ELSE {}

(* The streams an operation occupies.  A copy of v1 goes through the       *)
(* default streams of both its devices.                                    *)
Stream(r, name) == [rank |-> r, name |-> name]
StreamsOf(o) ==
  IF Algo = "v1"
  THEN {Stream(o.r, "default")} \cup
       (IF o.kind = "reduce" THEN {} ELSE {Stream(NextRank(o.r), "default")})
  ELSE {Stream(o.r, IF o.kind = "reduce" THEN "calc" ELSE "comm")}

AheadInStream(p, o) == HostBefore(p, o) /\ StreamsOf(p) \cap StreamsOf(o) # {}

-----------------------------------------------------------------------------
(* Events.  copyDone and calcDone have a slot per step, those of the       *)
(* AllGather steps start at N; subCopy is one event per rank that v3       *)
(* records again for every subchunk.                                       *)
copyDone(r, slot) == [event |-> "copyDone", rank |-> r, slot |-> slot]
calcDone(r, slot) == [event |-> "calcDone", rank |-> r, slot |-> slot]
subCopy(r)        == [event |-> "subCopy",  rank |-> r, slot |-> 0]

AGWaits(o) == IF o.s = 0 THEN {calcDone(o.r, N - 2)}
                         ELSE {copyDone(PrevRank(o.r), N + o.s - 1)}

V2WaitsWithoutA(o) ==
  CASE o.kind = "rsCopy" -> {}
    [] o.kind = "reduce" -> {copyDone(PrevRank(o.r), o.s)}
    [] o.kind = "agCopy" -> AGWaits(o)
V2Waits(o) ==
  CASE o.kind = "rsCopy" -> IF o.s > 0 THEN {calcDone(o.r, o.s - 1)} ELSE {}  \* (a)
    [] o.kind = "reduce" -> {copyDone(PrevRank(o.r), o.s)}                    \* (b)
    [] o.kind = "agCopy" -> AGWaits(o)
V2RecordsOneAGSlot(o) ==
  CASE o.kind = "rsCopy" -> {copyDone(o.r, o.s)}
    [] o.kind = "reduce" -> {calcDone(o.r, o.s)}
    [] o.kind = "agCopy" -> {copyDone(o.r, N + t) : t \in Steps}
V2Records(o) ==
  CASE o.kind = "rsCopy" -> {copyDone(o.r, o.s)}
    [] o.kind = "reduce" -> {calcDone(o.r, o.s)}
    [] o.kind = "agCopy" -> {copyDone(o.r, N + o.s)}

V3WaitsWithoutA(o) ==
  CASE o.kind = "rsCopy" -> {}
    [] o.kind = "reduce" -> {subCopy(PrevRank(o.r))}
    [] o.kind = "agCopy" -> AGWaits(o)
V3Waits(o) ==
  CASE o.kind = "rsCopy" -> IF o.s > 0 /\ o.k = 0 THEN {calcDone(o.r, o.s - 1)} ELSE {}
    [] o.kind = "reduce" -> {subCopy(PrevRank(o.r))}
    [] o.kind = "agCopy" -> AGWaits(o)
V3RecordsFirstPiece(o) ==
  CASE o.kind = "rsCopy" -> {subCopy(o.r)}
    [] o.kind = "reduce" -> IF o.k = 0 THEN {calcDone(o.r, o.s)} ELSE {}
    [] o.kind = "agCopy" -> {copyDone(o.r, N + o.s)}
V3Records(o) ==
  CASE o.kind = "rsCopy" -> {subCopy(o.r)}
    [] o.kind = "reduce" -> IF o.k = Subs - 1 THEN {calcDone(o.r, o.s)} ELSE {}
    [] o.kind = "agCopy" -> {copyDone(o.r, N + o.s)}

WaitEvents(o)   == CASE Algo = "v1" -> {} [] Algo = "v2" -> V2Waits(o)
                     [] Algo = "v3" -> V3Waits(o)
RecordEvents(o) == CASE Algo = "v1" -> {} [] Algo = "v2" -> V2Records(o)
                     [] Algo = "v3" -> V3Records(o)

(* The operations behind which the events o waits for were last recorded.  *)
LatestRecord(e, p) ==
  /\ e \in RecordEvents(p)
  /\ \A q \in issued : e \in RecordEvents(q) => ~HostBefore(p, q)
Awaited(o) == {p \in issued : \E e \in WaitEvents(o) : LatestRecord(e, p)}

-----------------------------------------------------------------------------
(* The buffers as ringInit and ringReset leave them: every rank holds its  *)
(* own input, staging holds nothing this call can use.                     *)
Filled == [l \in Locs |-> [e \in Elems |-> IF l.space = "buf" THEN Own(l.rank)
                                                              ELSE Leftover]]

Init ==
  /\ CudaQuiet
  /\ mem = Filled
  /\ moved = [r \in Ranks |-> 0]
  /\ call = "running"

(* What g_bytesMoved counts of an operation, in elements.                  *)
CountedInReduceScatter(o) == IF o.kind = "rsCopy" THEN PieceLen(o) ELSE 0
Counted(o) == IF o.kind = "reduce" THEN 0 ELSE PieceLen(o)

(* The host reaches o: it waits for what syncAll must find finished,       *)
(* enqueues o behind its waits, and counts the bytes of a copy.            *)
Issue(o) ==
  /\ call = "running"
  /\ o \notin issued
  /\ \A p \in Ops \ issued : ~HostBefore(p, o)
  /\ SyncedBefore(o) \subseteq done
  /\ Enqueue(o, Awaited(o))
  /\ moved' = [moved EXCEPT ![o.r] = @ + Counted(o)]
  /\ UNCHANGED <<mem, call>>

Begin(o) ==
  /\ DeviceBegin(o, AheadInStream)
  /\ UNCHANGED <<mem, moved, call>>

(* A copy puts its source into its destination, a reduction (addInto) adds *)
(* it there.                                                               *)
Result(o, e) == IF o.kind = "reduce" THEN Plus(mem[Dst(o)][e], mem[Src(o)][e])
                                     ELSE mem[Src(o)][e]
End(o) ==
  /\ DeviceEnd(o)
  /\ mem' = [mem EXCEPT ![Dst(o)] =
               [e \in Elems |-> IF e \in Piece(o) THEN Result(o, e) ELSE @[e]]]
  /\ UNCHANGED <<moved, call>>

(* The final syncAll.                                                      *)
Return ==
  /\ call = "running"
  /\ issued = Ops
  /\ Drained
  /\ call' = "returned"
  /\ UNCHANGED <<cudaVars, mem, moved>>

(* main's next correctness run: ringReset, resetByteCounter, run.          *)
CallAgain ==
  /\ call = "returned"
  /\ CudaReset
  /\ mem' = Filled
  /\ moved' = [r \in Ranks |-> 0]
  /\ call' = "running"

Host   == Return \/ CallAgain \/ \E o \in Ops : Issue(o)
Device == \E o \in Ops : Begin(o) \/ End(o)
Next   == Host \/ Device

Safety == Init /\ [][Next]_vars

-----------------------------------------------------------------------------
(* Two operations conflict when one writes what the other reads or writes. *)
Conflict(p, o) ==
  /\ Piece(p) \cap Piece(o) # {}
  /\ \/ Dst(p) = Dst(o)
     \/ Dst(p) = Src(o)
     \/ Src(p) = Dst(o)

(* The state has its types, and no operation reaches outside the buffers   *)
(* ringInit allocates.                                                     *)
TypeOK ==
  /\ CudaTypeOK(Ops)
  /\ mem \in [Locs -> [Elems -> Values]]
  /\ moved \in [Ranks -> Nat]
  /\ call \in {"running", "returned"}
  /\ \A o \in running : Src(o) \in Locs /\ Dst(o) \in Locs

(* Operations that conflict run one after the other, in the order the host *)
(* enqueued them, whatever the streams do: the schedule has no data race,  *)
(* no staging buffer is overwritten before it is read (the hazard of the   *)
(* parity staging that the comment of struct Ring describes), none is read *)
(* before it is written, and a chunk is forwarded only when it is final.   *)
ConflictsInHostOrder ==
  \A o \in running : \A p \in Ops \ done :
    HostBefore(p, o) => ~Conflict(p, o)

(* The header's invariant: when a rank has finished the last step of the   *)
(* ReduceScatter, it owns chunk (r+1) % N, and holds there every rank's    *)
(* input exactly once.  It keeps it while the AllGather runs around it.    *)
ReduceScatterOwnership ==
  \A r \in Ranks :
    (\A k \in Pieces : ReduceOp(N - 2, k, r) \in done) =>
      \A e \in Elems : mem[Buf(r, (r + 1) % N)][e] = AllOnce

(* What verify checks after the correctness run: when the call returns,    *)
(* every element of every chunk on every rank is the sum of all ranks'     *)
(* inputs, each counted once.                                              *)
AllReduceCorrect ==
  call = "returned" =>
    \A r \in Ranks, c \in Chunks, e \in Elems : mem[Buf(r, c)][e] = AllOnce

(* The header's prediction, 2(N-1)/N of the tensor per rank, printed as    *)
(* bytes_expected_per_rank beside what was counted.                        *)
BytesMatchPrediction ==
  call = "returned" =>
    \A r \in Ranks : N * moved[r] = 2 * (N - 1) * (N * Chunk)

(* Every wait of v2 is on an event this call has recorded already (a wait  *)
(* on one it has not is silently no wait at all), and behind an operation  *)
(* the waiter has a conflict with, so that nothing is ordered for no       *)
(* reason: what one event slot per rank and step is for.                   *)
WaitsAreDependencies ==
  /\ \A o \in issued : \A e \in WaitEvents(o) :
       \E x \in waits : x[1] = o /\ e \in RecordEvents(x[2])
  /\ \A x \in waits : Conflict(x[2], x[1])

(* Seen through any one element, a call is a relay of every chunk around   *)
(* the ring: every rank adds its input once, to what its predecessor holds *)
(* at that moment, and overwrites its slot only with a complete sum.  The  *)
(* runs watch the first and the last element.                              *)
Held(e) == [q \in Ranks |-> [c \in Chunks |-> mem[Buf(q, c)][e]]]
First == INSTANCE ChunkRelay WITH held <- Held(0)
Last  == INSTANCE ChunkRelay WITH held <- Held(Chunk - 1)
ImplementsRelay == First!Spec /\ Last!Spec
=============================================================================
