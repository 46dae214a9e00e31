------------------------ MODULE RingAllReduceProofs ------------------------
(***************************************************************************)
(* The three ring AllReduce implementations are free of races, compute the *)
(* AllReduce and move the bytes main expects, for any number of ranks, any *)
(* chunk size and any number of subchunks.                                 *)
(*                                                                         *)
(* The argument: an element of a chunk travels around the ring twice, in   *)
(* 3(N-1) hops, one operation each.  When an operation is under way, the   *)
(* earlier hops of the elements it covers have ended, because of the waits *)
(* on events and the order of the streams in v2 and v3, because of the     *)
(* synchronisations in v1.  What every buffer holds follows from how far   *)
(* its chunk has come, whatever the version.                               *)
(***************************************************************************)
EXTENDS RingAllReduce, RingScheduleProofs, FiniteSetTheorems, FunctionTheorems

(* The chunk an operation works on, and its place on the chunk's journey.  *)
ChunkOf(o) == IF o.kind = "rsCopy" THEN RSSend(o.r, o.s)
              ELSE IF o.kind = "reduce" THEN RSRecv(o.r, o.s)
              ELSE AGSend(o.r, o.s)
Hop(o) == IF o.kind = "rsCopy" THEN 2 * o.s
          ELSE IF o.kind = "reduce" THEN 2 * o.s + 1
          ELSE 2 * (N - 1) + o.s

(* The last of the operations one hop before o that o must come after: for *)
(* a copy, the reduction of the last subchunk.                             *)
LastPiece == IF Algo = "v3" THEN Subs - 1 ELSE 0
Pred(o) == IF o.kind = "rsCopy" THEN ReduceOp(o.s - 1, LastPiece, o.r)
           ELSE IF o.kind = "reduce" THEN RSCopyOp(o.s, o.k, PrevRank(o.r))
           ELSE IF o.s = 0 THEN ReduceOp(N - 2, LastPiece, o.r)
           ELSE AGCopyOp(o.s - 1, PrevRank(o.r))

(* The subchunk element e of a chunk is in.                                *)
PieceOf(e) == CHOOSE k \in Pieces : e \in Piece(RSCopyOp(0, k, 0))

(***************************************************************************)
(* Subchunks                                                               *)
(***************************************************************************)
(* The subchunks of v3 are not empty and do not exceed the chunk.          *)
LEMMA SubchunksFit ==
  /\ Chunk \in Nat \ {0} /\ Subs \in Nat \ {0} /\ Algo \in {"v1", "v2", "v3"}
  /\ Base \in Nat /\ Subs * Base <= Chunk /\ Subs * Base \in Nat
  /\ Algo = "v3" => Base # 0
<1>1. Chunk \in Nat \ {0} /\ Subs \in Nat \ {0}
  BY SizeAssumption DEF Subs
<1>2. Algo \in {"v1", "v2", "v3"} /\ (Algo = "v3" => Base # 0)
  BY VersionAssumption DEF Algo
<1>3. Chunk \div Subs \in Nat /\ (Chunk \div Subs) * Subs <= Chunk
  BY <1>1
<1>4. Base \in Nat /\ Base * Subs <= Chunk
  BY <1>3 DEF Base
<1>5. Subs * Base = Base * Subs /\ Subs * Base \in Nat
  BY <1>1, <1>4
<1>6. QED
  BY <1>1, <1>2, <1>4, <1>5

(* Earlier subchunks end before later ones begin.                          *)
LEMMA SubchunksInOrder ==
  ASSUME NEW j \in Nat, NEW k \in Nat, j < k
  PROVE  j * Base + Base <= k * Base /\ j * Base \in Nat /\ k * Base \in Nat
<1>1. Base \in Nat
  BY SubchunksFit
<1>2. (j + 1) * Base <= k * Base
  BY <1>1
<1>3. (j + 1) * Base = j * Base + Base
  BY <1>1
<1>4. j * Base \in Nat /\ k * Base \in Nat
  BY <1>1
<1>5. QED
  BY <1>2, <1>3, <1>4

(* An operation covers part of a chunk, of the length that is counted.     *)
LEMMA PieceLength ==
  ASSUME NEW o \in Ops
  PROVE  /\ PieceLen(o) \in Nat /\ Piece(o) \subseteq Elems
         /\ IsFiniteSet(Piece(o)) /\ Cardinality(Piece(o)) = PieceLen(o)
<1>1. PieceOff(o) \in Nat /\ PieceLen(o) \in Nat /\ PieceOff(o) + PieceLen(o) <= Chunk
  <2>1. CASE o.kind # "agCopy" /\ Algo = "v3"
    <3>1. o.k \in Nat /\ o.k < Subs
      BY <2>1, SubchunksFit DEF Ops, Pieces
    <3>2. o.k * Base + Base <= Subs * Base /\ o.k * Base \in Nat
      BY <3>1, SubchunksFit, SubchunksInOrder
    <3>3. PieceOff(o) = o.k * Base
          /\ PieceLen(o) = IF o.k = Subs - 1 THEN Chunk - PieceOff(o) ELSE Base
      BY <2>1 DEF PieceOff, PieceLen
    <3>4. QED
      BY <3>2, <3>3, SubchunksFit
  <2>2. CASE ~(o.kind # "agCopy" /\ Algo = "v3")
    <3>1. PieceOff(o) = 0 /\ PieceLen(o) = Chunk
      BY <2>2 DEF PieceOff, PieceLen
    <3>2. QED
      BY <3>1, SubchunksFit
  <2>3. QED
    BY <2>1, <2>2
<1>2. Piece(o) \subseteq Elems
  BY <1>1, SubchunksFit DEF Piece, Elems
<1>3. IsFiniteSet(Piece(o)) /\ Cardinality(Piece(o)) = PieceLen(o)
  <2> DEFINE a == PieceOff(o)
             b == PieceOff(o) + PieceLen(o) - 1
  <2>1. a \in Int /\ b \in Int /\ (IF a > b THEN 0 ELSE b - a + 1) = PieceLen(o)
    BY <1>1
  <2>2. Piece(o) = a .. b
    BY DEF Piece
  <2> HIDE DEF a, b
  <2>3. IsFiniteSet(a .. b) /\ Cardinality(a .. b) = IF a > b THEN 0 ELSE b - a + 1
    BY <2>1, FS_Interval
  <2>4. QED
    BY <2>1, <2>2, <2>3
<1>4. QED
  BY <1>1, <1>2, <1>3

(* Every element of a chunk is in one subchunk,                            *)
LEMMA InASubchunk ==
  ASSUME NEW s \in Steps, NEW r \in Ranks, NEW e \in Elems
  PROVE  \E k \in Pieces : e \in Piece(RSCopyOp(s, k, r))
<1>0. e \in Nat /\ e < Chunk
  BY SubchunksFit DEF Elems
<1>1. CASE Algo # "v3"
  <2>1. 0 \in Pieces /\ Piece(RSCopyOp(s, 0, r)) = Elems
    BY <1>1, SubchunksFit DEF Pieces, Piece, PieceOff, PieceLen, Elems
  <2>2. QED
    BY <2>1
<1>2. CASE Algo = "v3"
  <2> DEFINE q == e \div Base
  <2>1. Base \in Nat \ {0} /\ Subs \in Nat \ {0} /\ Chunk \in Nat
    BY <1>2, SubchunksFit
  <2>2. q \in Nat /\ q * Base \in Nat /\ q * Base <= e /\ e < q * Base + Base
    <3>1. e = (e \div Base) * Base + (e % Base) /\ e \div Base \in Nat /\ e % Base \in 0 .. Base - 1
      BY <1>0, <2>1
    <3>2. (e \div Base) * Base \in Nat
      BY <2>1, <3>1
    <3>3. QED
      BY <1>0, <2>1, <3>1, <3>2
  <2> HIDE DEF q
  <2>3. CASE q < Subs - 1
    <3>1. q \in Pieces
      BY <1>2, <2>1, <2>2, <2>3 DEF Pieces
    <3>2. PieceOff(RSCopyOp(s, q, r)) = q * Base /\ PieceLen(RSCopyOp(s, q, r)) = Base
      BY <1>2, <2>1, <2>2, <2>3 DEF PieceOff, PieceLen, RSCopyOp
    <3>3. e \in Piece(RSCopyOp(s, q, r))
      BY <1>0, <2>1, <2>2, <3>2 DEF Piece
    <3>4. QED
      BY <3>1, <3>3
  <2>4. CASE q >= Subs - 1
    <3> DEFINE k == Subs - 1
    <3>1. k \in Pieces /\ k \in Nat
      BY <1>2, <2>1 DEF Pieces
    <3>2. PieceOff(RSCopyOp(s, k, r)) = k * Base
          /\ PieceLen(RSCopyOp(s, k, r)) = Chunk - k * Base
      BY <1>2 DEF PieceOff, PieceLen, RSCopyOp
    <3>3. k * Base \in Nat /\ k * Base <= q * Base
      <4>1. CASE k = q
        BY <2>2, <4>1
      <4>2. CASE k < q
        BY <2>1, <2>2, <3>1, <4>2, SubchunksInOrder
      <4>3. QED
        BY <2>1, <2>2, <2>4, <4>1, <4>2
    <3> HIDE DEF k
    <3>4. e \in Piece(RSCopyOp(s, k, r))
      BY <1>0, <2>1, <2>2, <3>2, <3>3 DEF Piece
    <3>5. QED
      BY <3>1, <3>4
  <2>5. QED
    BY <2>1, <2>2, <2>3, <2>4
<1>3. QED
  BY <1>1, <1>2

(* and in no other.                                                        *)
LEMMA InNoOtherSubchunk ==
  ASSUME NEW s \in Steps, NEW r \in Ranks, NEW j \in Pieces, NEW k \in Pieces,
         NEW e \in Piece(RSCopyOp(s, j, r)), e \in Piece(RSCopyOp(s, k, r))
  PROVE  ~(j < k)
<1> SUFFICES ASSUME j < k PROVE FALSE
  OBVIOUS
<1>1. Algo = "v3" /\ j \in Nat /\ k \in Nat /\ k < Subs /\ j # Subs - 1
  BY SubchunksFit DEF Pieces
<1>2. PieceOff(RSCopyOp(s, j, r)) = j * Base /\ PieceLen(RSCopyOp(s, j, r)) = Base
      /\ PieceOff(RSCopyOp(s, k, r)) = k * Base
  BY <1>1 DEF PieceOff, PieceLen, RSCopyOp
<1>3. j * Base + Base <= k * Base /\ j * Base \in Nat /\ k * Base \in Nat /\ Base \in Nat
  BY <1>1, SubchunksInOrder, SubchunksFit
<1>4. RSCopyOp(s, k, r) \in Ops
  BY DEF Ops, Kinds, RSCopyOp
<1>5. PieceLen(RSCopyOp(s, k, r)) \in Nat
  BY <1>4, PieceLength
<1>6. e <= j * Base + Base - 1 /\ e >= k * Base /\ e \in Int
  BY <1>2, <1>3, <1>5 DEF Piece
<1>7. QED
  BY <1>3, <1>6

(***************************************************************************)
(* Operations and journeys                                                 *)
(***************************************************************************)

(* What an operation is.                                                   *)
LEMMA OpTypes ==
  /\ \A o \in Ops : /\ o.kind \in Kinds /\ o.s \in Steps /\ o.k \in Pieces /\ o.k \in Nat
                    /\ o.r \in Ranks
                    /\ o.kind = "rsCopy" => o = RSCopyOp(o.s, o.k, o.r)
                    /\ o.kind = "reduce" => o = ReduceOp(o.s, o.k, o.r)
                    /\ o.kind = "agCopy" => o = AGCopyOp(o.s, o.r) /\ o.k = 0
  /\ \A s \in Steps, k \in Pieces, r \in Ranks :
       RSCopyOp(s, k, r) \in Ops /\ ReduceOp(s, k, r) \in Ops
  /\ \A s \in Steps, r \in Ranks : AGCopyOp(s, r) \in Ops
  /\ 0 \in Pieces /\ LastPiece \in Pieces /\ \A k \in Pieces : k \in Nat /\ k <= LastPiece
<1>1. 0 \in Pieces /\ LastPiece \in Pieces /\ \A k \in Pieces : k \in Nat /\ k <= LastPiece
  BY SubchunksFit DEF Pieces, LastPiece
<1>2. QED
  BY <1>1 DEF Ops, RSCopyOp, ReduceOp, AGCopyOp, Kinds

(* An AllGather copy covers a whole chunk, the other operations one of its *)
(* subchunks, the same elements in every step and on every rank.           *)
LEMMA Covers ==
  ASSUME NEW o \in Ops, NEW e \in Elems
  PROVE  /\ PieceOf(e) \in Pieces
         /\ e \in Piece(o) <=> o.kind = "agCopy" \/ o.k = PieceOf(e)
<1>1. 0 \in Ranks /\ 0 \in Steps
  BY NAssumption DEF Ranks, Steps
<1>2. PieceOf(e) \in Pieces /\ e \in Piece(RSCopyOp(0, PieceOf(e), 0))
  <2>1. \E k \in Pieces : e \in Piece(RSCopyOp(0, k, 0))
    BY <1>1, InASubchunk
  <2>2. QED
    BY <2>1 DEF PieceOf
<1>3. o.kind \in Kinds /\ o.k \in Pieces /\ o.k \in Nat /\ PieceOf(e) \in Nat
  BY <1>2, OpTypes
<1>4. CASE o.kind = "agCopy"
  <2>1. Piece(o) = Elems
    BY <1>4, SubchunksFit DEF Piece, PieceOff, PieceLen, Elems
  <2>2. QED
    BY <1>2, <1>4, <2>1
<1>5. CASE o.kind # "agCopy"
  <2>1. Piece(o) = Piece(RSCopyOp(0, o.k, 0))
    BY <1>5 DEF Piece, PieceOff, PieceLen, RSCopyOp
  <2>2. e \in Piece(o) => o.k = PieceOf(e)
    <3> SUFFICES ASSUME e \in Piece(o) PROVE o.k = PieceOf(e)
      OBVIOUS
    <3>1. e \in Piece(RSCopyOp(0, o.k, 0))
      BY <2>1
    <3>2. ~(o.k < PieceOf(e)) /\ ~(PieceOf(e) < o.k)
      BY <1>1, <1>2, <1>3, <3>1, InNoOtherSubchunk
    <3>3. QED
      BY <1>3, <3>2
  <2>3. o.k = PieceOf(e) => e \in Piece(o)
    BY <1>2, <2>1
  <2>4. QED
    BY <1>2, <1>5, <2>2, <2>3
<1>6. QED
  BY <1>4, <1>5

(* A hop is a number, and the chunk that makes it one of the tensor.       *)
LEMMA HopType ==
  ASSUME NEW o \in Ops
  PROVE  Hop(o) \in Nat /\ ChunkOf(o) \in Chunks
<1>1. o.kind \in Kinds /\ o.s \in Steps /\ o.r \in Ranks
  BY OpTypes
<1> QED
  BY <1>1, Indices, NAssumption DEF Hop, ChunkOf, Kinds, Steps

(* A journey has one operation per hop and subchunk.                       *)
LEMMA HopUnique ==
  ASSUME NEW o \in Ops, NEW p \in Ops, ChunkOf(o) = ChunkOf(p), Hop(o) = Hop(p)
  PROVE  /\ o.kind = p.kind /\ o.s = p.s /\ o.r = p.r
         /\ o.k = p.k => o = p
<1>1. /\ o.kind \in Kinds /\ o.s \in Steps /\ o.r \in Ranks
      /\ p.kind \in Kinds /\ p.s \in Steps /\ p.r \in Ranks
  BY OpTypes
<1>2. o.kind = p.kind /\ o.s = p.s
  BY <1>1, NAssumption DEF Hop, Kinds, Steps
<1>3. o.r = p.r
  BY <1>1, <1>2, OneRankPerChunk DEF ChunkOf, Kinds
<1>4. o.k = p.k => o = p
  <2>1. o.kind = "rsCopy" \/ o.kind = "reduce" \/ o.kind = "agCopy"
    BY <1>1 DEF Kinds
  <2>2. QED
    BY <1>2, <1>3, <2>1, OpTypes
<1> QED
  BY <1>2, <1>3, <1>4

(* Before every hop but the first there is one more.                       *)
LEMMA PredHop ==
  ASSUME NEW o \in Ops, Hop(o) > 0
  PROVE  Pred(o) \in Ops /\ ChunkOf(Pred(o)) = ChunkOf(o) /\ Hop(Pred(o)) = Hop(o) - 1
<1>1. o.kind \in Kinds /\ o.s \in Steps /\ o.r \in Ranks /\ o.k \in Pieces
  BY OpTypes
<1>2. CASE o.kind = "rsCopy"
  <2>1. o.s > 0 /\ Pred(o) = ReduceOp(o.s - 1, LastPiece, o.r)
    BY <1>1, <1>2 DEF Hop, Pred, Steps
  <2>2. Pred(o) \in Ops
    BY <1>1, <2>1, Relay, OpTypes
  <2>3. Hop(Pred(o)) = Hop(o) - 1
    BY <1>1, <1>2, <2>1 DEF Hop, ReduceOp, Steps
  <2>4. ChunkOf(Pred(o)) = ChunkOf(o)
    BY <1>1, <1>2, <2>1, Relay DEF ChunkOf, ReduceOp
  <2> QED
    BY <2>2, <2>3, <2>4
<1>3. CASE o.kind = "reduce"
  <2>1. Pred(o) = RSCopyOp(o.s, o.k, PrevRank(o.r))
    BY <1>3 DEF Pred
  <2>2. Pred(o) \in Ops
    BY <1>1, <2>1, Neighbours, OpTypes
  <2>3. Hop(Pred(o)) = Hop(o) - 1
    BY <1>1, <1>3, <2>1 DEF Hop, RSCopyOp, Steps
  <2>4. ChunkOf(Pred(o)) = ChunkOf(o)
    BY <1>1, <1>3, <2>1, Relay DEF ChunkOf, RSCopyOp
  <2> QED
    BY <2>2, <2>3, <2>4
<1>4. CASE o.kind = "agCopy" /\ o.s = 0
  <2>1. Pred(o) = ReduceOp(N - 2, LastPiece, o.r) /\ N - 2 \in Steps
    BY <1>1, <1>4, Relay DEF Pred
  <2>2. Pred(o) \in Ops
    BY <1>1, <2>1, OpTypes
  <2>3. Hop(Pred(o)) = Hop(o) - 1
    BY <1>1, <1>4, <2>1, NAssumption DEF Hop, ReduceOp
  <2>4. ChunkOf(Pred(o)) = ChunkOf(o)
    BY <1>1, <1>4, <2>1, Relay DEF ChunkOf, ReduceOp
  <2> QED
    BY <2>2, <2>3, <2>4
<1>5. CASE o.kind = "agCopy" /\ o.s # 0
  <2>1. o.s > 0 /\ Pred(o) = AGCopyOp(o.s - 1, PrevRank(o.r))
    BY <1>1, <1>5 DEF Pred, Steps
  <2>2. Pred(o) \in Ops
    <3>1. o.s - 1 \in Steps /\ PrevRank(o.r) \in Ranks
      BY <1>1, <2>1, Relay, Neighbours
    <3>2. QED
      BY <2>1, <3>1, OpTypes
  <2>3. Hop(Pred(o)) = Hop(o) - 1
    BY <1>1, <1>5, <2>1, NAssumption DEF Hop, AGCopyOp, Steps
  <2>4. ChunkOf(Pred(o)) = ChunkOf(o)
    BY <1>1, <1>5, <2>1, Relay DEF ChunkOf, AGCopyOp
  <2> QED
    BY <2>2, <2>3, <2>4
<1> QED
  BY <1>1, <1>2, <1>3, <1>4, <1>5 DEF Kinds

(* The host reaches an operation after the hop before it.                  *)
LEMMA PredBefore ==
  ASSUME NEW o \in Ops, Hop(o) > 0
  PROVE  HostBefore(Pred(o), o)
<1>1. o.kind \in Kinds /\ o.s \in Steps /\ o.k \in Nat
  BY OpTypes
<1> QED
  BY <1>1, NAssumption
  DEF HostBefore, EarlierLoop, Pred, Hop, Kinds, Steps, ReduceOp, RSCopyOp, AGCopyOp

(* An operation reads what the hop before it on the journey wrote.         *)
LEMMA PredFeeds ==
  ASSUME NEW o \in Ops, Hop(o) > 0
  PROVE  Dst(Pred(o)) = Src(o)
<1>1. o.kind \in Kinds /\ o.s \in Steps /\ o.r \in Ranks
  BY OpTypes
<1>2. NextRank(PrevRank(o.r)) = o.r
  BY <1>1, Neighbours
<1>3. CASE o.kind = "rsCopy"
  <2>1. o.s > 0 /\ Pred(o) = ReduceOp(o.s - 1, LastPiece, o.r)
    BY <1>1, <1>3 DEF Hop, Pred, Steps
  <2> QED
    BY <1>1, <1>3, <2>1, Relay DEF Src, Dst, ReduceOp
<1>4. CASE o.kind = "reduce"
  BY <1>1, <1>2, <1>4 DEF Pred, Src, Dst, RSCopyOp
<1>5. CASE o.kind = "agCopy" /\ o.s = 0
  BY <1>1, <1>5, Relay DEF Pred, Src, Dst, ReduceOp
<1>6. CASE o.kind = "agCopy" /\ o.s # 0
  <2>1. o.s > 0 /\ Pred(o) = AGCopyOp(o.s - 1, PrevRank(o.r))
    BY <1>1, <1>6 DEF Pred, Steps
  <2> QED
    BY <1>1, <1>2, <1>6, <2>1, Relay DEF Src, Dst, AGCopyOp
<1> QED
  BY <1>1, <1>3, <1>4, <1>5, <1>6 DEF Kinds

(* An operation stays inside the buffers.                                  *)
LEMMA AccessLocs ==
  ASSUME NEW o \in Ops
  PROVE  Src(o) \in Locs /\ Dst(o) \in Locs
<1>1. /\ o.kind \in Kinds /\ o.s \in Steps /\ o.r \in Ranks /\ NextRank(o.r) \in Ranks
      /\ StageSlot(o.s) \in Steps
  BY OpTypes, Neighbours, NAssumption DEF StageSlot, Steps
<1>2. RSSend(o.r, o.s) \in Chunks /\ RSRecv(o.r, o.s) \in Chunks /\ AGSend(o.r, o.s) \in Chunks
  BY <1>1, Indices
<1> QED
  BY <1>1, <1>2 DEF Kinds, Src, Dst, Locs, Bufs, Stages, Buf, Stage

(* Where every step has a staging buffer of its own, the operations a      *)
(* location belongs to all work on the same chunk: the slot of that chunk  *)
(* in the tensor, or the buffer it is staged in.                           *)
LocChunk(l) == IF l.space = "buf" THEN l.slot ELSE RSRecv(l.rank, l.slot)

(* Every location an operation of v2 or v3 accesses is its chunk's.        *)
LEMMA AccessChunk ==
  ASSUME Algo # "v1", NEW o \in Ops
  PROVE  LocChunk(Src(o)) = ChunkOf(o) /\ LocChunk(Dst(o)) = ChunkOf(o)
<1>1. o.kind \in Kinds /\ o.s \in Steps /\ o.r \in Ranks
  BY OpTypes
<1>2. RSRecv(NextRank(o.r), o.s) = RSSend(o.r, o.s)
  <2>1. NextRank(o.r) \in Ranks /\ PrevRank(NextRank(o.r)) = o.r
    BY <1>1, Neighbours
  <2>2. QED
    BY <1>1, <2>1, Relay
<1> QED
  BY <1>1, <1>2 DEF Kinds, Src, Dst, StageSlot, LocChunk, ChunkOf, Buf, Stage

(* Only operations on the same chunk can conflict.                         *)
LEMMA ConflictSameChunk ==
  ASSUME Algo # "v1", NEW o \in Ops, NEW p \in Ops, Conflict(p, o)
  PROVE  ChunkOf(p) = ChunkOf(o)
  BY AccessChunk DEF Conflict

(* The host enqueues the operations on one element in the order of its     *)
(* journey.                                                                *)
LEMMA HostBeforeHop ==
  ASSUME NEW o \in Ops, NEW p \in Ops, ChunkOf(p) = ChunkOf(o), HostBefore(p, o),
         NEW e \in Elems, e \in Piece(p), e \in Piece(o)
  PROVE  Hop(p) < Hop(o)
<1>1. /\ o.kind \in Kinds /\ o.s \in Steps /\ o.r \in Ranks /\ o.k \in Nat
      /\ p.kind \in Kinds /\ p.s \in Steps /\ p.r \in Ranks /\ p.k \in Nat
  BY OpTypes
<1>2. o.kind # "agCopy" /\ p.kind # "agCopy" => o.k = p.k
  BY Covers
<1>3. CASE EarlierLoop(p, o)
  BY <1>1, <1>2, <1>3, NAssumption DEF EarlierLoop, Hop, Kinds, Steps
<1>4. CASE SameLoop(p, o) /\ p.r < o.r
  <2>1. Hop(p) = Hop(o)
    BY <1>4 DEF SameLoop, Hop
  <2>2. p.r = o.r
    BY <2>1, HopUnique
  <2> QED
    BY <1>1, <1>4, <2>2 DEF Ranks
<1> QED
  BY <1>3, <1>4 DEF HostBefore

(* The order of the host's loops is strict.                                *)
LEMMA HostOrderStrict ==
  ASSUME NEW o \in Ops, NEW p \in Ops, HostBefore(p, o)
  PROVE  ~HostBefore(o, p)
<1>1. /\ o.kind \in Kinds /\ o.s \in Steps /\ o.r \in Ranks /\ o.k \in Nat
      /\ p.kind \in Kinds /\ p.s \in Steps /\ p.r \in Ranks /\ p.k \in Nat
  BY OpTypes
<1> QED
  BY <1>1, NAssumption DEF HostBefore, EarlierLoop, SameLoop, Kinds, Steps, Ranks

(***************************************************************************)
(* The events of v2 and v3                                                 *)
(***************************************************************************)

(* Which operations wait for an event, and for which.                      *)
Waiting(o) == Hop(o) > 0 /\ (o.kind = "rsCopy" => o.k = 0)
WaitedEvent(o) == IF o.kind = "rsCopy" THEN calcDone(o.r, o.s - 1)
                  ELSE IF o.kind = "reduce"
                  THEN IF Algo = "v2" THEN copyDone(PrevRank(o.r), o.s)
                                      ELSE subCopy(PrevRank(o.r))
                  ELSE IF o.s = 0 THEN calcDone(o.r, N - 2)
                  ELSE copyDone(PrevRank(o.r), N + (o.s - 1))

(* Which operations record an event: one for each slot of copyDone and     *)
(* calcDone, every ReduceScatter copy of its rank for subCopy.             *)
LEMMA Recorders ==
  ASSUME Algo # "v1", NEW p \in Ops, NEW r \in Ranks, NEW s \in Steps
  PROVE  /\ calcDone(r, s) \in RecordEvents(p) <=> p = ReduceOp(s, LastPiece, r)
         /\ copyDone(r, N + s) \in RecordEvents(p) <=> p = AGCopyOp(s, r)
         /\ Algo = "v2" => (copyDone(r, s) \in RecordEvents(p) <=> p = RSCopyOp(s, 0, r))
         /\ Algo = "v3" => (subCopy(r) \in RecordEvents(p) <=> p.kind = "rsCopy" /\ p.r = r)
<1>1. /\ p.kind \in {"rsCopy", "reduce", "agCopy"} /\ p.s \in 0 .. N - 2 /\ s \in 0 .. N - 2
      /\ N \in Nat /\ Algo \in {"v2", "v3"}
  BY OpTypes, NAssumption, SubchunksFit DEF Kinds, Steps
<1>2. Algo = "v2" => p.k = 0 /\ LastPiece = 0
  BY OpTypes DEF Pieces, LastPiece
<1>3. RecordEvents(p) =
        IF p.kind = "rsCopy" THEN {IF Algo = "v2" THEN copyDone(p.r, p.s) ELSE subCopy(p.r)}
        ELSE IF p.kind = "reduce" THEN IF p.k = LastPiece THEN {calcDone(p.r, p.s)} ELSE {}
        ELSE {copyDone(p.r, N + p.s)}
  BY <1>1, <1>2 DEF RecordEvents, V2Records, V3Records, LastPiece
<1>4. calcDone(r, s) \in RecordEvents(p) <=>
        p.kind = "reduce" /\ p.k = LastPiece /\ p.r = r /\ p.s = s
  BY <1>1, <1>3 DEF calcDone, copyDone, subCopy
<1>5. copyDone(r, N + s) \in RecordEvents(p) <=> p.kind = "agCopy" /\ p.r = r /\ p.s = s
  <2>1. N + s # p.s /\ (N + s = N + p.s <=> s = p.s)
    BY <1>1
  <2>2. QED
    BY <1>1, <1>3, <2>1 DEF calcDone, copyDone, subCopy
<1>6. Algo = "v2" =>
        (copyDone(r, s) \in RecordEvents(p) <=> p.kind = "rsCopy" /\ p.r = r /\ p.s = s)
  <2>1. s # N + p.s
    BY <1>1
  <2>2. QED
    BY <1>1, <1>3, <2>1 DEF calcDone, copyDone, subCopy
<1>7. Algo = "v3" => (subCopy(r) \in RecordEvents(p) <=> p.kind = "rsCopy" /\ p.r = r)
  BY <1>1, <1>3 DEF calcDone, copyDone, subCopy
<1>8. /\ p.kind = "reduce" /\ p.k = LastPiece /\ p.r = r /\ p.s = s
         <=> p = ReduceOp(s, LastPiece, r)
      /\ p.kind = "agCopy" /\ p.r = r /\ p.s = s <=> p = AGCopyOp(s, r)
      /\ p.kind = "rsCopy" /\ p.k = 0 /\ p.r = r /\ p.s = s <=> p = RSCopyOp(s, 0, r)
  BY OpTypes DEF RSCopyOp, ReduceOp, AGCopyOp
<1> QED
  BY <1>2, <1>4, <1>5, <1>6, <1>7, <1>8

(* An operation waits for one event or none.                               *)
LEMMA WaitsForOne ==
  ASSUME Algo # "v1", NEW o \in Ops
  PROVE  WaitEvents(o) = IF Waiting(o) THEN {WaitedEvent(o)} ELSE {}
<1>1. /\ o.kind \in Kinds /\ o.s \in Steps /\ Algo \in {"v2", "v3"}
      /\ Algo = "v2" => o.k = 0
  BY OpTypes, SubchunksFit DEF Pieces
<1>2. CASE o.kind = "rsCopy"
  BY <1>1, <1>2 DEF WaitEvents, V2Waits, V3Waits, Hop, Waiting, WaitedEvent, Steps
<1>3. CASE o.kind = "reduce"
  <2>1. Waiting(o)
    BY <1>1, <1>3 DEF Waiting, Hop, Steps
  <2>2. QED
    BY <1>1, <1>3, <2>1 DEF WaitEvents, V2Waits, V3Waits, WaitedEvent
<1>4. CASE o.kind = "agCopy"
  <2>1. Waiting(o) /\ N + (o.s - 1) = N + o.s - 1
    BY <1>1, <1>4, NAssumption DEF Waiting, Hop, Steps
  <2>2. WaitEvents(o) = AGWaits(o)
    BY <1>1, <1>4 DEF WaitEvents, V2Waits, V3Waits
  <2>3. QED
    BY <1>4, <2>1, <2>2 DEF AGWaits, WaitedEvent
<1> QED
  BY <1>1, <1>2, <1>3, <1>4 DEF Kinds

(* The event is recorded behind the hop before; when another operation     *)
(* records it too, the host reaches that one before the hop or after the   *)
(* operation that waits.                                                   *)
LEMMA RecordedBehindPred ==
  ASSUME Algo # "v1", NEW o \in Ops, Waiting(o)
  PROVE  /\ WaitedEvent(o) \in RecordEvents(Pred(o))
         /\ \A p \in Ops : WaitedEvent(o) \in RecordEvents(p) =>
              p = Pred(o) \/ HostBefore(p, Pred(o)) \/ HostBefore(o, p)
<1>1. /\ o.kind \in {"rsCopy", "reduce", "agCopy"} /\ o.s \in Steps /\ o.r \in Ranks
      /\ o.k \in Pieces /\ PrevRank(o.r) \in Ranks /\ N - 2 \in Steps
      /\ Hop(o) > 0 /\ Algo \in {"v2", "v3"}
  BY OpTypes, Neighbours, NAssumption, SubchunksFit DEF Waiting, Kinds, Steps
<1>2. Pred(o) \in Ops
  BY <1>1, PredHop
<1>3. o.s # 0 => o.s - 1 \in Steps
  BY <1>1, NAssumption DEF Steps
<1>4. CASE o.kind = "rsCopy"
  <2>1. Pred(o) = ReduceOp(o.s - 1, LastPiece, o.r) /\ o.s - 1 \in Steps
    BY <1>1, <1>3, <1>4 DEF Pred, Hop
  <2>2. QED
    BY <1>1, <1>2, <1>4, <2>1, Recorders DEF WaitedEvent
<1>5. CASE o.kind = "agCopy" /\ o.s = 0
  <2>1. Pred(o) = ReduceOp(N - 2, LastPiece, o.r)
    BY <1>5 DEF Pred
  <2>2. QED
    BY <1>1, <1>2, <1>5, <2>1, Recorders DEF WaitedEvent
<1>6. CASE o.kind = "agCopy" /\ o.s # 0
  <2>1. Pred(o) = AGCopyOp(o.s - 1, PrevRank(o.r)) /\ o.s - 1 \in Steps
    BY <1>3, <1>6 DEF Pred
  <2>2. WaitedEvent(o) = copyDone(PrevRank(o.r), N + (o.s - 1))
    BY <1>6 DEF WaitedEvent
  <2>3. QED
    BY <1>1, <1>2, <2>1, <2>2, Recorders
<1>7. CASE o.kind = "reduce" /\ Algo = "v2"
  <2>1. Pred(o) = RSCopyOp(o.s, 0, PrevRank(o.r))
    BY <1>1, <1>7 DEF Pred, Pieces
  <2>2. QED
    BY <1>1, <1>2, <1>7, <2>1, Recorders DEF WaitedEvent
<1>8. CASE o.kind = "reduce" /\ Algo = "v3"
  <2>1. /\ Pred(o) = RSCopyOp(o.s, o.k, PrevRank(o.r))
        /\ WaitedEvent(o) = subCopy(PrevRank(o.r))
    BY <1>8 DEF Pred, WaitedEvent
  <2>2. WaitedEvent(o) \in RecordEvents(Pred(o))
    BY <1>1, <1>2, <1>8, <2>1, Recorders DEF RSCopyOp
  <2>3. ASSUME NEW p \in Ops, WaitedEvent(o) \in RecordEvents(p)
        PROVE  p = Pred(o) \/ HostBefore(p, Pred(o)) \/ HostBefore(o, p)
    <3>1. p.kind = "rsCopy" /\ p.r = PrevRank(o.r) /\ p.s \in Steps /\ p.k \in Pieces
          /\ p = RSCopyOp(p.s, p.k, p.r)
      BY <1>1, <1>8, <2>1, <2>3, Recorders, OpTypes
    <3>2. p.s \in Int /\ o.s \in Int /\ p.k \in Int /\ o.k \in Int
      BY <1>1, <3>1, OpTypes DEF Steps
    <3>3. CASE p.s < o.s \/ (p.s = o.s /\ p.k < o.k)
      BY <2>1, <3>1, <3>3 DEF HostBefore, EarlierLoop, RSCopyOp
    <3>4. CASE o.s < p.s \/ (p.s = o.s /\ o.k < p.k)
      BY <1>8, <3>1, <3>4 DEF HostBefore, EarlierLoop
    <3>5. CASE p.s = o.s /\ p.k = o.k
      BY <2>1, <3>1, <3>5
    <3>6. QED
      BY <3>2, <3>3, <3>4, <3>5
  <2>4. QED
    BY <2>2, <2>3
<1> QED
  BY <1>1, <1>4, <1>5, <1>6, <1>7, <1>8

(***************************************************************************)
(* The control invariant: what is enqueued is an initial part of the       *)
(* host's order, what runs has its stream behind it, every operation that  *)
(* waits does so for the hop before it and for nothing else, and whatever  *)
(* has begun has the earlier hops of its elements behind it.               *)
(***************************************************************************)
(* p is an earlier hop of o's chunk, and when o reduces what p brought,    *)
(* not of a later subchunk.                                                *)
EarlierHop(p, o) ==
  /\ ChunkOf(p) = ChunkOf(o)
  /\ Hop(p) < Hop(o)
  /\ o.kind = "reduce" /\ Hop(p) = Hop(o) - 1 => p.k <= o.k

StreamsInv ==
  /\ issued \subseteq Ops
  /\ running \subseteq issued
  /\ done \subseteq issued
  /\ running \cap done = {}
JourneyInv == \A o \in running \cup done, p \in Ops : EarlierHop(p, o) => p \in done
CallInv == call \in {"running", "returned"} /\ (call = "returned" => done = Ops)

HostOrderInv == \A o \in issued, p \in Ops : HostBefore(p, o) => p \in issued
InOrderInv == \A o \in running \cup done, p \in Ops : AheadInStream(p, o) => p \in done
WaitsInv ==
  /\ waits \subseteq issued \X issued
  /\ \A o \in issued : Waiting(o) => <<o, Pred(o)>> \in waits
  /\ \A x \in waits : Waiting(x[1]) /\ x[2] = Pred(x[1])

ControlInv ==
  StreamsInv /\ JourneyInv /\ CallInv /\ HostOrderInv /\ InOrderInv /\ WaitsInv

(* The control invariant holds before anything is enqueued.                *)
LEMMA ControlInit == Init => ControlInv
  BY DEF Init, CudaQuiet, ControlInv, StreamsInv, HostOrderInv, InOrderInv, WaitsInv,
         JourneyInv, CallInv

(* What an operation waits for when the host enqueues it.                  *)
LEMMA AwaitedIsPred ==
  ASSUME Algo # "v1", ControlInv, NEW o \in Ops, Issue(o)
  PROVE  Awaited(o) = IF Waiting(o) THEN {Pred(o)} ELSE {}
<1>1. CASE Waiting(o)
  <2> DEFINE e == WaitedEvent(o)
  <2>1. Pred(o) \in Ops /\ HostBefore(Pred(o), o)
    BY <1>1, PredHop, PredBefore DEF Waiting
  <2>2. Pred(o) \in issued /\ o \notin issued
    BY <2>1 DEF Issue
  <2>3. WaitEvents(o) = {e} /\ e \in RecordEvents(Pred(o))
    BY <1>1, WaitsForOne, RecordedBehindPred
  <2>4. ASSUME NEW p \in issued, e \in RecordEvents(p)
        PROVE  p \in Ops /\ (p = Pred(o) \/ HostBefore(p, Pred(o)))
    <3>1. p \in Ops /\ ~HostBefore(o, p)
      BY <2>2, <2>4 DEF ControlInv, StreamsInv, HostOrderInv
    <3>2. QED
      BY <1>1, <2>4, <3>1, RecordedBehindPred
  <2>5. LatestRecord(e, Pred(o))
    BY <2>1, <2>3, <2>4, HostOrderStrict DEF LatestRecord
  <2>6. \A p \in issued : LatestRecord(e, p) => p = Pred(o)
    BY <2>2, <2>3, <2>4 DEF LatestRecord
  <2> HIDE DEF e
  <2> QED
    BY <1>1, <2>2, <2>3, <2>5, <2>6 DEF Awaited
<1>2. CASE ~Waiting(o)
  BY <1>2, WaitsForOne DEF Awaited
<1> QED
  BY <1>1, <1>2

(* The host enqueues an operation.                                         *)
LEMMA ControlIssue ==
  ASSUME Algo # "v1", ControlInv, NEW o \in Ops, Issue(o)
  PROVE  ControlInv'
<1>1. /\ issued' = issued \cup {o} /\ o \notin issued
      /\ waits' = waits \cup ({o} \X Awaited(o))
      /\ running' = running /\ done' = done /\ call' = call /\ call = "running"
  BY DEF Issue, Enqueue
<1>2. StreamsInv'
  BY <1>1 DEF ControlInv, StreamsInv
<1>3. HostOrderInv'
  BY <1>1 DEF ControlInv, HostOrderInv, Issue
<1>4. WaitsInv'
  <2>1. CASE Waiting(o)
    <3>1. waits' = waits \cup {<<o, Pred(o)>>}
      BY <1>1, <2>1, AwaitedIsPred
    <3>2. Pred(o) \in issued
      BY <2>1, PredHop, PredBefore DEF Issue, Waiting
    <3> QED
      BY <1>1, <2>1, <3>1, <3>2 DEF ControlInv, WaitsInv
  <2>2. CASE ~Waiting(o)
    <3>1. waits' = waits
      BY <1>1, <2>2, AwaitedIsPred
    <3> QED
      BY <1>1, <2>2, <3>1 DEF ControlInv, WaitsInv
  <2> QED
    BY <2>1, <2>2
<1>5. JourneyInv' /\ InOrderInv'
  BY <1>1 DEF ControlInv, JourneyInv, InOrderInv
<1>6. CallInv'
  BY <1>1 DEF ControlInv, CallInv
<1> QED
  BY <1>2, <1>3, <1>4, <1>5, <1>6 DEF ControlInv

(* When a copy's predecessor, the reduction of the last subchunk, has      *)
(* ended, so have all earlier hops: the compute stream is in order.        *)
LEMMA AfterLastPiece ==
  ASSUME Algo # "v1", ControlInv, NEW s \in Steps, NEW r \in Ranks,
         ReduceOp(s, LastPiece, r) \in done, NEW p \in Ops,
         ChunkOf(p) = RSRecv(r, s), Hop(p) <= 2 * s + 1
  PROVE  p \in done
<1> DEFINE x == ReduceOp(s, LastPiece, r)
<1>1. /\ x \in Ops /\ ChunkOf(x) = RSRecv(r, s) /\ Hop(x) = 2 * s + 1 /\ x.k = LastPiece
      /\ x.kind = "reduce" /\ x.s = s /\ x.r = r
  BY OpTypes DEF ReduceOp, ChunkOf, Hop
<1>2. p.k \in Nat /\ p.k <= LastPiece /\ LastPiece \in Nat /\ Hop(p) \in Nat /\ s \in Int
  BY OpTypes, HopType DEF Steps
<1> HIDE DEF x
<1>3. CASE Hop(p) = 2 * s + 1
  <2>1. p.kind = "reduce" /\ p.s = s /\ p.r = r /\ (p.k = LastPiece => p = x)
    BY <1>1, <1>3, HopUnique
  <2>2. CASE p.k < LastPiece
    <3>1. AheadInStream(p, x)
      BY <1>1, <2>1, <2>2 DEF AheadInStream, HostBefore, EarlierLoop, StreamsOf
    <3>2. QED
      BY <1>1, <3>1 DEF ControlInv, InOrderInv, x
  <2>3. QED
    BY <1>2, <2>1, <2>2 DEF x
<1>4. CASE Hop(p) < 2 * s + 1
  <2>1. EarlierHop(p, x)
    BY <1>1, <1>2, <1>4 DEF EarlierHop
  <2>2. QED
    BY <2>1 DEF ControlInv, JourneyInv, x
<1> QED
  BY <1>2, <1>3, <1>4

(* A device begins an operation: the earlier hops have ended.              *)
LEMMA EarlierHopsEnded ==
  ASSUME Algo # "v1", ControlInv, NEW o \in Ops, Begin(o), NEW p \in Ops, EarlierHop(p, o)
  PROVE  p \in done
<1>1. /\ o \in issued
      /\ \A x \in waits : x[1] = o => x[2] \in done
      /\ \A x \in issued \ done : ~AheadInStream(x, o)
  BY DEF Begin, DeviceBegin
<1>2. /\ o.kind \in Kinds /\ o.s \in Steps /\ o.r \in Ranks /\ o.k \in Nat /\ p.k \in Nat
      /\ Hop(p) \in Nat /\ Hop(o) \in Nat /\ Hop(p) < Hop(o) /\ ChunkOf(p) = ChunkOf(o)
  BY OpTypes, HopType DEF EarlierHop
<1>3. Waiting(o) => Pred(o) \in done
  BY <1>1 DEF ControlInv, WaitsInv
<1>4. Hop(o) > 0
  BY <1>2
<1>5. CASE o.kind = "rsCopy" /\ o.k # 0
  <2> DEFINE x == RSCopyOp(o.s, 0, o.r)
  <2>1. /\ x \in Ops /\ x.kind = "rsCopy" /\ x.s = o.s /\ x.k = 0 /\ x.r = o.r
        /\ ChunkOf(x) = ChunkOf(o) /\ Hop(x) = Hop(o)
    BY <1>2, <1>5, OpTypes DEF RSCopyOp, ChunkOf, Hop
  <2> HIDE DEF x
  <2>2. AheadInStream(x, o) /\ HostBefore(x, o)
    BY <1>2, <1>5, <2>1 DEF AheadInStream, HostBefore, EarlierLoop, StreamsOf
  <2>3. x \in done
    BY <1>1, <2>1, <2>2 DEF ControlInv, HostOrderInv
  <2>4. EarlierHop(p, x)
    BY <1>2, <2>1 DEF EarlierHop
  <2>5. QED
    BY <2>3, <2>4 DEF ControlInv, JourneyInv
<1>6. CASE o.kind = "rsCopy" /\ o.k = 0
  <2>1. /\ Pred(o) = ReduceOp(o.s - 1, LastPiece, o.r) /\ o.s - 1 \in Steps
        /\ RSRecv(o.r, o.s - 1) = ChunkOf(o) /\ Hop(o) - 1 = 2 * (o.s - 1) + 1
    <3>1. o.s > 0 /\ Hop(o) = 2 * o.s
      BY <1>2, <1>4, <1>6 DEF Hop, Steps
    <3>2. QED
      BY <1>2, <1>6, <3>1, Relay DEF Pred, ChunkOf, Steps
  <2>2. Pred(o) \in done /\ Hop(p) <= 2 * (o.s - 1) + 1
    BY <1>2, <1>3, <1>4, <1>6, <2>1 DEF Waiting
  <2>3. QED
    BY <1>2, <2>1, <2>2, AfterLastPiece
<1>7. CASE o.kind = "reduce"
  <2> DEFINE x == Pred(o)
  <2>1. /\ x \in Ops /\ x \in done /\ ChunkOf(x) = ChunkOf(o) /\ Hop(x) = Hop(o) - 1
        /\ x.kind = "rsCopy" /\ x.s = o.s /\ x.k = o.k
    BY <1>3, <1>4, <1>7, PredHop DEF Waiting, Pred, RSCopyOp
  <2> HIDE DEF x
  <2>2. CASE Hop(p) = Hop(o) - 1
    <3>1. p.k <= o.k /\ p.kind = "rsCopy" /\ p.s = o.s /\ p.r = x.r /\ (p.k = x.k => p = x)
      BY <1>2, <1>7, <2>1, <2>2, HopUnique DEF EarlierHop
    <3>2. CASE p.k < o.k
      <4>1. AheadInStream(p, x)
        BY <2>1, <3>1, <3>2 DEF AheadInStream, HostBefore, EarlierLoop, StreamsOf
      <4>2. QED
        BY <2>1, <4>1 DEF ControlInv, InOrderInv
    <3>3. QED
      BY <1>2, <2>1, <3>1, <3>2
  <2>3. CASE Hop(p) # Hop(o) - 1
    <3>1. EarlierHop(p, x)
      BY <1>2, <2>1, <2>3 DEF EarlierHop
    <3>2. QED
      BY <2>1, <3>1 DEF ControlInv, JourneyInv
  <2>4. QED
    BY <2>2, <2>3
<1>8. CASE o.kind = "agCopy" /\ o.s = 0
  <2>1. /\ Pred(o) = ReduceOp(N - 2, LastPiece, o.r) /\ N - 2 \in Steps
        /\ RSRecv(o.r, N - 2) = ChunkOf(o) /\ Hop(o) - 1 = 2 * (N - 2) + 1
    BY <1>2, <1>8, Relay, NAssumption DEF Pred, ChunkOf, Hop
  <2>2. Pred(o) \in done /\ Hop(p) <= 2 * (N - 2) + 1
    BY <1>2, <1>3, <1>4, <1>8, <2>1 DEF Waiting
  <2>3. QED
    BY <1>2, <2>1, <2>2, AfterLastPiece
<1>9. CASE o.kind = "agCopy" /\ o.s # 0
  <2> DEFINE x == Pred(o)
  <2>1. /\ x \in Ops /\ x \in done /\ ChunkOf(x) = ChunkOf(o) /\ Hop(x) = Hop(o) - 1
        /\ x.kind = "agCopy"
    BY <1>3, <1>4, <1>9, PredHop DEF Waiting, Pred, AGCopyOp
  <2> HIDE DEF x
  <2>2. CASE Hop(p) = Hop(o) - 1
    <3>1. p.kind = "agCopy" /\ (p.k = x.k => p = x)
      BY <1>2, <2>1, <2>2, HopUnique
    <3>2. p.k = x.k
      BY <2>1, <3>1, OpTypes
    <3>3. QED
      BY <2>1, <3>1, <3>2
  <2>3. CASE Hop(p) # Hop(o) - 1
    <3>1. EarlierHop(p, x)
      BY <1>2, <2>1, <2>3 DEF EarlierHop
    <3>2. QED
      BY <2>1, <3>1 DEF ControlInv, JourneyInv
  <2>4. QED
    BY <2>2, <2>3
<1> QED
  BY <1>2, <1>5, <1>6, <1>7, <1>8, <1>9 DEF Kinds

(* A device begins an operation.                                           *)
LEMMA ControlBegin ==
  ASSUME Algo # "v1", ControlInv, NEW o \in Ops, Begin(o)
  PROVE  ControlInv'
<1>1. /\ o \in issued /\ o \notin running /\ o \notin done
      /\ \A p \in issued \ done : ~AheadInStream(p, o)
      /\ running' = running \cup {o}
      /\ issued' = issued /\ done' = done /\ waits' = waits /\ call' = call
  BY DEF Begin, DeviceBegin
<1>2. StreamsInv'
  BY <1>1 DEF ControlInv, StreamsInv
<1>3. HostOrderInv' /\ WaitsInv' /\ CallInv'
  BY <1>1 DEF ControlInv, HostOrderInv, WaitsInv, CallInv
<1>4. JourneyInv'
  BY <1>1, EarlierHopsEnded DEF ControlInv, JourneyInv
<1>5. InOrderInv'
  <2>1. \A p \in Ops : AheadInStream(p, o) => p \in done
    BY <1>1 DEF ControlInv, HostOrderInv, AheadInStream
  <2>2. QED
    BY <1>1, <2>1 DEF ControlInv, InOrderInv
<1> QED
  BY <1>2, <1>3, <1>4, <1>5 DEF ControlInv

(* A device ends an operation.                                             *)
LEMMA ControlEnd ==
  ASSUME ControlInv, NEW o \in Ops, End(o)
  PROVE  ControlInv'
<1>1. /\ o \in running
      /\ running' = running \ {o} /\ done' = done \cup {o}
      /\ issued' = issued /\ waits' = waits /\ call' = call
  BY DEF End, DeviceEnd
<1>2. StreamsInv'
  BY <1>1 DEF ControlInv, StreamsInv
<1>3. HostOrderInv' /\ WaitsInv'
  BY <1>1 DEF ControlInv, HostOrderInv, WaitsInv
<1>4. JourneyInv' /\ InOrderInv'
  BY <1>1 DEF ControlInv, JourneyInv, InOrderInv
<1>5. CallInv'
  BY <1>1 DEF ControlInv, CallInv, StreamsInv
<1> QED
  BY <1>2, <1>3, <1>4, <1>5 DEF ControlInv

(* Every step keeps the control invariant.                                 *)
LEMMA ControlNext ==
  ASSUME Algo # "v1", ControlInv, [Next]_vars
  PROVE  ControlInv'
<1>1. ASSUME NEW o \in Ops, Issue(o)
      PROVE  ControlInv'
  BY <1>1, ControlIssue
<1>2. ASSUME NEW o \in Ops, Begin(o)
      PROVE  ControlInv'
  BY <1>2, ControlBegin
<1>3. ASSUME NEW o \in Ops, End(o)
      PROVE  ControlInv'
  BY <1>3, ControlEnd
<1>4. CASE Return
  <2>1. done = Ops
    BY <1>4 DEF Return, Drained, ControlInv, StreamsInv
  <2> QED
    BY <1>4, <2>1 DEF Return, cudaVars, ControlInv, StreamsInv, HostOrderInv, InOrderInv,
                      WaitsInv, JourneyInv, CallInv
<1>5. CASE CallAgain
  BY <1>5 DEF CallAgain, CudaReset, ControlInv, StreamsInv, HostOrderInv, InOrderInv,
              WaitsInv, JourneyInv, CallInv
<1>6. CASE UNCHANGED vars
  BY <1>6 DEF vars, cudaVars, ControlInv, StreamsInv, HostOrderInv, InOrderInv, WaitsInv,
              JourneyInv, CallInv
<1> QED
  BY <1>1, <1>2, <1>3, <1>4, <1>5, <1>6 DEF Next, Host, Device

(* The control invariant of v2 and v3 holds throughout, for every number   *)
(* of ranks and of subchunks.                                              *)
THEOREM ControlInvariant ==
  ASSUME Algo # "v1" PROVE Safety => []ControlInv
<1>1. Init => ControlInv
  BY ControlInit
<1>2. ControlInv /\ [Next]_vars => ControlInv'
  BY ControlNext
<1> QED
  BY <1>1, <1>2, PTL DEF Safety

(* Every wait of v2 is on a recorded event, behind an operation whose      *)
(* result the waiter reads.                                                *)
THEOREM V2WaitsAreDependencies ==
  ASSUME Algo = "v2" PROVE Safety => []WaitsAreDependencies
<1>1. ControlInv => WaitsAreDependencies
  <2> SUFFICES ASSUME ControlInv
               PROVE  WaitsAreDependencies
    OBVIOUS
  <2>1. ASSUME NEW o \in issued, NEW e \in WaitEvents(o)
        PROVE  \E x \in waits : x[1] = o /\ e \in RecordEvents(x[2])
    <3>1. o \in Ops
      BY DEF ControlInv, StreamsInv
    <3>2. Waiting(o) /\ e = WaitedEvent(o)
      BY <2>1, <3>1, WaitsForOne
    <3>3. e \in RecordEvents(Pred(o))
      BY <3>1, <3>2, RecordedBehindPred
    <3>4. <<o, Pred(o)>> \in waits
      BY <3>2 DEF ControlInv, WaitsInv
    <3> QED
      BY <3>3, <3>4
  <2>2. ASSUME NEW x \in waits
        PROVE  Conflict(x[2], x[1])
    <3>1. x[1] \in Ops /\ x[2] = Pred(x[1]) /\ Hop(x[1]) > 0
      BY DEF ControlInv, WaitsInv, StreamsInv, Waiting
    <3>2. x[2] \in Ops /\ Dst(x[2]) = Src(x[1])
      BY <3>1, PredHop, PredFeeds
    <3>3. 0 \in Elems
      BY SizeAssumption DEF Elems
    <3>4. 0 \in Piece(x[1]) /\ 0 \in Piece(x[2])
      <4>1. \A k \in Pieces : k = 0
        BY DEF Pieces
      <4>2. QED
        BY <3>1, <3>2, <3>3, <4>1, Covers, OpTypes
    <3> QED
      BY <3>2, <3>4 DEF Conflict
  <2> QED
    BY <2>1, <2>2 DEF WaitsAreDependencies
<1>2. Safety => []ControlInv
  BY ControlInvariant
<1> QED
  BY <1>1, <1>2, PTL

(***************************************************************************)
(* v1: every loop over the ranks begins when all of the loops before have  *)
(* been synchronised.                                                      *)
(***************************************************************************)
LoopsInv  == \A o \in issued, p \in Ops : EarlierLoop(p, o) => p \in done
SyncedInv == StreamsInv /\ CallInv /\ LoopsInv

(* The synchronisations.                                                   *)
LEMMA SyncedNext ==
  ASSUME Algo = "v1", SyncedInv, [Next]_vars
  PROVE  SyncedInv'
<1>1. ASSUME NEW o \in Ops, Issue(o)
      PROVE  SyncedInv'
  <2>1. /\ issued' = issued \cup {o} /\ running' = running /\ done' = done
        /\ call' = call /\ \A p \in Ops : EarlierLoop(p, o) => p \in done
    BY <1>1 DEF Issue, Enqueue, SyncedBefore
  <2>2. QED
    BY <2>1 DEF SyncedInv, StreamsInv, CallInv, LoopsInv
<1>2. ASSUME NEW o \in Ops, Begin(o)
      PROVE  SyncedInv'
  <2>1. /\ o \in issued /\ o \notin done /\ issued' = issued /\ done' = done
        /\ running' = running \cup {o} /\ call' = call
    BY <1>2 DEF Begin, DeviceBegin
  <2>2. QED
    BY <2>1 DEF SyncedInv, StreamsInv, CallInv, LoopsInv
<1>3. ASSUME NEW o \in Ops, End(o)
      PROVE  SyncedInv'
  <2>1. /\ o \in running /\ issued' = issued /\ running' = running \ {o}
        /\ done' = done \cup {o} /\ call' = call
    BY <1>3 DEF End, DeviceEnd
  <2>2. QED
    BY <2>1 DEF SyncedInv, StreamsInv, CallInv, LoopsInv
<1>4. CASE Return
  <2>1. /\ done = Ops /\ call' = "returned"
        /\ issued' = issued /\ running' = running /\ done' = done
    BY <1>4 DEF Return, Drained, cudaVars, SyncedInv, StreamsInv
  <2>2. QED
    BY <2>1 DEF SyncedInv, StreamsInv, CallInv, LoopsInv
<1>5. CASE CallAgain
  BY <1>5 DEF CallAgain, CudaReset, SyncedInv, StreamsInv, CallInv, LoopsInv
<1>6. CASE UNCHANGED vars
  BY <1>6 DEF vars, cudaVars, SyncedInv, StreamsInv, CallInv, LoopsInv
<1>7. QED
  BY <1>1, <1>2, <1>3, <1>4, <1>5, <1>6 DEF Next, Host, Device

(* The synchronisations of v1 are where they are thought to be, for every  *)
(* number of ranks.                                                        *)
THEOREM SyncedInvariant ==
  ASSUME Algo = "v1" PROVE Safety => []SyncedInv
<1>1. Init => SyncedInv
  BY DEF Init, CudaQuiet, SyncedInv, StreamsInv, CallInv, LoopsInv
<1>2. SyncedInv /\ [Next]_vars => SyncedInv'
  BY SyncedNext
<1>3. QED
  BY <1>1, <1>2, PTL DEF Safety

(* An earlier hop is of an earlier loop of the host.                       *)
LEMMA HopsByLoops ==
  ASSUME Algo # "v3", NEW o \in Ops, NEW p \in Ops, Hop(p) < Hop(o)
  PROVE  EarlierLoop(p, o)
<1>1. /\ o.kind \in Kinds /\ o.s \in Steps /\ o.k = 0
      /\ p.kind \in Kinds /\ p.s \in Steps /\ p.k = 0
  BY OpTypes DEF Pieces
<1>2. QED
  BY <1>1, NAssumption DEF EarlierLoop, Hop, Kinds, Steps

(* Operations of one loop work on different chunks or different ranks.     *)
LEMMA LoopsDoNotConflict ==
  ASSUME Algo = "v1", NEW p \in Ops, NEW o \in Ops, SameLoop(p, o), p.r < o.r
  PROVE  ~Conflict(p, o)
<1>1. /\ p.kind = o.kind /\ p.s = o.s /\ o.s \in Steps /\ p.r \in Ranks /\ o.r \in Ranks
      /\ o.kind \in {"rsCopy", "reduce", "agCopy"} /\ p.r # o.r
  BY NAssumption DEF SameLoop, Ops, Kinds, Ranks
<1>2. NextRank(p.r) # NextRank(o.r)
  <2>1. PrevRank(NextRank(p.r)) = p.r /\ PrevRank(NextRank(o.r)) = o.r
    BY <1>1, Neighbours
  <2>2. QED
    BY <1>1, <2>1
<1>3. CASE o.kind = "rsCopy"
  <2>1. Dst(p).rank # Dst(o).rank /\ Dst(p).space # Src(o).space /\ Src(p).space # Dst(o).space
    BY <1>1, <1>2, <1>3 DEF Dst, Src, Buf, Stage
  <2>2. QED
    BY <2>1 DEF Conflict
<1>4. CASE o.kind = "reduce"
  <2>1. Dst(p).rank # Dst(o).rank /\ Dst(p).space # Src(o).space /\ Src(p).space # Dst(o).space
    BY <1>1, <1>4 DEF Dst, Src, Buf, Stage
  <2>2. QED
    BY <2>1 DEF Conflict
<1>5. CASE o.kind = "agCopy"
  <2>1. /\ Dst(p) = Buf(NextRank(p.r), AGSend(p.r, p.s)) /\ Src(p) = Buf(p.r, AGSend(p.r, p.s))
        /\ Dst(o) = Buf(NextRank(o.r), AGSend(o.r, o.s)) /\ Src(o) = Buf(o.r, AGSend(o.r, o.s))
    BY <1>1, <1>5 DEF Dst, Src
  <2>2. AGSend(p.r, o.s) # AGSend(o.r, o.s)
    <3>1. \A r \in Ranks :
            AGSend(r, o.s) = IF r - o.s + 1 = N THEN 0
                             ELSE IF o.s <= r + 1 THEN r - o.s + 1 ELSE r - o.s + 1 + N
      BY <1>1, Indices
    <3>2. p.r \in 0 .. N - 1 /\ o.r \in 0 .. N - 1 /\ o.s \in 0 .. N - 2 /\ N \in Nat
      BY <1>1, NAssumption DEF Ranks, Steps
    <3>3. QED
      BY <1>1, <3>1, <3>2
  <2>3. Dst(p).rank # Dst(o).rank /\ Dst(p).slot # Src(o).slot /\ Src(p).slot # Dst(o).slot
    BY <1>1, <1>2, <2>1, <2>2 DEF Buf
  <2>4. QED
    BY <2>3 DEF Conflict
<1>6. QED
  BY <1>1, <1>3, <1>4, <1>5

(***************************************************************************)
(* What the three versions have in common: the earlier hops of whatever    *)
(* has begun have ended, and where the steps share a staging buffer, they  *)
(* do not overlap.                                                         *)
(***************************************************************************)
OrderInv == StreamsInv /\ JourneyInv /\ CallInv /\ (Algo = "v1" => LoopsInv)

(* All three versions keep the hops of a journey in order, for every       *)
(* number of ranks and of subchunks.                                       *)
THEOREM OrderInvariant == Safety => []OrderInv
<1>1. CASE Algo = "v1"
  <2>1. SyncedInv => OrderInv
    <3> SUFFICES ASSUME SyncedInv PROVE JourneyInv
      BY DEF SyncedInv, OrderInv
    <3>1. ASSUME NEW o \in running \cup done, NEW p \in Ops, EarlierHop(p, o)
          PROVE  p \in done
      <4>1. o \in Ops /\ o \in issued
        BY DEF SyncedInv, StreamsInv
      <4>2. EarlierLoop(p, o)
        BY <1>1, <3>1, <4>1, HopsByLoops DEF EarlierHop
      <4>3. QED
        BY <4>1, <4>2 DEF SyncedInv, LoopsInv
    <3>2. QED
      BY <3>1 DEF JourneyInv
  <2>2. Safety => []SyncedInv
    BY <1>1, SyncedInvariant
  <2>3. QED
    BY <2>1, <2>2, PTL
<1>2. CASE Algo # "v1"
  <2>1. ControlInv => OrderInv
    BY <1>2 DEF ControlInv, OrderInv
  <2>2. Safety => []ControlInv
    BY <1>2, ControlInvariant
  <2>3. QED
    BY <2>1, <2>2, PTL
<1>3. QED
  BY <1>1, <1>2

(* The earlier hops of an element that an operation works on have ended,   *)
(* the later ones have not.                                                *)
LEMMA JourneyOrder ==
  ASSUME OrderInv, NEW o \in running, NEW e \in Elems, e \in Piece(o),
         NEW p \in Ops, e \in Piece(p), ChunkOf(p) = ChunkOf(o)
  PROVE  /\ Hop(p) < Hop(o) => p \in done
         /\ Hop(o) < Hop(p) => p \notin done
<1>1. o \in Ops /\ o \notin done
  BY DEF OrderInv, StreamsInv
<1>2. /\ o.kind \in Kinds /\ o.s \in Steps /\ o.k \in Nat
      /\ p.kind \in Kinds /\ p.s \in Steps /\ p.k \in Nat
      /\ o.kind # "agCopy" /\ p.kind # "agCopy" => o.k = p.k
  BY <1>1, Covers, OpTypes
<1>3. /\ o.kind = "reduce" /\ Hop(p) < Hop(o) => p.kind # "agCopy"
      /\ p.kind = "reduce" /\ Hop(o) < Hop(p) => o.kind # "agCopy"
  BY <1>2, NAssumption DEF Hop, Kinds, Steps
<1>4. Hop(p) < Hop(o) => EarlierHop(p, o)
  BY <1>2, <1>3 DEF EarlierHop
<1>5. Hop(o) < Hop(p) => EarlierHop(o, p)
  BY <1>2, <1>3 DEF EarlierHop
<1>6. QED
  BY <1>1, <1>4, <1>5 DEF OrderInv, JourneyInv

(* All three versions execute conflicting operations in the order the host *)
(* enqueued them, for every number of ranks and of subchunks: in v2 and v3 *)
(* every staging buffer has one journey only, in v1 one synchronisation of *)
(* all devices after every loop over the ranks is enough, with one staging *)
(* buffer for all steps.                                                   *)
THEOREM NoDataRace == Safety => []ConflictsInHostOrder
<1>1. OrderInv => ConflictsInHostOrder
  <2> SUFFICES ASSUME OrderInv, NEW o \in running, NEW p \in Ops \ done,
                      HostBefore(p, o), Conflict(p, o)
               PROVE  FALSE
    BY DEF ConflictsInHostOrder
  <2>1. o \in issued /\ o \in Ops
    BY DEF OrderInv, StreamsInv
  <2>2. CASE Algo = "v1"
    <3>1. ~EarlierLoop(p, o)
      BY <2>1, <2>2 DEF OrderInv, LoopsInv
    <3>2. SameLoop(p, o) /\ p.r < o.r
      BY <3>1 DEF HostBefore
    <3>3. QED
      BY <2>1, <2>2, <3>2, LoopsDoNotConflict
  <2>3. CASE Algo # "v1"
    <3>1. ChunkOf(p) = ChunkOf(o)
      BY <2>1, <2>3, ConflictSameChunk
    <3>2. PICK e \in Piece(p) : e \in Piece(o)
      BY DEF Conflict
    <3>3. e \in Elems
      BY <3>2, PieceLength
    <3>4. Hop(p) < Hop(o)
      BY <2>1, <3>1, <3>2, <3>3, HostBeforeHop
    <3>5. QED
      BY <3>1, <3>2, <3>3, <3>4, JourneyOrder
  <2>4. QED
    BY <2>2, <2>3
<1>2. QED
  BY <1>1, OrderInvariant, PTL

(***************************************************************************)
(* The values.  How far rank q is from the rank chunk c starts at, and the *)
(* sum over the first ranks of the chunk's journey.                        *)
(***************************************************************************)
Dist(c, q)    == IF c <= q THEN q - c ELSE q - c + N
Partial(c, d) == [x \in Ranks |-> IF Dist(c, x) <= d THEN 1 ELSE 0]

(* How far a rank is from the start of a journey is bounded.               *)
LEMMA DistType ==
  ASSUME NEW c \in Chunks, NEW q \in Ranks
  PROVE  Dist(c, q) \in 0 .. N - 1
  BY NAssumption DEF Dist, Chunks, Ranks

(* Where the operations of a step find and leave their chunk.              *)
LEMMA DistOfIndex ==
  ASSUME NEW r \in Ranks, NEW s \in Steps
  PROVE  /\ Dist(RSSend(r, s), r) = s
         /\ Dist(RSRecv(r, s), r) = s + 1
         /\ Dist(AGSend(r, s), r) = IF s = 0 THEN N - 1 ELSE s - 1
         /\ Dist(AGSend(r, s), NextRank(r)) = s
<1>1. Dist(RSSend(r, s), r) = s
  <2>1. RSSend(r, s) = IF s <= r THEN r - s ELSE r - s + N
    BY Indices
  <2> QED
    BY <2>1, NAssumption DEF Dist, Ranks, Steps
<1>2. Dist(RSRecv(r, s), r) = s + 1
  <2>1. RSRecv(r, s) = IF s < r THEN r - s - 1 ELSE r - s - 1 + N
    BY Indices
  <2> QED
    BY <2>1, NAssumption DEF Dist, Ranks, Steps
<1>3. AGSend(r, s) = IF r - s + 1 = N THEN 0
                     ELSE IF s <= r + 1 THEN r - s + 1 ELSE r - s + 1 + N
  BY Indices
<1>4. Dist(AGSend(r, s), r) = IF s = 0 THEN N - 1 ELSE s - 1
  BY <1>3, NAssumption DEF Dist, Ranks, Steps
<1>5. Dist(AGSend(r, s), NextRank(r)) = s
  <2>1. NextRank(r) = IF r = N - 1 THEN 0 ELSE r + 1
    BY Neighbours
  <2> QED
    BY <1>3, <2>1, NAssumption DEF Dist, Ranks, Steps
<1> QED
  BY <1>1, <1>2, <1>4, <1>5

(* A rank is told by its distance.                                         *)
LEMMA DistUnique ==
  ASSUME NEW c \in Chunks, NEW q \in Ranks, NEW x \in Ranks, Dist(c, q) = Dist(c, x)
  PROVE  q = x
  BY NAssumption DEF Dist, Chunks, Ranks
(* At one distance from a rank there is one chunk.                         *)
LEMMA ChunkUnique ==
  ASSUME NEW c \in Chunks, NEW d \in Chunks, NEW q \in Ranks, Dist(c, q) = Dist(d, q)
  PROVE  c = d
  BY NAssumption DEF Dist, Chunks, Ranks

(* The sums a reduction starts from, goes through and ends with.           *)
LEMMA PartialSums ==
  ASSUME NEW c \in Chunks
  PROVE  /\ \A q \in Ranks : Dist(c, q) = 0 => Own(q) = Partial(c, 0)
         /\ AllOnce = Partial(c, N - 1)
         /\ \A q \in Ranks : Dist(c, q) > 0 =>
              Plus(Own(q), Partial(c, Dist(c, q) - 1)) = Partial(c, Dist(c, q))
<1>1. ASSUME NEW q \in Ranks, Dist(c, q) = 0
      PROVE  Own(q) = Partial(c, 0)
  <2>1. \A x \in Ranks : Dist(c, x) <= 0 <=> x = q
    BY <1>1, DistType, DistUnique
  <2> QED
    BY <2>1 DEF Own, Partial
<1>2. AllOnce = Partial(c, N - 1)
  <2>1. \A x \in Ranks : Dist(c, x) <= N - 1
    BY DistType, NAssumption
  <2> QED
    BY <2>1 DEF AllOnce, Partial
<1>3. ASSUME NEW q \in Ranks, Dist(c, q) > 0
      PROVE  Plus(Own(q), Partial(c, Dist(c, q) - 1)) = Partial(c, Dist(c, q))
  <2>1. ASSUME NEW x \in Ranks
        PROVE  (IF x = q THEN 1 ELSE 0) + (IF Dist(c, x) <= Dist(c, q) - 1 THEN 1 ELSE 0)
                 = IF Dist(c, x) <= Dist(c, q) THEN 1 ELSE 0
    <3>1. Dist(c, x) \in Int /\ Dist(c, q) \in Int /\ (Dist(c, x) = Dist(c, q) <=> x = q)
      BY <2>1, DistType, DistUnique
    <3> QED
      BY <3>1
  <2> QED
    BY <2>1 DEF Own, Partial, Plus
<1> QED
  BY <1>1, <1>2, <1>3

(***************************************************************************)
(* The data invariant, of every element of a chunk: slot c of rank q holds *)
(* the rank's own input, then the partial sum up to q once q has reduced   *)
(* into it, then the whole sum once the AllGather has written it; and what *)
(* the predecessor sent is in the staging buffer until it is reduced.      *)
(***************************************************************************)
Gathered(q, c)   == /\ Dist(c, q) <= N - 2
                    /\ AGCopyOp(Dist(c, q), PrevRank(q)) \in done
Reduced(q, c, e) == /\ Dist(c, q) >= 1
                    /\ ReduceOp(Dist(c, q) - 1, PieceOf(e), q) \in done
BufVal(q, c, e) == IF Gathered(q, c) THEN AllOnce
                   ELSE IF Reduced(q, c, e) THEN Partial(c, Dist(c, q)) ELSE Own(q)
Staged(s, q, e) == /\ RSCopyOp(s, PieceOf(e), PrevRank(q)) \in done
                   /\ ReduceOp(s, PieceOf(e), q) \notin done

MemType  == mem \in [Locs -> [Elems -> Values]]
BufInv   == \A q \in Ranks, c \in Chunks, e \in Elems : mem[Buf(q, c)][e] = BufVal(q, c, e)
StageInv == \A s \in Steps, q \in Ranks, e \in Elems :
              Staged(s, q, e) => mem[Stage(StageSlot(s), q)][e] = Partial(RSRecv(q, s), s)
DataInv == MemType /\ BufInv /\ StageInv

(* Where the buffers are, and that no two of them coincide.                *)
LEMMA LocTypes ==
  /\ \A q \in Ranks, c \in Chunks : Buf(q, c) \in Locs
  /\ \A q \in Ranks, s \in Steps : Stage(StageSlot(s), q) \in Locs
  /\ \A q, c, s, t : Buf(q, c) # Stage(s, t)
  /\ \A q, c, t, d : Buf(q, c) = Buf(t, d) <=> q = t /\ c = d
  /\ \A q, s, t, u : Stage(s, q) = Stage(u, t) <=> q = t /\ s = u
<1>1. \A s \in Steps : StageSlot(s) \in Steps
  BY NAssumption DEF StageSlot, Steps
<1>2. QED
  BY <1>1 DEF Locs, Bufs, Stages, Buf, Stage

(* The sums the model builds are values.                                   *)
LEMMA ValueTypes ==
  /\ \A q \in Ranks : Own(q) \in Values
  /\ AllOnce \in Values /\ Leftover \in Values
  /\ \A u, v \in Values : Plus(u, v) \in Values
  BY DEF Own, AllOnce, Leftover, Plus, Values

Fresh == mem = Filled /\ done = {}

(* The data invariant holds on freshly filled buffers.                     *)
LEMMA DataInit == Fresh => DataInv
<1> SUFFICES ASSUME mem = Filled, done = {}
             PROVE  DataInv
  BY DEF Fresh
<1>1. MemType
  <2>1. \A l \in Locs : l.rank \in Ranks
    BY DEF Locs, Bufs, Stages
  <2> QED
    BY <2>1, ValueTypes DEF MemType, Filled
<1>2. BufInv
  <2>1. ASSUME NEW q \in Ranks, NEW c \in Chunks, NEW e \in Elems
        PROVE  mem[Buf(q, c)][e] = Own(q)
    <3>1. Buf(q, c) \in Locs /\ Buf(q, c).space = "buf" /\ Buf(q, c).rank = q
      BY LocTypes DEF Buf
    <3> QED
      BY <3>1 DEF Filled
  <2> QED
    BY <2>1 DEF BufInv, BufVal, Gathered, Reduced
<1>3. StageInv
  BY DEF StageInv, Staged
<1> QED
  BY <1>1, <1>2, <1>3 DEF DataInv

(* The AllGather copy that brings rank q its chunk c, and the reduction    *)
(* that q makes of element e of it.                                        *)
LEMMA Writers ==
  ASSUME NEW q \in Ranks, NEW c \in Chunks, NEW e \in Elems
  PROVE  /\ Dist(c, q) <= N - 2 =>
              /\ AGCopyOp(Dist(c, q), PrevRank(q)) \in Ops
              /\ ChunkOf(AGCopyOp(Dist(c, q), PrevRank(q))) = c
              /\ e \in Piece(AGCopyOp(Dist(c, q), PrevRank(q)))
              /\ Hop(AGCopyOp(Dist(c, q), PrevRank(q))) = 2 * (N - 1) + Dist(c, q)
         /\ Dist(c, q) >= 1 =>
              /\ ReduceOp(Dist(c, q) - 1, PieceOf(e), q) \in Ops
              /\ ChunkOf(ReduceOp(Dist(c, q) - 1, PieceOf(e), q)) = c
              /\ e \in Piece(ReduceOp(Dist(c, q) - 1, PieceOf(e), q))
              /\ Hop(ReduceOp(Dist(c, q) - 1, PieceOf(e), q)) = 2 * (Dist(c, q) - 1) + 1
<1> DEFINE d == Dist(c, q)
<1>1. d \in Nat /\ d <= N - 1 /\ PrevRank(q) \in Ranks /\ NextRank(PrevRank(q)) = q
  BY DistType, Neighbours, NAssumption
<1>2. ASSUME d <= N - 2
      PROVE  /\ AGCopyOp(d, PrevRank(q)) \in Ops /\ ChunkOf(AGCopyOp(d, PrevRank(q))) = c
             /\ e \in Piece(AGCopyOp(d, PrevRank(q)))
             /\ Hop(AGCopyOp(d, PrevRank(q))) = 2 * (N - 1) + d
  <2>1. d \in Steps
    BY <1>1, <1>2, NAssumption DEF Steps
  <2>2. AGSend(PrevRank(q), d) \in Chunks /\ Dist(AGSend(PrevRank(q), d), q) = d
    BY <1>1, <2>1, Indices, DistOfIndex
  <2>3. AGSend(PrevRank(q), d) = c
    BY <2>2, ChunkUnique
  <2>4. AGCopyOp(d, PrevRank(q)) \in Ops
    BY <1>1, <2>1, OpTypes
  <2>5. e \in Piece(AGCopyOp(d, PrevRank(q)))
    BY <2>4, Covers DEF AGCopyOp
  <2>6. QED
    BY <2>3, <2>4, <2>5 DEF ChunkOf, Hop, AGCopyOp
<1>3. ASSUME d >= 1
      PROVE  /\ ReduceOp(d - 1, PieceOf(e), q) \in Ops
             /\ ChunkOf(ReduceOp(d - 1, PieceOf(e), q)) = c
             /\ e \in Piece(ReduceOp(d - 1, PieceOf(e), q))
             /\ Hop(ReduceOp(d - 1, PieceOf(e), q)) = 2 * (d - 1) + 1
  <2>1. d - 1 \in Steps /\ (d - 1) + 1 = d
    BY <1>1, <1>3, NAssumption DEF Steps
  <2>2. RSRecv(q, d - 1) \in Chunks /\ Dist(RSRecv(q, d - 1), q) = d
    BY <2>1, Indices, DistOfIndex
  <2>3. RSRecv(q, d - 1) = c
    BY <2>2, ChunkUnique
  <2>4. PieceOf(e) \in Pieces /\ ReduceOp(d - 1, PieceOf(e), q) \in Ops
    <3>1. PieceOf(e) \in Pieces
      BY <2>1, OpTypes, Covers
    <3>2. QED
      BY <2>1, <3>1, OpTypes
  <2>5. e \in Piece(ReduceOp(d - 1, PieceOf(e), q))
    BY <2>4, Covers DEF ReduceOp
  <2>6. QED
    BY <2>3, <2>4, <2>5 DEF ChunkOf, Hop, ReduceOp
<1>4. QED
  BY <1>2, <1>3

(* Where an operation that works on element e finds its chunk, and how far *)
(* that has come: a slot holds what the hop before has left there.         *)
LEMMA SlotWhileRunning ==
  ASSUME OrderInv, DataInv, NEW o \in running, NEW e \in Elems, e \in Piece(o),
         NEW q \in Ranks
  PROVE  /\ Hop(o) < 2 * (N - 1) + Dist(ChunkOf(o), q) => ~Gathered(q, ChunkOf(o))
         /\ 2 * (N - 1) + Dist(ChunkOf(o), q) < Hop(o) /\ Dist(ChunkOf(o), q) <= N - 2 =>
              Gathered(q, ChunkOf(o))
         /\ Hop(o) < 2 * (Dist(ChunkOf(o), q) - 1) + 1 => ~Reduced(q, ChunkOf(o), e)
         /\ 2 * (Dist(ChunkOf(o), q) - 1) + 1 < Hop(o) /\ Dist(ChunkOf(o), q) >= 1 =>
              Reduced(q, ChunkOf(o), e)
<1> DEFINE c == ChunkOf(o)
<1>1. o \in Ops /\ c \in Chunks
  BY HopType DEF OrderInv, StreamsInv
<1> HIDE DEF c
<1>2. \A p \in Ops : e \in Piece(p) /\ ChunkOf(p) = c =>
        (Hop(p) < Hop(o) => p \in done) /\ (Hop(o) < Hop(p) => p \notin done)
  BY JourneyOrder DEF c
<1>3. ASSUME Dist(c, q) <= N - 2
      PROVE  LET p == AGCopyOp(Dist(c, q), PrevRank(q))
             IN  /\ p \in Ops /\ e \in Piece(p) /\ ChunkOf(p) = c
                 /\ Hop(p) = 2 * (N - 1) + Dist(c, q)
  BY <1>1, <1>3, Writers
<1>4. ASSUME Dist(c, q) >= 1
      PROVE  LET p == ReduceOp(Dist(c, q) - 1, PieceOf(e), q)
             IN  /\ p \in Ops /\ e \in Piece(p) /\ ChunkOf(p) = c
                 /\ Hop(p) = 2 * (Dist(c, q) - 1) + 1
  BY <1>1, <1>4, Writers
<1>5. /\ Hop(o) < 2 * (N - 1) + Dist(c, q) => ~Gathered(q, c)
      /\ 2 * (N - 1) + Dist(c, q) < Hop(o) /\ Dist(c, q) <= N - 2 => Gathered(q, c)
  BY <1>2, <1>3 DEF Gathered
<1>6. /\ Hop(o) < 2 * (Dist(c, q) - 1) + 1 => ~Reduced(q, c, e)
      /\ 2 * (Dist(c, q) - 1) + 1 < Hop(o) /\ Dist(c, q) >= 1 => Reduced(q, c, e)
  BY <1>2, <1>4 DEF Reduced
<1>7. QED
  BY <1>5, <1>6 DEF c

(* What a running operation finds at its source.                           *)
LEMMA Carried ==
  ASSUME OrderInv, DataInv, NEW o \in running, NEW e \in Elems, e \in Piece(o)
  PROVE  mem[Src(o)][e] = IF o.kind = "agCopy" THEN AllOnce
                          ELSE Partial(ChunkOf(o), o.s)
<1>1. o \in Ops /\ o \notin done /\ ChunkOf(o) \in Chunks
  BY HopType DEF OrderInv, StreamsInv
<1>2. o.kind \in Kinds /\ o.s \in Steps /\ o.r \in Ranks /\ PrevRank(o.r) \in Ranks
  BY <1>1, OpTypes, Neighbours
<1>3. o.s \in Nat /\ o.s <= N - 2 /\ N \in Nat
  BY <1>2, NAssumption DEF Steps
<1>4. \A q \in Ranks : mem[Buf(q, ChunkOf(o))][e] = BufVal(q, ChunkOf(o), e)
  BY <1>1 DEF DataInv, BufInv
<1>5. CASE o.kind = "rsCopy"
  <2> DEFINE c == ChunkOf(o)
  <2>1. Src(o) = Buf(o.r, c) /\ Dist(c, o.r) = o.s /\ Hop(o) = 2 * o.s
    BY <1>2, <1>5, DistOfIndex DEF ChunkOf, Src, Hop
  <2>2. ~Gathered(o.r, c)
    BY <1>2, <1>3, <2>1, SlotWhileRunning
  <2>3. CASE o.s = 0
    <3>1. BufVal(o.r, c, e) = Own(o.r)
      BY <2>1, <2>2, <2>3 DEF BufVal, Reduced
    <3>2. Own(o.r) = Partial(c, 0)
      BY <1>1, <1>2, <2>1, <2>3, PartialSums
    <3> QED
      BY <1>2, <1>4, <1>5, <2>1, <2>3, <3>1, <3>2
  <2>4. CASE o.s > 0
    <3>1. Reduced(o.r, c, e)
      BY <1>2, <1>3, <2>1, <2>4, SlotWhileRunning
    <3>2. BufVal(o.r, c, e) = Partial(c, o.s)
      BY <2>1, <2>2, <3>1 DEF BufVal
    <3> QED
      BY <1>2, <1>4, <1>5, <2>1, <3>2
  <2> QED
    BY <1>3, <2>3, <2>4
<1>6. CASE o.kind = "reduce"
  <2>1. /\ Src(o) = Stage(StageSlot(o.s), o.r) /\ ChunkOf(o) = RSRecv(o.r, o.s)
        /\ Hop(o) = 2 * o.s + 1 /\ o.k = PieceOf(e) /\ o = ReduceOp(o.s, o.k, o.r)
    BY <1>1, <1>6, Covers, OpTypes DEF Src, ChunkOf, Hop
  <2>2. RSCopyOp(o.s, o.k, PrevRank(o.r)) \in done
    <3> DEFINE p == Pred(o)
    <3>1. /\ p = RSCopyOp(o.s, o.k, PrevRank(o.r)) /\ p \in Ops
          /\ ChunkOf(p) = ChunkOf(o) /\ Hop(p) < Hop(o)
      BY <1>1, <1>3, <1>6, <2>1, PredHop DEF Pred
    <3>2. e \in Piece(p)
      BY <2>1, <3>1, Covers DEF RSCopyOp
    <3> HIDE DEF p
    <3>3. QED
      BY <3>1, <3>2, JourneyOrder
  <2>3. Staged(o.s, o.r, e)
    BY <1>1, <2>1, <2>2 DEF Staged
  <2> QED
    BY <1>2, <1>6, <2>1, <2>3 DEF DataInv, StageInv
<1>7. CASE o.kind = "agCopy"
  <2> DEFINE c == ChunkOf(o)
  <2>1. /\ Src(o) = Buf(o.r, c) /\ Hop(o) = 2 * (N - 1) + o.s
        /\ Dist(c, o.r) = IF o.s = 0 THEN N - 1 ELSE o.s - 1
    BY <1>2, <1>7, DistOfIndex DEF ChunkOf, Src, Hop
  <2>2. CASE o.s = 0
    <3>1. Dist(c, o.r) = N - 1 /\ N - 1 >= 1 /\ ~(N - 1 <= N - 2)
      BY <2>1, <2>2, NAssumption
    <3>2. ~Gathered(o.r, c)
      BY <3>1 DEF Gathered
    <3>3. Reduced(o.r, c, e)
      BY <1>2, <1>3, <2>1, <2>2, <3>1, SlotWhileRunning
    <3>4. BufVal(o.r, c, e) = Partial(c, N - 1)
      BY <3>1, <3>2, <3>3 DEF BufVal
    <3>5. AllOnce = Partial(c, N - 1)
      BY <1>1, PartialSums
    <3> QED
      BY <1>2, <1>4, <1>7, <2>1, <3>4, <3>5
  <2>3. CASE o.s # 0
    <3>1. Gathered(o.r, c)
      BY <1>2, <1>3, <2>1, <2>3, SlotWhileRunning
    <3>2. BufVal(o.r, c, e) = AllOnce
      BY <3>1 DEF BufVal
    <3> QED
      BY <1>2, <1>4, <1>7, <2>1, <3>2
  <2> QED
    BY <2>2, <2>3
<1> QED
  BY <1>2, <1>5, <1>6, <1>7 DEF Kinds

(* The effect of an operation that ends.                                   *)
LEMMA EndEffect ==
  ASSUME OrderInv, DataInv, NEW o \in Ops, End(o)
  PROVE  /\ o \in running /\ o \notin done /\ done' = done \cup {o}
         /\ \A l \in Locs, e \in Elems :
              mem'[l][e] = IF l = Dst(o) /\ e \in Piece(o) THEN Result(o, e) ELSE mem[l][e]
         /\ MemType'
<1>1. o \in running /\ o \notin done /\ done' = done \cup {o}
  BY DEF End, DeviceEnd, OrderInv, StreamsInv
<1>2. /\ mem \in [Locs -> [Elems -> Values]] /\ Dst(o) \in Locs /\ Src(o) \in Locs
      /\ mem' = [mem EXCEPT ![Dst(o)] =
                   [e \in Elems |-> IF e \in Piece(o) THEN Result(o, e) ELSE mem[Dst(o)][e]]]
  BY AccessLocs DEF DataInv, MemType, End
<1>3. \A e \in Elems : Result(o, e) \in Values
  BY <1>2, ValueTypes DEF Result
<1>4. MemType'
  BY <1>2, <1>3 DEF MemType
<1>5. \A l \in Locs, e \in Elems :
        mem'[l][e] = IF l = Dst(o) /\ e \in Piece(o) THEN Result(o, e) ELSE mem[l][e]
  BY <1>2
<1> QED
  BY <1>1, <1>4, <1>5

(* A slot the operation that ends does not write keeps what is due there.  *)
LEMMA EndElsewhere ==
  ASSUME OrderInv, DataInv, NEW o \in Ops, End(o), NEW q \in Ranks, NEW c \in Chunks,
         NEW e \in Elems, ~(e \in Piece(o) /\ Dst(o) = Buf(q, c))
  PROVE  mem'[Buf(q, c)][e] = BufVal(q, c, e)'
<1>1. done' = done \cup {o} /\ mem'[Buf(q, c)][e] = mem[Buf(q, c)][e]
  BY EndEffect, LocTypes
<1>2. Dist(c, q) <= N - 2 => AGCopyOp(Dist(c, q), PrevRank(q)) # o
  <2> SUFFICES ASSUME Dist(c, q) <= N - 2, AGCopyOp(Dist(c, q), PrevRank(q)) = o
               PROVE  FALSE
    OBVIOUS
  <2>1. e \in Piece(o) /\ ChunkOf(o) = c
    BY Writers
  <2>2. o.kind = "agCopy" /\ NextRank(o.r) = q
    BY Neighbours DEF AGCopyOp
  <2>3. Dst(o) = Buf(q, c)
    BY <2>1, <2>2 DEF Dst, ChunkOf
  <2>4. QED
    BY <2>1, <2>3
<1>3. Dist(c, q) >= 1 => ReduceOp(Dist(c, q) - 1, PieceOf(e), q) # o
  <2> SUFFICES ASSUME Dist(c, q) >= 1, ReduceOp(Dist(c, q) - 1, PieceOf(e), q) = o
               PROVE  FALSE
    OBVIOUS
  <2>1. e \in Piece(o) /\ ChunkOf(o) = c
    BY Writers
  <2>2. o.kind = "reduce" /\ o.r = q
    BY DEF ReduceOp
  <2>3. Dst(o) = Buf(q, c)
    BY <2>1, <2>2 DEF Dst, ChunkOf
  <2>4. QED
    BY <2>1, <2>3
<1>4. (Gathered(q, c)' <=> Gathered(q, c)) /\ (Reduced(q, c, e)' <=> Reduced(q, c, e))
  BY <1>1, <1>2, <1>3 DEF Gathered, Reduced
<1>5. QED
  BY <1>1, <1>4 DEF BufVal, DataInv, BufInv

(* Before a reduction its slot holds the rank's own input.                 *)
LEMMA BeforeReduce ==
  ASSUME OrderInv, DataInv, NEW o \in running, o.kind = "reduce",
         NEW e \in Elems, e \in Piece(o)
  PROVE  /\ Dst(o) = Buf(o.r, ChunkOf(o)) /\ Dist(ChunkOf(o), o.r) = o.s + 1
         /\ o = ReduceOp(o.s, PieceOf(e), o.r)
         /\ ~Gathered(o.r, ChunkOf(o)) /\ mem[Dst(o)][e] = Own(o.r)
<1> DEFINE c == ChunkOf(o)
           q == o.r
<1>1. o \in Ops /\ o \notin done
  BY DEF OrderInv, StreamsInv
<1>2. /\ o.s \in Nat /\ o.s \in Steps /\ q \in Ranks /\ c \in Chunks /\ N \in Nat
      /\ o.s <= N - 2
  BY <1>1, OpTypes, HopType, NAssumption DEF Steps
<1>3. Dst(o) = Buf(q, c) /\ Dist(c, q) = o.s + 1 /\ Hop(o) = 2 * o.s + 1
  BY <1>2, DistOfIndex DEF Dst, ChunkOf, Hop
<1>4. o = ReduceOp(o.s, PieceOf(e), q)
  BY <1>1, Covers, OpTypes
<1>5. ~Gathered(q, c)
  BY <1>2, <1>3, SlotWhileRunning
<1>6. ~Reduced(q, c, e)
  <2>1. (o.s + 1) - 1 = o.s
    BY <1>2
  <2>2. QED
    BY <1>1, <1>3, <1>4, <2>1 DEF Reduced
<1>7. QED
  BY <1>2, <1>3, <1>4, <1>5, <1>6 DEF DataInv, BufInv, BufVal

(* A reduction leaves the partial sum up to its rank.                      *)
LEMMA EndReduce ==
  ASSUME OrderInv, DataInv, NEW o \in Ops, End(o), o.kind = "reduce",
         NEW e \in Elems, e \in Piece(o)
  PROVE  mem'[Dst(o)][e] = BufVal(o.r, ChunkOf(o), e)'
<1> DEFINE c == ChunkOf(o)
           q == o.r
<1>1. /\ o \in running /\ done' = done \cup {o} /\ Dst(o) \in Locs
      /\ mem'[Dst(o)][e] = Result(o, e)
  BY EndEffect, AccessLocs
<1>2. /\ Dist(c, q) = o.s + 1 /\ o = ReduceOp(o.s, PieceOf(e), q)
      /\ ~Gathered(q, c) /\ mem[Dst(o)][e] = Own(q)
  BY <1>1, BeforeReduce
<1>3. /\ o.s \in Nat /\ q \in Ranks /\ c \in Chunks
      /\ (o.s + 1) - 1 = o.s /\ o.s + 1 >= 1 /\ o.s + 1 > 0
  <2>1. o.s \in Steps /\ q \in Ranks /\ c \in Chunks
    BY OpTypes, HopType
  <2>2. QED
    BY <2>1, NAssumption DEF Steps
<1>4. mem[Src(o)][e] = Partial(c, o.s)
  BY <1>1, Carried
<1>5. Result(o, e) = Plus(Own(q), Partial(c, Dist(c, q) - 1))
  BY <1>2, <1>3, <1>4 DEF Result
<1>6. Result(o, e) = Partial(c, Dist(c, q))
  BY <1>2, <1>3, <1>5, PartialSums
<1>7. ~Gathered(q, c)'
  BY <1>1, <1>2 DEF Gathered, AGCopyOp
<1>8. Reduced(q, c, e)'
  BY <1>1, <1>2, <1>3 DEF Reduced
<1>9. QED
  BY <1>1, <1>6, <1>7, <1>8 DEF BufVal

(* An AllGather copy leaves the whole sum.                                 *)
LEMMA EndGather ==
  ASSUME OrderInv, DataInv, NEW o \in Ops, End(o), o.kind = "agCopy", NEW e \in Elems
  PROVE  /\ Dst(o) = Buf(NextRank(o.r), ChunkOf(o))
         /\ mem'[Dst(o)][e] = BufVal(NextRank(o.r), ChunkOf(o), e)'
         /\ mem'[Dst(o)][e] = AllOnce
<1> DEFINE c == ChunkOf(o)
           q == NextRank(o.r)
<1>1. /\ o \in running /\ done' = done \cup {o} /\ Dst(o) \in Locs /\ e \in Piece(o)
      /\ mem'[Dst(o)][e] = Result(o, e)
  BY EndEffect, AccessLocs, Covers
<1>2. /\ o.s \in Steps /\ o.s <= N - 2 /\ o.r \in Ranks /\ q \in Ranks /\ PrevRank(q) = o.r
      /\ o = AGCopyOp(o.s, o.r)
  BY OpTypes, Neighbours, NAssumption DEF Steps
<1>3. Dist(c, q) = o.s /\ Dst(o) = Buf(q, c)
  BY <1>2, DistOfIndex DEF ChunkOf, Dst
<1>4. Gathered(q, c)'
  BY <1>1, <1>2, <1>3 DEF Gathered
<1>5. Result(o, e) = AllOnce
  BY <1>1, Carried DEF Result
<1>6. QED
  BY <1>1, <1>3, <1>4, <1>5 DEF BufVal

(* What is staged stays until it is reduced: in v2 and v3 because no other *)
(* copy goes there, in v1 because the copies of the other steps have ended *)
(* before this one, or begin after its reduction.                          *)
LEMMA EndStage ==
  ASSUME OrderInv, DataInv, NEW o \in Ops, End(o)
  PROVE  StageInv'
<1> SUFFICES ASSUME NEW s \in Steps, NEW q \in Ranks, NEW e \in Elems, Staged(s, q, e)'
             PROVE  mem'[Stage(StageSlot(s), q)][e] = Partial(RSRecv(q, s), s)
  BY DEF StageInv
<1> DEFINE x == ReduceOp(s, PieceOf(e), q)
           y == RSCopyOp(s, PieceOf(e), PrevRank(q))
<1>1. /\ o \in running /\ o \notin done /\ done' = done \cup {o} /\ o \in issued
  BY EndEffect DEF OrderInv, StreamsInv
<1>2. \A l \in Locs :
        mem'[l][e] = IF l = Dst(o) /\ e \in Piece(o) THEN Result(o, e) ELSE mem[l][e]
  BY EndEffect
<1>3. PrevRank(q) \in Ranks /\ NextRank(PrevRank(q)) = q /\ Stage(StageSlot(s), q) \in Locs
  BY Neighbours, LocTypes
<1>4. PieceOf(e) \in Pieces /\ x \in Ops /\ y \in Ops
  <2>1. PieceOf(e) \in Pieces
    BY Covers
  <2>2. QED
    BY <1>3, <2>1, OpTypes
<1>5. y \in done' /\ x \notin done
  BY <1>1 DEF Staged
<1>6. /\ y.kind = "rsCopy" /\ y.s = s /\ y.r = PrevRank(q) /\ y.k = PieceOf(e)
      /\ x.kind = "reduce" /\ x.s = s
  BY DEF RSCopyOp, ReduceOp
<1>7. CASE y = o
  <2>1. e \in Piece(o) /\ Dst(o) = Stage(StageSlot(s), q) /\ ChunkOf(o) = RSRecv(q, s)
    BY <1>3, <1>6, <1>7, Covers, Relay DEF Dst, ChunkOf
  <2>2. Result(o, e) = Partial(ChunkOf(o), s)
    BY <1>1, <1>6, <1>7, <2>1, Carried DEF Result
  <2>3. QED
    BY <1>2, <1>3, <2>1, <2>2
<1>8. CASE y # o
  <2>1. y \in done /\ y \in issued
    BY <1>1, <1>5, <1>8 DEF OrderInv, StreamsInv
  <2>2. mem[Stage(StageSlot(s), q)][e] = Partial(RSRecv(q, s), s)
    <3>1. Staged(s, q, e)
      BY <1>5, <2>1 DEF Staged
    <3>2. QED
      BY <3>1 DEF DataInv, StageInv
  <2>3. ~(Dst(o) = Stage(StageSlot(s), q) /\ e \in Piece(o))
    <3> SUFFICES ASSUME Dst(o) = Stage(StageSlot(s), q), e \in Piece(o)
                 PROVE  FALSE
      OBVIOUS
    <3>1. o.kind \in Kinds /\ o.s \in Steps /\ o.r \in Ranks
      BY OpTypes
    <3>2. o.kind = "rsCopy"
      BY <3>1 DEF Kinds, Dst, Buf, Stage
    <3>3. StageSlot(o.s) = StageSlot(s) /\ NextRank(o.r) = q
      BY <3>2, LocTypes DEF Dst
    <3>4. o.r = PrevRank(q) /\ o.k = PieceOf(e) /\ o = RSCopyOp(o.s, o.k, o.r)
      BY <3>1, <3>2, <3>3, Neighbours, Covers, OpTypes
    <3>5. o.s # s
      BY <1>8, <3>4
    <3>6. Algo = "v1"
      BY <3>3, <3>5 DEF StageSlot
    <3>7. LoopsInv
      BY <3>6 DEF OrderInv
    <3>8. CASE o.s < s
      <4>1. EarlierLoop(o, y)
        BY <1>6, <3>2, <3>8 DEF EarlierLoop
      <4>2. QED
        BY <1>1, <2>1, <3>7, <4>1 DEF LoopsInv
    <3>9. CASE s < o.s
      <4>1. EarlierLoop(x, o)
        BY <1>6, <3>2, <3>9 DEF EarlierLoop
      <4>2. QED
        BY <1>1, <1>4, <1>5, <3>7, <4>1 DEF LoopsInv
    <3>10. QED
      BY <3>1, <3>5, <3>8, <3>9 DEF Steps
  <2>4. QED
    BY <1>2, <1>3, <2>2, <2>3
<1>9. QED
  BY <1>7, <1>8

(* The end of an operation, the only step to write, keeps it.              *)
LEMMA DataEnd ==
  ASSUME OrderInv, DataInv, NEW o \in Ops, End(o)
  PROVE  DataInv'
<1>1. BufInv'
  <2> SUFFICES ASSUME NEW q \in Ranks, NEW c \in Chunks, NEW e \in Elems
               PROVE  mem'[Buf(q, c)][e] = BufVal(q, c, e)'
    BY DEF BufInv
  <2>1. CASE ~(e \in Piece(o) /\ Dst(o) = Buf(q, c))
    BY <2>1, EndElsewhere
  <2>2. CASE e \in Piece(o) /\ Dst(o) = Buf(q, c)
    <3>1. o.kind = "reduce" \/ o.kind = "agCopy"
      BY <2>2, OpTypes, LocTypes DEF Kinds, Dst
    <3>2. CASE o.kind = "reduce"
      <4>1. o.r = q /\ ChunkOf(o) = c
        BY <2>2, <3>2, LocTypes DEF Dst, ChunkOf
      <4>2. mem'[Dst(o)][e] = BufVal(o.r, ChunkOf(o), e)'
        BY <2>2, <3>2, EndReduce
      <4>3. QED
        BY <2>2, <4>1, <4>2
    <3>3. CASE o.kind = "agCopy"
      <4>1. NextRank(o.r) = q /\ ChunkOf(o) = c
        BY <2>2, <3>3, LocTypes DEF Dst, ChunkOf
      <4>2. mem'[Dst(o)][e] = BufVal(NextRank(o.r), ChunkOf(o), e)'
        BY <3>3, EndGather
      <4>3. QED
        BY <2>2, <4>1, <4>2
    <3>4. QED
      BY <3>1, <3>2, <3>3
  <2>3. QED
    BY <2>1, <2>2
<1>2. QED
  BY <1>1, EndEffect, EndStage DEF DataInv

(* The same of the next state, for the call after a reset.                 *)
LEMMA DataFresh == Fresh' => DataInv'
BY DataInit, PTL

(* Every step keeps the data invariant.                                    *)
LEMMA DataNext ==
  ASSUME OrderInv, DataInv, [Next]_vars
  PROVE  DataInv'
<1>1. ASSUME mem' = mem, done' = done
      PROVE  DataInv'
  BY <1>1 DEF DataInv, MemType, BufInv, StageInv, BufVal, Gathered, Reduced, Staged
<1>2. ASSUME NEW o \in Ops, End(o)
      PROVE  DataInv'
  BY <1>2, DataEnd
<1>3. ASSUME NEW o \in Ops, Issue(o) \/ Begin(o)
      PROVE  DataInv'
  BY <1>1, <1>3 DEF Issue, Enqueue, Begin, DeviceBegin
<1>4. CASE Return \/ UNCHANGED vars
  BY <1>1, <1>4 DEF Return, vars, cudaVars
<1>5. CASE CallAgain
  <2>1. Fresh'
    BY <1>5 DEF CallAgain, CudaReset, Fresh
  <2> QED
    BY <2>1, DataFresh
<1> QED
  BY <1>2, <1>3, <1>4, <1>5 DEF Next, Host, Device

(* The data invariant of all three versions holds throughout, for every    *)
(* number of ranks and of subchunks.                                       *)
THEOREM DataInvariant == Safety => []DataInv
<1>1. Init => DataInv
  BY DataInit DEF Init, CudaQuiet, Fresh
<1>2. OrderInv /\ DataInv /\ [Next]_vars => DataInv'
  BY DataNext
<1> QED
  BY <1>1, <1>2, OrderInvariant, PTL DEF Safety

(* Every version leaves every rank's chunk reduced: rank r owns chunk      *)
(* (r+1) % N, the sum of all inputs, from the end of its last              *)
(* ReduceScatter step on.                                                  *)
THEOREM RanksOwnTheirChunk == Safety => []ReduceScatterOwnership
<1>1. DataInv => ReduceScatterOwnership
  <2> SUFFICES ASSUME DataInv, NEW r \in Ranks, NEW e \in Elems,
                      \A k \in Pieces : ReduceOp(N - 2, k, r) \in done
               PROVE  mem[Buf(r, (r + 1) % N)][e] = AllOnce
    BY DEF ReduceScatterOwnership
  <2> DEFINE c == (r + 1) % N
  <2>1. c \in Chunks /\ c = IF r = N - 1 THEN 0 ELSE r + 1
    BY Neighbours DEF NextRank, Ranks, Chunks
  <2>2. Dist(c, r) = N - 1
    BY <2>1, NAssumption DEF Dist, Ranks
  <2>3. N - 1 >= 1 /\ (N - 1) - 1 = N - 2
    BY NAssumption
  <2>4. PieceOf(e) \in Pieces
    <3>1. ReduceOp(N - 2, 0, r) \in Ops
      BY Relay, OpTypes, NAssumption DEF Steps
    <3>2. QED
      BY <3>1, Covers
  <2>5. Reduced(r, c, e)
    BY <2>2, <2>3, <2>4 DEF Reduced
  <2>6. AllOnce = Partial(c, N - 1)
    BY <2>1, PartialSums
  <2>7. BufVal(r, c, e) = AllOnce
    BY <2>2, <2>5, <2>6 DEF BufVal
  <2> QED
    BY <2>1, <2>7 DEF DataInv, BufInv
<1> QED
  BY <1>1, DataInvariant, PTL

(* What the buffers hold when every operation has ended.                   *)
LEMMA WhenAllDone ==
  ASSUME DataInv, done = Ops, NEW q \in Ranks, NEW c \in Chunks, NEW e \in Elems
  PROVE  mem[Buf(q, c)][e] = AllOnce
<1>1. Dist(c, q) \in 0 .. N - 1
  BY DistType
<1>2. BufVal(q, c, e) = AllOnce
  <2>1. CASE Dist(c, q) <= N - 2
    BY <2>1, Writers DEF BufVal, Gathered
  <2>2. CASE ~(Dist(c, q) <= N - 2)
    <3>1. Dist(c, q) = N - 1 /\ Dist(c, q) >= 1
      BY <1>1, <2>2, NAssumption
    <3>2. Reduced(q, c, e)
      BY <3>1, Writers DEF Reduced
    <3>3. AllOnce = Partial(c, N - 1)
      BY PartialSums
    <3> QED
      BY <2>2, <3>1, <3>2, <3>3 DEF BufVal, Gathered
  <2> QED
    BY <2>1, <2>2
<1> QED
  BY <1>2 DEF DataInv, BufInv

(* All three versions are an AllReduce: when the call returns, every       *)
(* element of every chunk on every rank is the sum of all ranks' inputs,   *)
(* each counted once, for every number of ranks and of subchunks and every *)
(* interleaving of the streams.                                            *)
THEOREM EveryVersionIsAnAllReduce == Safety => []AllReduceCorrect
<1>1. OrderInv /\ DataInv => AllReduceCorrect
  BY WhenAllDone DEF AllReduceCorrect, OrderInv, CallInv
<1> QED
  BY <1>1, OrderInvariant, DataInvariant, PTL

(***************************************************************************)
(* Types                                                                   *)
(***************************************************************************)
MovedInv == moved \in [Ranks -> Nat]

(* The byte counters stay numbers.                                         *)
LEMMA MovedNext ==
  ASSUME MovedInv, [Next]_vars
  PROVE  MovedInv'
<1>1. ASSUME NEW o \in Ops, Issue(o)
      PROVE  MovedInv'
  <2>1. Counted(o) \in Nat
    BY PieceLength DEF Counted
  <2>2. o.r \in Ranks
    BY OpTypes
  <2> QED
    BY <1>1, <2>1, <2>2 DEF MovedInv, Issue
<1>2. ASSUME NEW o \in Ops, Begin(o) \/ End(o)
      PROVE  MovedInv'
  BY <1>2 DEF MovedInv, Begin, End
<1>3. CASE Return \/ CallAgain \/ UNCHANGED vars
  BY <1>3 DEF MovedInv, Return, CallAgain, vars
<1> QED
  BY <1>1, <1>2, <1>3 DEF Next, Host, Device

(* The waits are between operations that have been enqueued.               *)
WaitsTyped == issued \subseteq Ops /\ waits \subseteq issued \X issued

(* They stay so.                                                           *)
LEMMA WaitsTypedNext ==
  ASSUME WaitsTyped, [Next]_vars
  PROVE  WaitsTyped'
<1>1. ASSUME NEW o \in Ops, Issue(o)
      PROVE  WaitsTyped'
  <2>1. Awaited(o) \subseteq issued
    BY DEF Awaited
  <2>2. issued' = issued \cup {o} /\ waits' = waits \cup ({o} \X Awaited(o))
    BY <1>1 DEF Issue, Enqueue
  <2>3. QED
    BY <2>1, <2>2 DEF WaitsTyped
<1>2. ASSUME NEW o \in Ops, Begin(o) \/ End(o)
      PROVE  WaitsTyped'
  BY <1>2 DEF WaitsTyped, Begin, End, DeviceBegin, DeviceEnd
<1>3. CASE Return \/ CallAgain \/ UNCHANGED vars
  BY <1>3 DEF WaitsTyped, Return, CallAgain, CudaReset, vars, cudaVars
<1> QED
  BY <1>1, <1>2, <1>3 DEF Next, Host, Device

(* The state has its types, and no operation reaches outside the buffers   *)
(* ringInit allocates, in all three versions, for every number of ranks    *)
(* and of subchunks.                                                       *)
THEOREM TypeCorrect == Safety => []TypeOK
<1>1. Init => MovedInv /\ WaitsTyped
  BY DEF Init, CudaQuiet, MovedInv, WaitsTyped
<1>2. MovedInv /\ WaitsTyped /\ [Next]_vars => MovedInv' /\ WaitsTyped'
  BY MovedNext, WaitsTypedNext
<1>3. OrderInv /\ DataInv /\ MovedInv /\ WaitsTyped => TypeOK
  <2> SUFFICES ASSUME OrderInv, DataInv, MovedInv, WaitsTyped
               PROVE  TypeOK
    OBVIOUS
  <2>1. CudaTypeOK(Ops)
    BY DEF CudaTypeOK, OrderInv, StreamsInv, WaitsTyped
  <2>2. \A o \in running : Src(o) \in Locs /\ Dst(o) \in Locs
    BY AccessLocs DEF OrderInv, StreamsInv
  <2>3. mem \in [Locs -> [Elems -> Values]] /\ moved \in [Ranks -> Nat]
    BY DEF DataInv, MemType, MovedInv
  <2>4. call \in {"running", "returned"}
    BY DEF OrderInv, CallInv
  <2> QED
    BY <2>1, <2>2, <2>3, <2>4 DEF TypeOK
<1> QED
  BY <1>1, <1>2, <1>3, OrderInvariant, DataInvariant, PTL DEF Safety

(***************************************************************************)
(* The refinement: seen through an element e, every step is a step       *)
(* of ChunkRelay or changes nothing of it.                                 *)
(***************************************************************************)
RelayOf(e) == INSTANCE ChunkRelay WITH held <- Held(e)

(* The relay's schedule is this one.                                       *)
LEMMA RelayTerms ==
  ASSUME NEW e
  PROVE  /\ RelayOf(e)!Ranks = Ranks /\ RelayOf(e)!Chunks = Chunks
         /\ RelayOf(e)!AllOnce = AllOnce
         /\ \A q : RelayOf(e)!Own(q) = Own(q) /\ RelayOf(e)!PrevRank(q) = PrevRank(q)
         /\ \A u, v : RelayOf(e)!Plus(u, v) = Plus(u, v)
BY DEF Ranks, Chunks, AllOnce, Own, PrevRank, Plus, RelayOf!Ranks, RelayOf!Chunks,
       RelayOf!AllOnce, RelayOf!Own, RelayOf!PrevRank, RelayOf!Plus

(* What the relay sees of the memory.                                      *)
LEMMA HeldIs ==
  ASSUME NEW e, NEW q \in Ranks, NEW c \in Chunks
  PROVE  /\ Held(e)[q][c] = mem[Buf(q, c)][e]
         /\ Held(e)'[q][c] = mem'[Buf(q, c)][e]
BY DEF Held

(* A write to one slot, or to none, as the relay sees it.                  *)
LEMMA HeldWrite ==
  ASSUME NEW e \in Elems, NEW q \in Ranks, NEW c \in Chunks, NEW v,
         \A t \in Ranks, d \in Chunks :
           mem'[Buf(t, d)][e] = IF t = q /\ d = c THEN v ELSE mem[Buf(t, d)][e],
         call' = call
  PROVE  RelayOf(e)!Put(q, c, v)
BY DEF RelayOf!Put, Held

(* A step that writes nothing the relay sees.                              *)
LEMMA HeldKept ==
  ASSUME NEW e \in Elems, call' = call,
         \A t \in Ranks, d \in Chunks : mem'[Buf(t, d)][e] = mem[Buf(t, d)][e]
  PROVE  UNCHANGED RelayOf(e)!vars
BY DEF RelayOf!vars, Held

(* What a rank sent stays in its slot until its successor has added it.    *)
LEMMA SumStays ==
  ASSUME OrderInv, DataInv, NEW o \in running, o.kind = "reduce",
         NEW e \in Elems, e \in Piece(o)
  PROVE  mem[Buf(PrevRank(o.r), ChunkOf(o))][e] = Partial(ChunkOf(o), o.s)
<1> DEFINE p == PrevRank(o.r)
           c == ChunkOf(o)
<1>1. o \in Ops /\ c \in Chunks
  BY HopType DEF OrderInv, StreamsInv
<1>2. o.s \in Steps /\ o.r \in Ranks /\ p \in Ranks /\ NextRank(p) = o.r
  BY <1>1, OpTypes, Neighbours
<1>3. /\ o.s \in Nat /\ o.s <= N - 2 /\ N \in Nat
      /\ Dist(c, p) = o.s /\ Hop(o) = 2 * o.s + 1
  BY <1>2, Relay, DistOfIndex, NAssumption DEF ChunkOf, Hop, Steps
<1>4. ~Gathered(p, c)
  BY <1>2, <1>3, SlotWhileRunning
<1>5. mem[Buf(p, c)][e] = BufVal(p, c, e)
  BY <1>1, <1>2 DEF DataInv, BufInv
<1>6. CASE o.s = 0
  <2>1. BufVal(p, c, e) = Own(p) /\ Own(p) = Partial(c, 0)
    BY <1>1, <1>2, <1>3, <1>4, <1>6, PartialSums DEF BufVal, Reduced
  <2> QED
    BY <1>5, <1>6, <2>1
<1>7. CASE o.s # 0
  <2>1. Reduced(p, c, e)
    BY <1>2, <1>3, <1>7, SlotWhileRunning
  <2> QED
    BY <1>3, <1>4, <1>5, <2>1 DEF BufVal
<1> QED
  BY <1>6, <1>7

(* The end of an operation is a step of the relay, or none.                *)
LEMMA RelayEnd ==
  ASSUME OrderInv, DataInv, NEW e \in Elems, NEW o \in Ops, End(o)
  PROVE  [RelayOf(e)!Next]_(RelayOf(e)!vars)
<1>1. o \in running /\ o \notin done /\ call' = call /\ call = "running"
  BY EndEffect DEF OrderInv, StreamsInv, CallInv, End
<1>2. /\ Dst(o) \in Locs
      /\ \A l \in Locs :
           mem'[l][e] = IF l = Dst(o) /\ e \in Piece(o) THEN Result(o, e) ELSE mem[l][e]
  BY EndEffect, AccessLocs
<1>3. /\ o.kind \in Kinds /\ o.s \in Steps /\ o.r \in Ranks /\ ChunkOf(o) \in Chunks
      /\ NextRank(o.r) \in Ranks /\ PrevRank(o.r) \in Ranks /\ PrevRank(NextRank(o.r)) = o.r
      /\ NextRank(PrevRank(o.r)) = o.r
  BY OpTypes, HopType, Neighbours
<1>4. CASE o.kind = "rsCopy" \/ e \notin Piece(o)
  <2>1. \A t \in Ranks, d \in Chunks : mem'[Buf(t, d)][e] = mem[Buf(t, d)][e]
    BY <1>2, <1>4, LocTypes DEF Dst
  <2> QED
    BY <1>1, <2>1, HeldKept
<1>5. CASE o.kind = "reduce" /\ e \in Piece(o)
  <2> DEFINE q == o.r
             c == ChunkOf(o)
  <2>1. /\ Dst(o) = Buf(q, c) /\ Dist(c, q) = o.s + 1 /\ mem[Dst(o)][e] = Own(q)
    BY <1>1, <1>5, BeforeReduce
  <2>2. mem[Src(o)][e] = Partial(c, o.s)
    BY <1>1, <1>5, Carried
  <2>3. Held(e)[PrevRank(q)][c] = Partial(c, o.s)
    BY <1>1, <1>3, <1>5, SumStays, HeldIs
  <2>4. Held(e)[q][c] = Own(q)
    BY <1>3, <2>1, HeldIs
  <2>5. RelayOf(e)!Put(q, c, Plus(Held(e)[q][c], Held(e)[PrevRank(q)][c]))
    <3>1. Result(o, e) = Plus(Held(e)[q][c], Held(e)[PrevRank(q)][c])
      BY <1>5, <2>1, <2>2, <2>3, <2>4 DEF Result
    <3>2. \A t \in Ranks, d \in Chunks :
            mem'[Buf(t, d)][e] = IF t = q /\ d = c THEN Result(o, e) ELSE mem[Buf(t, d)][e]
      BY <1>2, <1>5, <2>1, LocTypes
    <3> QED
      BY <1>1, <1>3, <3>1, <3>2, HeldWrite
  <2>6. ~RelayOf(e)!Summed(q, c)
    <3>1. q # c
      BY <1>3, <2>1, NAssumption DEF Dist, Steps, Ranks
    <3> QED
      BY <2>4, <3>1, RelayTerms DEF RelayOf!Summed
  <2>7. RelayOf(e)!Summed(PrevRank(q), c)
    <3> SUFFICES ASSUME PrevRank(q) # c
                 PROVE  Held(e)[PrevRank(q)][c] # Own(PrevRank(q))
      BY RelayTerms DEF RelayOf!Summed
    <3>1. c \in Ranks /\ Dist(c, c) = 0
      BY <1>3 DEF Chunks, Ranks, Dist
    <3>2. Partial(c, o.s)[c] = 1
      BY <1>3, <3>1 DEF Partial, Steps
    <3>3. Own(PrevRank(q))[c] = 0
      BY <3>1 DEF Own
    <3> QED
      BY <2>3, <3>2, <3>3
  <2>8. RelayOf(e)!Add(q, c)
    BY <1>1, <2>5, <2>6, <2>7, RelayTerms DEF RelayOf!Add
  <2> QED
    BY <1>3, <2>8, RelayTerms DEF RelayOf!Next
<1>6. CASE o.kind = "agCopy" /\ e \in Piece(o)
  <2> DEFINE q == NextRank(o.r)
             c == ChunkOf(o)
  <2>1. Dst(o) = Buf(q, c) /\ Src(o) = Buf(o.r, c) /\ mem'[Dst(o)][e] = AllOnce
    BY <1>6, EndGather DEF ChunkOf, Src
  <2>2. Held(e)[PrevRank(q)][c] = AllOnce
    <3>1. mem[Src(o)][e] = AllOnce
      BY <1>1, <1>6, Carried
    <3> QED
      BY <1>3, <2>1, <3>1, HeldIs
  <2>3. RelayOf(e)!Put(q, c, AllOnce)
    <3>1. \A t \in Ranks, d \in Chunks :
            mem'[Buf(t, d)][e] = IF t = q /\ d = c THEN AllOnce ELSE mem[Buf(t, d)][e]
      BY <1>2, <1>6, <2>1, LocTypes
    <3> QED
      BY <1>1, <1>3, <3>1, HeldWrite
  <2>4. RelayOf(e)!Pass(q, c)
    BY <1>1, <2>2, <2>3, RelayTerms DEF RelayOf!Pass
  <2> QED
    BY <1>3, <2>4, RelayTerms DEF RelayOf!Next
<1> QED
  BY <1>3, <1>4, <1>5, <1>6 DEF Kinds

(* Every step is a step of the relay, or none.                             *)
LEMMA RelayNext ==
  ASSUME OrderInv, DataInv, NEW e \in Elems, [Next]_vars
  PROVE  [RelayOf(e)!Next]_(RelayOf(e)!vars)
<1>1. ASSUME NEW o \in Ops, End(o)
      PROVE  [RelayOf(e)!Next]_(RelayOf(e)!vars)
  BY <1>1, RelayEnd
<1>2. ASSUME mem' = mem, call' = call
      PROVE  [RelayOf(e)!Next]_(RelayOf(e)!vars)
  BY <1>2, HeldKept
<1>3. ASSUME NEW o \in Ops, Issue(o) \/ Begin(o)
      PROVE  mem' = mem /\ call' = call
  BY <1>3 DEF Issue, Begin
<1>4. CASE Return
  <2>1. done = Ops /\ UNCHANGED Held(e)
    BY <1>4 DEF Return, Drained, OrderInv, StreamsInv, Held
  <2>2. \A q \in Ranks, c \in Chunks : Held(e)[q][c] = AllOnce
    BY <2>1, WhenAllDone, HeldIs
  <2>3. RelayOf(e)!Return
    BY <1>4, <2>1, <2>2, RelayTerms DEF RelayOf!Return, Return
  <2> QED
    BY <2>3, RelayTerms DEF RelayOf!Next
<1>5. CASE CallAgain
  <2>1. \A q \in Ranks, c \in Chunks : mem'[Buf(q, c)][e] = Own(q)
    BY <1>5, LocTypes DEF CallAgain, Filled, Buf
  <2>2. Held(e)' = RelayOf(e)!Inputs
    BY <2>1, RelayTerms DEF Held, RelayOf!Inputs
  <2>3. RelayOf(e)!CallAgain
    BY <1>5, <2>2, RelayTerms DEF RelayOf!CallAgain, CallAgain
  <2> QED
    BY <2>3, RelayTerms DEF RelayOf!Next
<1>6. CASE UNCHANGED vars
  BY <1>2, <1>6 DEF vars
<1> QED
  BY <1>1, <1>2, <1>3, <1>4, <1>5, <1>6 DEF Next, Host, Device

(* Seen through any element, every version is a relay of every chunk       *)
(* around the ring.                                                        *)
THEOREM EveryElementIsRelayed ==
  ASSUME NEW e \in Elems
  PROVE  Safety => RelayOf(e)!Spec
<1>1. Init => RelayOf(e)!Init
  <2> SUFFICES ASSUME Init
               PROVE  RelayOf(e)!Init
    OBVIOUS
  <2>1. \A q \in Ranks, c \in Chunks : mem[Buf(q, c)][e] = Own(q)
    BY LocTypes DEF Init, Filled, Buf
  <2>2. Held(e) = RelayOf(e)!Inputs
    BY <2>1, RelayTerms DEF Held, RelayOf!Inputs
  <2> QED
    BY <2>2, RelayTerms DEF RelayOf!Init, Init
<1>2. OrderInv /\ DataInv /\ [Next]_vars => [RelayOf(e)!Next]_(RelayOf(e)!vars)
  BY RelayNext
<1> QED
  BY <1>1, <1>2, OrderInvariant, DataInvariant, PTL DEF Safety, RelayOf!Spec

(* All three versions implement the relay the runs watch, for every number *)
(* of ranks and of subchunks and every chunk size.                         *)
THEOREM EveryVersionImplementsRelay == Safety => ImplementsRelay
<1>1. 0 \in Elems /\ Chunk - 1 \in Elems
  BY SizeAssumption DEF Elems
<1>2. Safety => RelayOf(0)!Spec
  BY <1>1, EveryElementIsRelayed
<1>3. Safety => RelayOf(Chunk - 1)!Spec
  BY <1>1, EveryElementIsRelayed
<1>4. RelayOf(0)!Spec => First!Spec
  <2>1. RelayOf(0)!Init => First!Init
    BY DEF First!Init, First!Next, First!vars, First!Inputs, First!Summed, First!Put,
           First!Add, First!Pass, First!Return, First!CallAgain, First!Ranks, First!Chunks,
           First!Own, First!PrevRank, First!Plus, First!AllOnce, RelayOf!Init,
           RelayOf!Next, RelayOf!vars, RelayOf!Inputs, RelayOf!Summed, RelayOf!Put,
           RelayOf!Add, RelayOf!Pass, RelayOf!Return, RelayOf!CallAgain, RelayOf!Ranks,
           RelayOf!Chunks, RelayOf!Own, RelayOf!PrevRank, RelayOf!Plus, RelayOf!AllOnce
  <2>2. [RelayOf(0)!Next]_(RelayOf(0)!vars) => [First!Next]_(First!vars)
    BY DEF First!Init, First!Next, First!vars, First!Inputs, First!Summed, First!Put,
           First!Add, First!Pass, First!Return, First!CallAgain, First!Ranks, First!Chunks,
           First!Own, First!PrevRank, First!Plus, First!AllOnce, RelayOf!Init,
           RelayOf!Next, RelayOf!vars, RelayOf!Inputs, RelayOf!Summed, RelayOf!Put,
           RelayOf!Add, RelayOf!Pass, RelayOf!Return, RelayOf!CallAgain, RelayOf!Ranks,
           RelayOf!Chunks, RelayOf!Own, RelayOf!PrevRank, RelayOf!Plus, RelayOf!AllOnce
  <2> QED
    BY <2>1, <2>2, PTL DEF RelayOf!Spec, First!Spec
<1>5. RelayOf(Chunk - 1)!Spec => Last!Spec
  <2>1. RelayOf(Chunk - 1)!Init => Last!Init
    BY DEF Last!Init, Last!Next, Last!vars, Last!Inputs, Last!Summed, Last!Put, Last!Add,
           Last!Pass, Last!Return, Last!CallAgain, Last!Ranks, Last!Chunks, Last!Own,
           Last!PrevRank, Last!Plus, Last!AllOnce, RelayOf!Init, RelayOf!Next,
           RelayOf!vars, RelayOf!Inputs, RelayOf!Summed, RelayOf!Put, RelayOf!Add,
           RelayOf!Pass, RelayOf!Return, RelayOf!CallAgain, RelayOf!Ranks, RelayOf!Chunks,
           RelayOf!Own, RelayOf!PrevRank, RelayOf!Plus, RelayOf!AllOnce
  <2>2. [RelayOf(Chunk - 1)!Next]_(RelayOf(Chunk - 1)!vars) => [Last!Next]_(Last!vars)
    BY DEF Last!Init, Last!Next, Last!vars, Last!Inputs, Last!Summed, Last!Put, Last!Add,
           Last!Pass, Last!Return, Last!CallAgain, Last!Ranks, Last!Chunks, Last!Own,
           Last!PrevRank, Last!Plus, Last!AllOnce, RelayOf!Init, RelayOf!Next,
           RelayOf!vars, RelayOf!Inputs, RelayOf!Summed, RelayOf!Put, RelayOf!Add,
           RelayOf!Pass, RelayOf!Return, RelayOf!CallAgain, RelayOf!Ranks, RelayOf!Chunks,
           RelayOf!Own, RelayOf!PrevRank, RelayOf!Plus, RelayOf!AllOnce
  <2> QED
    BY <2>1, <2>2, PTL DEF RelayOf!Spec, Last!Spec
<1> QED
  BY <1>2, <1>3, <1>4, <1>5 DEF ImplementsRelay

(***************************************************************************)
(* The bytes                                                               *)
(***************************************************************************)
(* The elements rank r has copied: for each of its copies those it covers. *)
CopiedBy(r, S) ==
  {x \in S \X Elems : x[1].r = r /\ x[1].kind # "reduce" /\ x[2] \in Piece(x[1])}

(* moved counts them.                                                      *)
BytesInv ==
  /\ issued \subseteq Ops
  /\ \A r \in Ranks : IsFiniteSet(CopiedBy(r, issued))
  /\ moved = [r \in Ranks |-> Cardinality(CopiedBy(r, issued))]
  /\ call = "returned" => issued = Ops

(* One more operation adds what it counts.                                 *)
LEMMA OneMoreCopied ==
  ASSUME NEW S \in SUBSET Ops, NEW o \in Ops, o \notin S, NEW r \in Ranks,
         IsFiniteSet(CopiedBy(r, S))
  PROVE  /\ IsFiniteSet(CopiedBy(r, S \cup {o}))
         /\ Cardinality(CopiedBy(r, S \cup {o})) =
              Cardinality(CopiedBy(r, S)) + (IF o.r = r THEN Counted(o) ELSE 0)
<1>0. Cardinality(CopiedBy(r, S)) \in Nat
  BY FS_CardinalityType
<1>1. CASE o.r = r /\ o.kind # "reduce"
  <2> DEFINE new == {o} \X Piece(o)
  <2>1. CopiedBy(r, S \cup {o}) = CopiedBy(r, S) \cup new
    BY <1>1, PieceLength DEF CopiedBy
  <2>2. CopiedBy(r, S) \cap new = {}
    BY DEF CopiedBy
  <2>3. /\ IsFiniteSet({o}) /\ Cardinality({o}) = 1
        /\ IsFiniteSet(Piece(o)) /\ Cardinality(Piece(o)) = PieceLen(o) /\ PieceLen(o) \in Nat
    BY FS_Singleton, PieceLength
  <2>4. IsFiniteSet(new) /\ Cardinality(new) = PieceLen(o)
    <3>1. IsFiniteSet(new) /\ Cardinality(new) = 1 * PieceLen(o)
      BY <2>3, FS_Product
    <3>2. QED
      BY <2>3, <3>1
  <2> HIDE DEF new
  <2>5. /\ IsFiniteSet(CopiedBy(r, S) \cup new)
        /\ Cardinality(CopiedBy(r, S) \cup new) = Cardinality(CopiedBy(r, S)) + PieceLen(o) - 0
    BY <2>2, <2>4, FS_Union, FS_EmptySet
  <2>6. (IF o.r = r THEN Counted(o) ELSE 0) = PieceLen(o)
    BY <1>1 DEF Counted
  <2>7. IsFiniteSet(CopiedBy(r, S \cup {o}))
    BY <2>1, <2>5
  <2>8. Cardinality(CopiedBy(r, S \cup {o})) = Cardinality(CopiedBy(r, S)) + PieceLen(o)
    <3>1. Cardinality(CopiedBy(r, S) \cup new) = Cardinality(CopiedBy(r, S)) + PieceLen(o)
      BY <1>0, <2>3, <2>5
    <3>2. QED
      BY <2>1, <3>1, Zenon
  <2>9. QED
    BY <2>6, <2>7, <2>8
<1>2. CASE ~(o.r = r /\ o.kind # "reduce")
  <2>1. CopiedBy(r, S \cup {o}) = CopiedBy(r, S)
    BY <1>2 DEF CopiedBy
  <2>2. (IF o.r = r THEN Counted(o) ELSE 0) = 0
    BY <1>2 DEF Counted
  <2>3. QED
    BY <1>0, <2>1, <2>2
<1>3. QED
  BY <1>1, <1>2

(* All the operations of a call have copied 2(N-1) chunks for every rank.  *)
LEMMA AllCopied ==
  ASSUME NEW r \in Ranks
  PROVE  Cardinality(CopiedBy(r, Ops)) = 2 * (N - 1) * Chunk
<1> DEFINE Passes == {"rsCopy", "agCopy"}
           target == (Passes \X Steps) \X Elems
           place(x) == << <<x[1].kind, x[1].s>>, x[2]>>
           f == [x \in CopiedBy(r, Ops) |-> place(x)]
<1>1. /\ IsFiniteSet(target) /\ Cardinality(target) = 2 * (N - 1) * Chunk
  <2>1. IsFiniteSet(Passes) /\ Cardinality(Passes) = 2
    <3>1. Passes = {"rsCopy"} \cup {"agCopy"}
      OBVIOUS
    <3>2. IsFiniteSet({"rsCopy"}) /\ Cardinality({"rsCopy"}) = 1
      BY FS_Singleton
    <3>3. "agCopy" \notin {"rsCopy"}
      OBVIOUS
    <3>4. QED
      BY <3>1, <3>2, <3>3, FS_AddElement
  <2>2. IsFiniteSet(Steps) /\ Cardinality(Steps) = N - 1
    <3>1. 0 \in Int /\ N - 2 \in Int /\ N - 2 >= 0
      BY NAssumption
    <3>2. IsFiniteSet(0 .. N - 2) /\ Cardinality(0 .. N - 2) = (N - 2) - 0 + 1
      BY <3>1, FS_Interval
    <3>3. QED
      BY <3>1, <3>2, NAssumption DEF Steps
  <2>3. IsFiniteSet(Elems) /\ Cardinality(Elems) = Chunk
    <3>1. 0 \in Int /\ Chunk - 1 \in Int /\ Chunk - 1 >= 0
      BY SubchunksFit
    <3>2. IsFiniteSet(0 .. Chunk - 1) /\ Cardinality(0 .. Chunk - 1) = (Chunk - 1) - 0 + 1
      BY <3>1, FS_Interval
    <3>3. QED
      BY <3>1, <3>2, SubchunksFit DEF Elems
  <2> HIDE DEF Passes
  <2>4. IsFiniteSet(Passes \X Steps) /\ Cardinality(Passes \X Steps) = 2 * (N - 1)
    BY <2>1, <2>2, FS_Product
  <2>5. QED
    BY <2>3, <2>4, FS_Product
<1>2. ASSUME NEW x \in CopiedBy(r, Ops)
      PROVE  /\ x = <<x[1], x[2]>> /\ x[1] \in Ops /\ x[2] \in Elems /\ x[2] \in Piece(x[1])
             /\ x[1].kind \in Passes /\ x[1].s \in Steps
             /\ x[1].kind = "rsCopy" => x[1].k \in Pieces /\ x[1] = RSCopyOp(x[1].s, x[1].k, r)
             /\ x[1].kind = "agCopy" => x[1] = AGCopyOp(x[1].s, r)
  BY DEF CopiedBy, Ops, Kinds, RSCopyOp, AGCopyOp
<1>3. f \in [CopiedBy(r, Ops) -> target]
  BY <1>2
<1>4. ASSUME NEW x \in CopiedBy(r, Ops), NEW y \in CopiedBy(r, Ops), f[x] = f[y]
      PROVE  x = y
  <2>1. x[1].kind = y[1].kind /\ x[1].s = y[1].s /\ x[2] = y[2]
    BY <1>4
  <2>2. CASE x[1].kind = "agCopy"
    BY <1>2, <2>1, <2>2
  <2>3. CASE x[1].kind = "rsCopy"
    <3> DEFINE s == x[1].s
               e == x[2]
               j == x[1].k
               k == y[1].k
    <3>1. /\ x[1] = RSCopyOp(s, j, r) /\ y[1] = RSCopyOp(s, k, r) /\ s \in Steps
          /\ j \in Pieces /\ k \in Pieces /\ x[1].kind # "agCopy"
      BY <1>2, <2>1, <2>3
    <3>2. e \in Piece(RSCopyOp(s, j, r)) /\ e \in Piece(RSCopyOp(s, k, r))
      BY <1>2, <2>1, <3>1
    <3>3. j \in Int /\ k \in Int
      BY <3>1, SubchunksFit DEF Pieces
    <3> HIDE DEF s, e, j, k
    <3>4. j = k
      BY <3>1, <3>2, <3>3, InNoOtherSubchunk
    <3>5. x[1] = y[1]
      BY <3>1, <3>4
    <3>6. QED
      BY <1>2, <2>1, <3>5
  <2>4. QED
    BY <1>2, <2>2, <2>3
<1>5. ASSUME NEW t \in target
      PROVE  \E x \in CopiedBy(r, Ops) : f[x] = t
  <2>1. PICK kind \in Passes, s \in Steps, e \in Elems : t = << <<kind, s>>, e>>
    OBVIOUS
  <2>2. CASE kind = "agCopy"
    <3>1. AGCopyOp(s, r) \in Ops /\ Piece(AGCopyOp(s, r)) = Elems
      BY SubchunksFit DEF Ops, Kinds, AGCopyOp, Pieces, Piece, PieceOff, PieceLen, Elems
    <3>2. <<AGCopyOp(s, r), e>> \in CopiedBy(r, Ops)
      BY <3>1 DEF CopiedBy, AGCopyOp
    <3>3. QED
      BY <2>1, <2>2, <3>2 DEF AGCopyOp
  <2>3. CASE kind = "rsCopy"
    <3>1. PICK k \in Pieces : e \in Piece(RSCopyOp(s, k, r))
      BY InASubchunk
    <3>2. RSCopyOp(s, k, r) \in Ops
      BY DEF Ops, Kinds, RSCopyOp
    <3>3. <<RSCopyOp(s, k, r), e>> \in CopiedBy(r, Ops)
      BY <3>1, <3>2 DEF CopiedBy, RSCopyOp
    <3>4. QED
      BY <2>1, <2>3, <3>3 DEF RSCopyOp
  <2>4. QED
    BY <2>2, <2>3
<1> HIDE DEF f, target
<1>6. f \in Bijection(CopiedBy(r, Ops), target)
  BY <1>3, <1>4, <1>5 DEF Bijection, Injection, IsInjective, Surjection
<1>7. ExistsBijection(target, CopiedBy(r, Ops))
  <2>1. ExistsBijection(CopiedBy(r, Ops), target)
    BY <1>6 DEF ExistsBijection
  <2>2. QED
    BY <2>1, Fun_ExistsBijSymmetric
<1>8. QED
  BY <1>1, <1>7, FS_Bijection

(* Nothing is copied while nothing is issued.                              *)
LEMMA NoneCopied ==
  ASSUME NEW r
  PROVE  IsFiniteSet(CopiedBy(r, {})) /\ Cardinality(CopiedBy(r, {})) = 0
<1>1. CopiedBy(r, {}) = {}
  BY DEF CopiedBy
<1>2. QED
  BY <1>1, FS_EmptySet

(* The counters.                                                           *)
LEMMA BytesNext == BytesInv /\ [Next]_vars => BytesInv'
<1> SUFFICES ASSUME BytesInv, [Next]_vars PROVE BytesInv'
  OBVIOUS
<1>1. ASSUME NEW o \in Ops, Issue(o)
      PROVE  BytesInv'
  <2>1. /\ o \notin issued /\ call = "running" /\ call' = call
        /\ issued' = issued \cup {o} /\ issued' \subseteq Ops
        /\ moved' = [moved EXCEPT ![o.r] = @ + Counted(o)]
    BY <1>1 DEF Issue, Enqueue, BytesInv
  <2>2. o.r \in Ranks
    BY DEF Ops
  <2>3. ASSUME NEW r \in Ranks
        PROVE  /\ IsFiniteSet(CopiedBy(r, issued \cup {o}))
               /\ moved'[r] = Cardinality(CopiedBy(r, issued \cup {o}))
    <3>1. /\ issued \in SUBSET Ops /\ IsFiniteSet(CopiedBy(r, issued))
          /\ moved[r] = Cardinality(CopiedBy(r, issued))
      BY DEF BytesInv
    <3>2. /\ IsFiniteSet(CopiedBy(r, issued \cup {o}))
          /\ Cardinality(CopiedBy(r, issued \cup {o})) =
               Cardinality(CopiedBy(r, issued)) + (IF o.r = r THEN Counted(o) ELSE 0)
      BY <2>1, <3>1, OneMoreCopied
    <3>3. moved[r] \in Nat
      BY <3>1, FS_CardinalityType
    <3>4. moved'[r] = moved[r] + (IF o.r = r THEN Counted(o) ELSE 0)
      BY <2>1, <2>2, <3>3 DEF BytesInv
    <3>5. QED
      BY <3>1, <3>2, <3>4
  <2>4. moved' = [r \in Ranks |-> moved'[r]]
    BY <2>1, <2>2 DEF BytesInv
  <2>5. QED
    BY <2>1, <2>3, <2>4 DEF BytesInv
<1>2. ASSUME UNCHANGED <<issued, moved>>, call' = call \/ issued = Ops
      PROVE  BytesInv'
  BY <1>2 DEF BytesInv
<1>3. ASSUME NEW o \in Ops, Begin(o) \/ End(o)
      PROVE  BytesInv'
  BY <1>2, <1>3 DEF Begin, End, DeviceBegin, DeviceEnd
<1>4. CASE Return \/ UNCHANGED vars
  BY <1>2, <1>4 DEF Return, vars, cudaVars
<1>5. CASE CallAgain
  <2>1. issued' = {} /\ moved' = [r \in Ranks |-> 0] /\ call' = "running"
    BY <1>5 DEF CallAgain, CudaReset
  <2>2. QED
    BY <2>1, NoneCopied DEF BytesInv
<1>6. QED
  BY <1>1, <1>3, <1>4, <1>5 DEF Next, Host, Device

(* What a rank has copied when the call returns is 2(N-1)/N of the tensor, *)
(* as the header predicts and the CSV prints, in all three versions, for   *)
(* every number of ranks and every chunk size, and whatever the number of  *)
(* subchunks leaves over for the last one.                                 *)
THEOREM BytesAsPredicted == Safety => []BytesMatchPrediction
<1>1. Init => BytesInv
  <2> SUFFICES ASSUME Init PROVE BytesInv
    OBVIOUS
  <2>1. issued = {} /\ moved = [r \in Ranks |-> 0] /\ call = "running"
    BY DEF Init, CudaQuiet
  <2>2. QED
    BY <2>1, NoneCopied DEF BytesInv
<1>2. BytesInv /\ [Next]_vars => BytesInv'
  BY BytesNext
<1>3. BytesInv => BytesMatchPrediction
  <2> SUFFICES ASSUME BytesInv, call = "returned", NEW r \in Ranks
               PROVE  N * moved[r] = 2 * (N - 1) * (N * Chunk)
    BY DEF BytesMatchPrediction
  <2>1. moved[r] = 2 * (N - 1) * Chunk
    BY AllCopied DEF BytesInv
  <2>2. \A a, b, c \in Nat : a * (2 * b * c) = 2 * b * (a * c)
    OBVIOUS
  <2>3. N \in Nat /\ N - 1 \in Nat /\ Chunk \in Nat
    BY NAssumption, SubchunksFit
  <2>4. QED
    BY <2>1, <2>2, <2>3
<1>4. QED
  BY <1>1, <1>2, <1>3, PTL DEF Safety
=============================================================================
