---------------------------- MODULE RingSchedule ----------------------------
(***************************************************************************)
(* The schedule of the ring AllReduce of ring_allreduce.cu: ring positions *)
(* 0 .. N-1, a tensor of N chunks, N-1 ReduceScatter steps and N-1         *)
(* AllGather steps, and which chunk a rank sends and receives in each.     *)
(***************************************************************************)
EXTENDS Integers

CONSTANT N      \* ranks in the ring

(* One rank has nothing to exchange: every loop of the algorithms is empty *)
(* then.                                                                   *)
ASSUME NAssumption == N \in Nat /\ N >= 2

Ranks  == 0 .. N - 1
Chunks == 0 .. N - 1
Steps  == 0 .. N - 2

NextRank(r) == (r + 1) % N
PrevRank(r) == (r - 1 + N) % N

(* The slips the index arithmetic invites.                                 *)
RSRecvUnwrapped(r, s) == r - s - 1
AGSendUnshifted(r, s) == (r - s + N) % N

RSSend(r, s) == (r - s + N) % N
RSRecv(r, s) == (r - s - 1 + N) % N
AGSend(r, s) == (r - s + 1 + N) % N

(***************************************************************************)
(* Device memory: slot c of the tensor on rank r, and the staging buffer   *)
(* of one step on rank r, one chunk long each.                             *)
(***************************************************************************)
Buf(r, c)   == [space |-> "buf",   rank |-> r, slot |-> c]
Stage(s, r) == [space |-> "stage", rank |-> r, slot |-> s]

Bufs   == [space : {"buf"},   rank : Ranks, slot : Chunks]
Stages == [space : {"stage"}, rank : Ranks, slot : Steps]
Locs   == Bufs \cup Stages

(***************************************************************************)
(* What an element of the tensor holds, told apart only by whose input it  *)
(* has been summed from and how often: v[q] counts rank q's contribution.  *)
(***************************************************************************)
Values == [Ranks -> Nat]
Own(r)     == [q \in Ranks |-> IF q = r THEN 1 ELSE 0]
AllOnce    == [q \in Ranks |-> 1]
Leftover   == [q \in Ranks |-> 0]     \* staging content of no use to this call
Plus(u, v) == [q \in Ranks |-> u[q] + v[q]]
=============================================================================
