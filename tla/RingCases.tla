------------------------------ MODULE RingCases ------------------------------
(***************************************************************************)
(* The cases main makes of one size: v1-naive, v2-async and v3-pipelined,  *)
(* on the same buffers, streams and events, one after the other and again  *)
(* in the next repeat, each from what ringReset leaves.  With --impl one   *)
(* of them follows itself.  nccl-reference is not a ring.                  *)
(***************************************************************************)
EXTENDS RingSchedule, CudaStreams

CONSTANTS
  Sub,    \* the argument of v3, the number of subchunks
  Chunk   \* elements per chunk

VARIABLES
  impl,   \* the case of the call in progress
  mem, moved, call

vars == <<impl, cudaVars, mem, moved, call>>

V1 == INSTANCE RingAllReduce WITH Version <- "v1"
V2 == INSTANCE RingAllReduce WITH Version <- "v2"
V3 == INSTANCE RingAllReduce WITH Version <- "v3"

Cases == {"v1", "v2", "v3"}
After(c) == CASE c = "v1" -> "v2" [] c = "v2" -> "v3" [] c = "v3" -> "v1"

Init == impl \in Cases /\ V1!Init

InCall ==
  /\ \/ impl = "v1" /\ V1!Next
     \/ impl = "v2" /\ V2!Next
     \/ impl = "v3" /\ V3!Next
  /\ UNCHANGED impl
NextCase ==
  /\ V1!CallAgain
  /\ impl' = After(impl)

Next == InCall \/ NextCase
Safety == Init /\ [][Next]_vars

-----------------------------------------------------------------------------
(* None of the three has a data race, whatever it finds behind it: the     *)
(* host's order of conflicting operations is that of the devices, by v1's  *)
(* synchronisations, by v2's events, and by those v3 records again for     *)
(* every subchunk.                                                         *)
ConflictsInHostOrder ==
  /\ impl = "v1" => V1!ConflictsInHostOrder
  /\ impl = "v2" => V2!ConflictsInHostOrder
  /\ impl = "v3" => V3!ConflictsInHostOrder

(* What verify checks after every case, the remainder of a chunk that the  *)
(* subchunks do not divide included.                                       *)
AllReduceCorrect == V1!AllReduceCorrect

(* Seen through one element, each call is the same relay: what a case of   *)
(* the table is compared with is another way to do the same.               *)
ImplementsRelay == V1!ImplementsRelay
=============================================================================
