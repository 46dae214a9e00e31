----------------------------- MODULE ChunkRelay -----------------------------
(***************************************************************************)
(* What one call of a ring AllReduce promises, without streams, staging or *)
(* steps: on every chunk, independently, each rank adds its own input once *)
(* to the sum its predecessor on the ring holds, starting from the rank    *)
(* the chunk is numbered after, and only a complete sum is passed on.      *)
(* Each hop is one step: what is left of the loops of ringAllReduceV1 when *)
(* a copy and the reduction of what it brought count as one, and nothing   *)
(* orders the chunks.  v1, v2 and v3 are shown to implement it, element by *)
(* element.                                                                *)
(***************************************************************************)
EXTENDS RingSchedule

VARIABLES
  held,  \* held[q][c]: what rank q holds in slot c
  call   \* "running" or "returned"

vars == <<held, call>>

Inputs == [q \in Ranks |-> [c \in Chunks |-> Own(q)]]

Init ==
  /\ held = Inputs
  /\ call = "running"

(* Rank q holds a sum of chunk c: it starts it, or has added to it.        *)
Summed(q, c) == q = c \/ held[q][c] # Own(q)

Put(q, c, v) ==
  /\ held' = [held EXCEPT ![q] = [held[q] EXCEPT ![c] = v]]
  /\ UNCHANGED call

Add(q, c) ==
  /\ call = "running"
  /\ ~Summed(q, c)
  /\ Summed(PrevRank(q), c)
  /\ Put(q, c, Plus(held[q][c], held[PrevRank(q)][c]))

Pass(q, c) ==
  /\ call = "running"
  /\ held[PrevRank(q)][c] = AllOnce
  /\ Put(q, c, AllOnce)

Return ==
  /\ call = "running"
  /\ \A q \in Ranks, c \in Chunks : held[q][c] = AllOnce
  /\ call' = "returned"
  /\ UNCHANGED held

CallAgain ==
  /\ call = "returned"
  /\ held' = Inputs
  /\ call' = "running"

Next ==
  \/ \E q \in Ranks, c \in Chunks : Add(q, c) \/ Pass(q, c)
  \/ Return
  \/ CallAgain

Spec == Init /\ [][Next]_vars
=============================================================================
