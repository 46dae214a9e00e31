------------------------- MODULE RingScheduleProofs -------------------------
(***************************************************************************)
(* The index arithmetic of the ring schedule, without the remainders, for  *)
(* any number of ranks.                                                    *)
(***************************************************************************)
EXTENDS RingSchedule, TLAPS

(* The remainders of the numbers the index expressions range over.         *)
LEMMA Remainder ==
  \A x \in 0 .. 2 * N : x % N = IF x < N THEN x
                                ELSE IF x < 2 * N THEN x - N ELSE 0
  BY NAssumption

(* The successor and the predecessor on the ring are ranks, and inverse.   *)
LEMMA Neighbours ==
  \A r \in Ranks :
    /\ NextRank(r) = IF r = N - 1 THEN 0 ELSE r + 1
    /\ PrevRank(r) = IF r = 0 THEN N - 1 ELSE r - 1
    /\ NextRank(r) \in Ranks /\ PrevRank(r) \in Ranks
    /\ PrevRank(NextRank(r)) = r /\ NextRank(PrevRank(r)) = r
<1> TAKE r \in Ranks
<1>1. NextRank(r) = IF r = N - 1 THEN 0 ELSE r + 1
  BY NAssumption, Remainder DEF Ranks, NextRank
<1>2. PrevRank(r) = IF r = 0 THEN N - 1 ELSE r - 1
  BY NAssumption, Remainder DEF Ranks, PrevRank
<1>3. NextRank(r) \in Ranks /\ PrevRank(r) \in Ranks
  BY <1>1, <1>2, NAssumption DEF Ranks
<1>4. PrevRank(NextRank(r)) = IF NextRank(r) = 0 THEN N - 1 ELSE NextRank(r) - 1
  BY <1>3, NAssumption, Remainder DEF Ranks, PrevRank
<1>5. NextRank(PrevRank(r)) = IF PrevRank(r) = N - 1 THEN 0 ELSE PrevRank(r) + 1
  BY <1>3, NAssumption, Remainder DEF Ranks, NextRank
<1>6. PrevRank(NextRank(r)) = r /\ NextRank(PrevRank(r)) = r
  BY <1>1, <1>2, <1>4, <1>5, NAssumption DEF Ranks
<1> QED
  BY <1>1, <1>2, <1>3, <1>6

(* Which chunk a rank sends and receives in a step.                        *)
LEMMA Indices ==
  \A r \in Ranks, s \in Steps :
    /\ RSSend(r, s) = IF s <= r THEN r - s ELSE r - s + N
    /\ RSRecv(r, s) = IF s < r THEN r - s - 1 ELSE r - s - 1 + N
    /\ AGSend(r, s) = IF r - s + 1 = N THEN 0
                      ELSE IF s <= r + 1 THEN r - s + 1 ELSE r - s + 1 + N
    /\ RSSend(r, s) \in Chunks
    /\ RSRecv(r, s) \in Chunks
    /\ AGSend(r, s) \in Chunks
<1> TAKE r \in Ranks, s \in Steps
<1>1. RSSend(r, s) = IF s <= r THEN r - s ELSE r - s + N
  BY NAssumption, Remainder DEF Ranks, Steps, RSSend
<1>2. RSRecv(r, s) = IF s < r THEN r - s - 1 ELSE r - s - 1 + N
  BY NAssumption, Remainder DEF Ranks, Steps, RSRecv
<1>3. AGSend(r, s) = IF r - s + 1 = N THEN 0
                     ELSE IF s <= r + 1 THEN r - s + 1 ELSE r - s + 1 + N
  BY NAssumption, Remainder DEF Ranks, Steps, AGSend
<1> QED
  BY <1>1, <1>2, <1>3, NAssumption DEF Ranks, Steps, Chunks

(* How the indices of one operation meet those of the operation before it  *)
(* on the same chunk: what a rank sends in a step it received in the step  *)
(* before, and what it receives its predecessor sends.                     *)
LEMMA Relay ==
  ASSUME NEW r \in Ranks, NEW s \in Steps
  PROVE  /\ RSSend(PrevRank(r), s) = RSRecv(r, s)
         /\ s > 0 => s - 1 \in Steps /\ RSRecv(r, s - 1) = RSSend(r, s)
         /\ N - 2 \in Steps /\ RSRecv(r, N - 2) = AGSend(r, 0)
         /\ s > 0 => AGSend(PrevRank(r), s - 1) = AGSend(r, s)
<1> DEFINE p == PrevRank(r)
<1>1. p \in Ranks /\ p = IF r = 0 THEN N - 1 ELSE r - 1
  BY Neighbours
<1> HIDE DEF p
<1>2. RSSend(p, s) = RSRecv(r, s)
  <2>1. RSSend(p, s) = IF s <= p THEN p - s ELSE p - s + N
    BY <1>1, Indices
  <2>2. RSRecv(r, s) = IF s < r THEN r - s - 1 ELSE r - s - 1 + N
    BY Indices
  <2> QED
    BY <1>1, <2>1, <2>2, NAssumption DEF Ranks, Steps
<1>3. ASSUME s > 0
      PROVE  s - 1 \in Steps /\ RSRecv(r, s - 1) = RSSend(r, s)
  <2>1. s - 1 \in Steps
    BY <1>3, NAssumption DEF Steps
  <2>2. RSRecv(r, s - 1) = IF s - 1 < r THEN r - (s - 1) - 1 ELSE r - (s - 1) - 1 + N
    BY <2>1, Indices
  <2>3. RSSend(r, s) = IF s <= r THEN r - s ELSE r - s + N
    BY Indices
  <2> QED
    BY <2>1, <2>2, <2>3, NAssumption DEF Ranks, Steps
<1>4. N - 2 \in Steps /\ RSRecv(r, N - 2) = AGSend(r, 0)
  <2>1. N - 2 \in Steps /\ 0 \in Steps
    BY NAssumption DEF Steps
  <2>2. RSRecv(r, N - 2) = IF N - 2 < r THEN r - (N - 2) - 1 ELSE r - (N - 2) - 1 + N
    BY <2>1, Indices
  <2>3. AGSend(r, 0) = IF r - 0 + 1 = N THEN 0
                       ELSE IF 0 <= r + 1 THEN r - 0 + 1 ELSE r - 0 + 1 + N
    BY <2>1, Indices
  <2> QED
    BY <2>1, <2>2, <2>3, NAssumption DEF Ranks
<1>5. ASSUME s > 0
      PROVE  AGSend(p, s - 1) = AGSend(r, s)
  <2>1. s - 1 \in Steps
    BY <1>5, NAssumption DEF Steps
  <2>2. AGSend(p, s - 1) = IF p - (s - 1) + 1 = N THEN 0
                           ELSE IF s - 1 <= p + 1 THEN p - (s - 1) + 1
                                ELSE p - (s - 1) + 1 + N
    BY <1>1, <2>1, Indices
  <2>3. AGSend(r, s) = IF r - s + 1 = N THEN 0
                       ELSE IF s <= r + 1 THEN r - s + 1 ELSE r - s + 1 + N
    BY Indices
  <2> QED
    BY <1>1, <1>5, <2>2, <2>3, NAssumption DEF Ranks, Steps
<1> QED
  BY <1>2, <1>3, <1>4, <1>5 DEF p

(* In one step no two ranks send, or receive, the same chunk.              *)
LEMMA OneRankPerChunk ==
  ASSUME NEW r \in Ranks, NEW q \in Ranks, NEW s \in Steps
  PROVE  /\ RSSend(r, s) = RSSend(q, s) => r = q
         /\ RSRecv(r, s) = RSRecv(q, s) => r = q
         /\ AGSend(r, s) = AGSend(q, s) => r = q
<1>1. /\ RSSend(r, s) = IF s <= r THEN r - s ELSE r - s + N
      /\ RSSend(q, s) = IF s <= q THEN q - s ELSE q - s + N
  BY Indices
<1>2. /\ RSRecv(r, s) = IF s < r THEN r - s - 1 ELSE r - s - 1 + N
      /\ RSRecv(q, s) = IF s < q THEN q - s - 1 ELSE q - s - 1 + N
  BY Indices
<1>3. /\ AGSend(r, s) = IF r - s + 1 = N THEN 0
                        ELSE IF s <= r + 1 THEN r - s + 1 ELSE r - s + 1 + N
      /\ AGSend(q, s) = IF q - s + 1 = N THEN 0
                        ELSE IF s <= q + 1 THEN q - s + 1 ELSE q - s + 1 + N
  BY Indices
<1>4. RSSend(r, s) = RSSend(q, s) => r = q
  BY <1>1, NAssumption DEF Ranks, Steps
<1>5. RSRecv(r, s) = RSRecv(q, s) => r = q
  BY <1>2, NAssumption DEF Ranks, Steps
<1>6. AGSend(r, s) = AGSend(q, s) => r = q
  BY <1>3, NAssumption DEF Ranks, Steps
<1> QED
  BY <1>4, <1>5, <1>6
=============================================================================
