------------------------- MODULE OverlapBenchProofs -------------------------
(***************************************************************************)
(* For any number of devices, any sizes, ratios and bucket sizes, and any  *)
(* number of iterations of timeUs: the sequential baseline of              *)
(* overlap_bench.cu is sequential, calls of a body do not mix, elapsed()   *)
(* reads the work of one call; and rows that share a name are repeats.     *)
(*                                                                         *)
(* The bodies are concatenations.  What matters of one is which calls are  *)
(* in it, that none is twice, and what comes behind what, and that         *)
(* follows from the same of its parts.                                     *)
(***************************************************************************)
EXTENDS OverlapResults, FiniteSetTheorems, FunctionTheorems, SequenceTheorems,
        WellFoundedInduction, TLAPS

Has(s, x) == \E k \in 1 .. Len(s) : s[k] = x
NoRepeats(s) == \A j, k \in 1 .. Len(s) : s[j] = s[k] => j = k

(* Behind every x there is a y.                                            *)
FollowedBy(s, x, y) ==
  \A k \in 1 .. Len(s) : s[k] = x => \E j \in k + 1 .. Len(s) : s[j] = y
(* Every x is before every y.                                              *)
Precedes(s, x, y) == \A k, l \in 1 .. Len(s) : s[k] = x /\ s[l] = y => k < l

-----------------------------------------------------------------------------
(* A set of natural numbers that is not empty has a least element.         *)
LEMMA Least ==
  ASSUME NEW T, T \subseteq Nat, T # {}
  PROVE  \E x \in T : \A y \in T : x <= y
<1> DEFINE R == OpToRel(<, Nat)
<1>1. IsWellFoundedOn(R, Nat)
  BY NatLessThanWellFounded
<1>2. PICK x \in T : \A y \in T : ~(<<y, x>> \in R)
  <2> HIDE DEF R
  <2>1. QED
    BY <1>1, WFMin
<1>3. \A y \in T : ~(y < x)
  <2>1. ASSUME NEW y \in T, y < x
        PROVE  <<y, x>> \in R
    <3>1. <<y, x>> \in Nat \X Nat
      OBVIOUS
    <3>2. QED
      BY <2>1, <3>1 DEF OpToRel
  <2>2. QED
    BY <1>2, <2>1
<1>4. QED
  BY <1>3

-----------------------------------------------------------------------------
(* Concatenation: what is at a place of it,                                *)
LEMMA Joined ==
  ASSUME NEW S, NEW s \in Seq(S), NEW t \in Seq(S)
  PROVE  /\ s \o t \in Seq(S) /\ Len(s \o t) = Len(s) + Len(t)
         /\ \A k \in 1 .. Len(s) : (s \o t)[k] = s[k]
         /\ \A k \in 1 .. Len(t) : (s \o t)[Len(s) + k] = t[k]
         /\ \A k \in 1 .. Len(s) + Len(t) :
              k \in 1 .. Len(s) \/ (k - Len(s) \in 1 .. Len(t) /\ k = Len(s) + (k - Len(s)))
  OBVIOUS

(* what is in it,                                                          *)
LEMMA JoinedHas ==
  ASSUME NEW S, NEW s \in Seq(S), NEW t \in Seq(S), NEW x
  PROVE  Has(s \o t, x) <=> Has(s, x) \/ Has(t, x)
<1>1. ASSUME Has(s \o t, x) PROVE Has(s, x) \/ Has(t, x)
  <2>1. PICK k \in 1 .. Len(s) + Len(t) : (s \o t)[k] = x
    BY <1>1, Joined DEF Has
  <2>2. CASE k \in 1 .. Len(s)
    BY <2>1, <2>2, Joined DEF Has
  <2>3. CASE k - Len(s) \in 1 .. Len(t) /\ k = Len(s) + (k - Len(s))
    <3>1. (s \o t)[Len(s) + (k - Len(s))] = t[k - Len(s)]
      BY <2>3, Joined
    <3>2. QED
      BY <2>1, <2>3, <3>1 DEF Has
  <2>4. QED
    BY <2>2, <2>3, Joined
<1>2. ASSUME Has(s, x) PROVE Has(s \o t, x)
  <2>1. PICK k \in 1 .. Len(s) : s[k] = x
    BY <1>2 DEF Has
  <2>2. k \in 1 .. Len(s \o t) /\ (s \o t)[k] = x
    BY <2>1, Joined
  <2>3. QED
    BY <2>2 DEF Has
<1>3. ASSUME Has(t, x) PROVE Has(s \o t, x)
  <2>1. PICK k \in 1 .. Len(t) : t[k] = x
    BY <1>3 DEF Has
  <2>2. Len(s) + k \in 1 .. Len(s \o t) /\ (s \o t)[Len(s) + k] = x
    BY <2>1, Joined
  <2>3. QED
    BY <2>2 DEF Has
<1>4. QED
  BY <1>1, <1>2, <1>3

(* that nothing is twice,                                                  *)
LEMMA JoinedNoRepeats ==
  ASSUME NEW S, NEW s \in Seq(S), NEW t \in Seq(S), NoRepeats(s), NoRepeats(t),
         \A x \in S : ~(Has(s, x) /\ Has(t, x))
  PROVE  NoRepeats(s \o t)
<1> SUFFICES ASSUME NEW j \in 1 .. Len(s) + Len(t), NEW k \in 1 .. Len(s) + Len(t),
                    (s \o t)[j] = (s \o t)[k]
             PROVE  j = k
  BY Joined DEF NoRepeats
<1>1. \A i \in 1 .. Len(s) : s[i] \in S /\ Has(s, s[i])
  BY DEF Has
<1>2. \A i \in 1 .. Len(t) : t[i] \in S /\ Has(t, t[i])
  BY DEF Has
<1>3. \A i \in 1 .. Len(s), m \in 1 .. Len(t) : s[i] # t[m]
  BY <1>1, <1>2
<1>4. CASE j \in 1 .. Len(s) /\ k \in 1 .. Len(s)
  BY <1>4, Joined DEF NoRepeats
<1>5. CASE j \in 1 .. Len(s) /\ k - Len(s) \in 1 .. Len(t)
  <2>1. (s \o t)[j] = s[j] /\ (s \o t)[k] = t[k - Len(s)]
    BY <1>5, Joined
  <2>2. QED
    BY <1>3, <1>5, <2>1
<1>6. CASE j - Len(s) \in 1 .. Len(t) /\ k \in 1 .. Len(s)
  <2>1. (s \o t)[k] = s[k] /\ (s \o t)[j] = t[j - Len(s)]
    BY <1>6, Joined
  <2>2. QED
    BY <1>3, <1>6, <2>1
<1>7. CASE j - Len(s) \in 1 .. Len(t) /\ k - Len(s) \in 1 .. Len(t)
  <2>1. (s \o t)[j] = t[j - Len(s)] /\ (s \o t)[k] = t[k - Len(s)]
    BY <1>7, Joined
  <2>2. j - Len(s) = k - Len(s)
    BY <1>7, <2>1 DEF NoRepeats
  <2>3. QED
    BY <2>2
<1>8. QED
  BY <1>4, <1>5, <1>6, <1>7, Joined

(* and what comes behind what.                                             *)
LEMMA JoinedFollowed ==
  ASSUME NEW S, NEW s \in Seq(S), NEW t \in Seq(S), NEW x, NEW y,
         FollowedBy(s, x, y) \/ Has(t, y), FollowedBy(t, x, y)
  PROVE  FollowedBy(s \o t, x, y)
<1> SUFFICES ASSUME NEW k \in 1 .. Len(s) + Len(t), (s \o t)[k] = x
             PROVE  \E j \in k + 1 .. Len(s) + Len(t) : (s \o t)[j] = y
  BY Joined DEF FollowedBy
<1>1. CASE k \in 1 .. Len(s)
  <2>1. s[k] = x
    BY <1>1, Joined
  <2>2. CASE FollowedBy(s, x, y)
    <3>1. PICK j \in k + 1 .. Len(s) : s[j] = y
      BY <1>1, <2>1, <2>2 DEF FollowedBy
    <3>2. j \in 1 .. Len(s)
      OBVIOUS
    <3>3. (s \o t)[j] = y /\ j \in k + 1 .. Len(s) + Len(t)
      BY <3>1, <3>2, Joined
    <3>4. QED
      BY <3>3
  <2>3. CASE Has(t, y)
    <3>1. PICK j \in 1 .. Len(t) : t[j] = y
      BY <2>3 DEF Has
    <3>2. (s \o t)[Len(s) + j] = y /\ Len(s) + j \in k + 1 .. Len(s) + Len(t)
      BY <1>1, <3>1, Joined
    <3>3. QED
      BY <3>2
  <2>4. QED
    BY <2>2, <2>3
<1>2. CASE k - Len(s) \in 1 .. Len(t)
  <2>1. t[k - Len(s)] = x
    BY <1>2, Joined
  <2>2. PICK j \in (k - Len(s)) + 1 .. Len(t) : t[j] = y
    BY <1>2, <2>1 DEF FollowedBy
  <2>3. j \in 1 .. Len(t)
    BY <1>2
  <2>4. (s \o t)[Len(s) + j] = y /\ Len(s) + j \in k + 1 .. Len(s) + Len(t)
    BY <2>2, <2>3, Joined
  <2>5. QED
    BY <2>4
<1>3. QED
  BY <1>1, <1>2, Joined

(* and what comes before what.                                             *)
LEMMA JoinedPrecedes ==
  ASSUME NEW S, NEW s \in Seq(S), NEW t \in Seq(S), NEW x, NEW y, ~Has(t, x), ~Has(s, y)
  PROVE  Precedes(s \o t, x, y)
<1> SUFFICES ASSUME NEW k \in 1 .. Len(s) + Len(t), NEW l \in 1 .. Len(s) + Len(t),
                    (s \o t)[k] = x, (s \o t)[l] = y
             PROVE  k < l
  BY Joined DEF Precedes
<1>1. k \in 1 .. Len(s)
  <2>1. ASSUME k - Len(s) \in 1 .. Len(t), k = Len(s) + (k - Len(s)) PROVE FALSE
    <3>1. t[k - Len(s)] = x
      BY <2>1, Joined
    <3>2. QED
      BY <2>1, <3>1 DEF Has
  <2>2. QED
    BY <2>1, Joined
<1>2. l - Len(s) \in 1 .. Len(t)
  <2>1. ASSUME l \in 1 .. Len(s) PROVE FALSE
    BY <2>1, Joined DEF Has
  <2>2. QED
    BY <2>1, Joined
<1>3. QED
  BY <1>1, <1>2

-----------------------------------------------------------------------------
(* FlattenSeq: the recursive function it is defined by exists,             *)
Flattening(p, n, f) == f = [i \in 1 .. n |-> IF i = 1 THEN p[i] ELSE f[i - 1] \o p[i]]

(* The concatenation of a list of lists is built list by list: there is a  *)
(* function of the prefixes.                                               *)
LEMMA FlatteningExists ==
  ASSUME NEW p, NEW n \in Nat
  PROVE  \E f : Flattening(p, n, f)
<1> DEFINE T == {m \in Nat : ~\E f : Flattening(p, m, f)}
<1> SUFFICES ASSUME T # {} PROVE FALSE
  OBVIOUS
<1>1. PICK m \in T : \A y \in T : m <= y
  <2> HIDE DEF T
  <2>1. T \subseteq Nat
    BY DEF T
  <2>2. QED
    BY <2>1, Least
<1>2. CASE m = 0
  <2> DEFINE f == [i \in 1 .. 0 |-> p[i]]
  <2>1. Flattening(p, 0, f)
    BY DEF Flattening
  <2>2. QED
    BY <1>1, <1>2, <2>1
<1>3. CASE m # 0
  <2>1. m \in Nat /\ m - 1 \in Nat /\ m - 1 \notin T
    BY <1>1, <1>3
  <2>2. PICK f : Flattening(p, m - 1, f)
    BY <2>1
  <2> DEFINE g == [i \in 1 .. m |->
                      IF i = m THEN IF m = 1 THEN p[m] ELSE f[m - 1] \o p[m] ELSE f[i]]
  <2>3. \A i \in 1 .. m - 1 : f[i] = IF i = 1 THEN p[i] ELSE f[i - 1] \o p[i]
    BY <2>2 DEF Flattening
  <2>4. \A i \in 1 .. m : g[i] = IF i = 1 THEN p[i] ELSE g[i - 1] \o p[i]
    <3> TAKE i \in 1 .. m
    <3>1. CASE i = m
      BY <2>1, <3>1
    <3>2. CASE i # m
      <4>1. i \in 1 .. m - 1 /\ g[i] = f[i] /\ (i # 1 => g[i - 1] = f[i - 1])
        BY <2>1, <3>2
      <4>2. QED
        BY <2>3, <4>1
    <3>3. QED
      BY <3>1, <3>2
  <2>5. Flattening(p, m, g)
    <3>1. g = [i \in 1 .. m |-> g[i]]
      OBVIOUS
    <3> HIDE DEF g
    <3>2. QED
      BY <2>4, <3>1 DEF Flattening
  <2>6. QED
    BY <1>1, <2>1, <2>5
<1>4. QED
  BY <1>2, <1>3

(* so that every concatenation of sequences is a sequence, what is in it   *)
(* is in one of them, and nothing is twice in it if nothing is in two of   *)
(* them or twice in one.                                                   *)
Part(p, i, s) ==
  /\ \A x : Has(s, x) <=> \E m \in 1 .. i : Has(p[m], x)
Apart(p) ==
  /\ \A i \in 1 .. Len(p) : NoRepeats(p[i])
  /\ \A i, j \in 1 .. Len(p) : i # j => \A x : ~(Has(p[i], x) /\ Has(p[j], x))

(* What holds of the concatenation of the first lists, by the number of    *)
(* them.                                                                   *)
LEMMA FlattenedParts ==
  ASSUME NEW S, NEW p \in Seq(Seq(S)), NEW f, Flattening(p, Len(p), f)
  PROVE  \A i \in 1 .. Len(p) :
           /\ f[i] \in Seq(S) /\ Part(p, i, f[i])
           /\ Apart(p) => NoRepeats(f[i])
<1> DEFINE Good(i) == f[i] \in Seq(S) /\ Part(p, i, f[i]) /\ (Apart(p) => NoRepeats(f[i]))
           T == {i \in 1 .. Len(p) : ~Good(i)}
<1>0. \A i \in 1 .. Len(p) : f[i] = IF i = 1 THEN p[i] ELSE f[i - 1] \o p[i]
  BY DEF Flattening
<1> SUFFICES ASSUME T # {} PROVE FALSE
  OBVIOUS
<1>1. PICK i \in T : \A y \in T : i <= y
  <2> HIDE DEF T
  <2>1. T \subseteq Nat
    BY DEF T
  <2>2. QED
    BY <2>1, Least
<1>2. i \in 1 .. Len(p) /\ p[i] \in Seq(S)
  OBVIOUS
<1>3. CASE i = 1
  <2>1. f[i] = p[i]
    BY <1>0, <1>2, <1>3
  <2>2. Part(p, 1, p[1])
    BY DEF Part
  <2>3. Apart(p) => NoRepeats(p[i])
    BY <1>2 DEF Apart
  <2>4. Good(i)
    BY <1>2, <1>3, <2>1, <2>2, <2>3
  <2>5. QED
    BY <2>4
<1>4. CASE i # 1
  <2>1. i - 1 \in 1 .. Len(p) /\ i - 1 \notin T
    BY <1>1, <1>2, <1>4
  <2>2. Good(i - 1)
    BY <2>1
  <2>3. f[i] = f[i - 1] \o p[i]
    BY <1>0, <1>2, <1>4
  <2> DEFINE s == f[i - 1]
  <2>4. s \in Seq(S) /\ Part(p, i - 1, s) /\ (Apart(p) => NoRepeats(s))
    BY <2>2
  <2> HIDE DEF s
  <2>5. f[i] \in Seq(S)
    BY <1>2, <2>3, <2>4, Joined DEF s
  <2>6. Part(p, i, f[i])
    <3> SUFFICES ASSUME NEW x PROVE Has(f[i], x) <=> \E m \in 1 .. i : Has(p[m], x)
      BY DEF Part
    <3>1. Has(f[i], x) <=> Has(s, x) \/ Has(p[i], x)
      BY <1>2, <2>3, <2>4, JoinedHas DEF s
    <3>2. Has(s, x) <=> \E m \in 1 .. i - 1 : Has(p[m], x)
      BY <2>4 DEF Part
    <3>3. \A m : m \in 1 .. i <=> m \in 1 .. i - 1 \/ m = i
      BY <1>2
    <3>4. QED
      BY <3>1, <3>2, <3>3
  <2>7. ASSUME Apart(p) PROVE NoRepeats(f[i])
    <3>1. NoRepeats(s) /\ NoRepeats(p[i])
      BY <1>2, <2>4, <2>7 DEF Apart
    <3>2. ASSUME NEW x \in S PROVE ~(Has(s, x) /\ Has(p[i], x))
      <4>1. Has(s, x) <=> \E m \in 1 .. i - 1 : Has(p[m], x)
        BY <2>4 DEF Part
      <4>2. \A m \in 1 .. i - 1 : m \in 1 .. Len(p) /\ m # i
        BY <1>2
      <4>3. \A m \in 1 .. i - 1 : ~(Has(p[m], x) /\ Has(p[i], x))
        BY <1>2, <2>7, <4>2 DEF Apart
      <4>4. QED
        BY <4>1, <4>3
    <3>3. NoRepeats(s \o p[i])
      BY <1>2, <2>4, <3>1, <3>2, JoinedNoRepeats
    <3>4. QED
      BY <2>3, <3>3 DEF s
  <2>8. Good(i)
    BY <2>5, <2>6, <2>7
  <2>9. QED
    BY <2>8
<1>5. QED
  BY <1>3, <1>4

(* The concatenation of lists has what they have, and nothing twice if     *)
(* nothing is in two of them or twice in one.                              *)
LEMMA Flattened ==
  ASSUME NEW S, NEW p \in Seq(Seq(S))
  PROVE  /\ FlattenSeq(p) \in Seq(S)
         /\ \A x : Has(FlattenSeq(p), x) <=> \E i \in 1 .. Len(p) : Has(p[i], x)
         /\ Apart(p) => NoRepeats(FlattenSeq(p))
<1>1. CASE Len(p) = 0
  <2>1. p = << >> /\ FlattenSeq(p) = << >>
    BY <1>1 DEF FlattenSeq
  <2>2. << >> \in Seq(S) /\ Len(<< >>) = 0 /\ 1 .. 0 = {}
    OBVIOUS
  <2>3. /\ \A x : ~Has(<< >>, x)
        /\ NoRepeats(<< >>)
    BY <2>2 DEF Has, NoRepeats
  <2>4. ~\E i \in 1 .. Len(p) : TRUE
    BY <1>1
  <2>5. QED
    BY <2>1, <2>2, <2>3, <2>4
<1>2. CASE Len(p) # 0
  <2> DEFINE f == CHOOSE f : Flattening(p, Len(p), f)
  <2>1. Len(p) \in Nat \ {0} /\ Len(p) \in 1 .. Len(p)
    BY <1>2
  <2>2. Flattening(p, Len(p), f)
    BY <2>1, FlatteningExists
  <2>3. FlattenSeq(p) = f[Len(p)]
    BY <1>2, Zenon DEF FlattenSeq, Flattening
  <2> HIDE DEF f
  <2>4. /\ f[Len(p)] \in Seq(S) /\ Part(p, Len(p), f[Len(p)])
        /\ Apart(p) => NoRepeats(f[Len(p)])
    BY <2>1, <2>2, FlattenedParts
  <2>5. QED
    BY <2>3, <2>4 DEF Part
<1>3. QED
  BY <1>1, <1>2

-----------------------------------------------------------------------------
(* The calls of a body, and a list of calls: these and no others, none     *)
(* twice.                                                                  *)
Calls ==
  ({"launch"} \X OpKinds \X Devices \X Nat) \cup ({"sync"} \X Streams \X Devices \X {0})
IsList(s, T) == s \in Seq(Calls) /\ (\A x : Has(s, x) <=> x \in T) /\ NoRepeats(s)

Launches(what, d, stages) == {<<"launch", what, d, b>> : b \in stages}
Work(what, stages) == UNION {Launches(what, d, stages) : d \in Devices}
Records(kinds) == {<<"launch", e, d, 0>> : e \in kinds, d \in Devices}
Syncs(streams) == {<<"sync", s, d, 0>> : s \in streams, d \in Devices}

(* Two lists of different calls, one behind the other,                     *)
LEMMA ListJoined ==
  ASSUME NEW s, NEW t, NEW T, NEW U, IsList(s, T), IsList(t, U), T \cap U = {}
  PROVE  IsList(s \o t, T \cup U)
<1>1. s \in Seq(Calls) /\ t \in Seq(Calls)
  BY DEF IsList
<1>2. s \o t \in Seq(Calls)
  BY <1>1, Joined
<1>3. \A x : Has(s \o t, x) <=> Has(s, x) \/ Has(t, x)
  BY <1>1, JoinedHas
<1>4. NoRepeats(s) /\ NoRepeats(t) /\ \A x \in Calls : ~(Has(s, x) /\ Has(t, x))
  BY DEF IsList
<1>5. NoRepeats(s \o t)
  BY <1>1, <1>4, JoinedNoRepeats
<1>6. QED
  BY <1>2, <1>3, <1>5 DEF IsList

(* and a loop of lists of different calls.                                 *)
LEMMA ListFlattened ==
  ASSUME NEW n \in Nat, NEW p, NEW T, p = [i \in 1 .. n |-> p[i]],
         \A i \in 1 .. n : IsList(p[i], T[i]),
         \A i, j \in 1 .. n : i # j => T[i] \cap T[j] = {}
  PROVE  IsList(FlattenSeq(p), UNION {T[i] : i \in 1 .. n})
<1>1. \A i \in 1 .. n : p[i] \in Seq(Calls)
  BY DEF IsList
<1>2. p \in Seq(Seq(Calls)) /\ Len(p) = n
  BY <1>1
<1>3. Apart(p)
  <2>1. \A i \in 1 .. n : NoRepeats(p[i])
    BY DEF IsList
  <2>2. ASSUME NEW i \in 1 .. n, NEW j \in 1 .. n, i # j, NEW x
        PROVE  ~(Has(p[i], x) /\ Has(p[j], x))
    <3>1. (Has(p[i], x) <=> x \in T[i]) /\ (Has(p[j], x) <=> x \in T[j])
      BY DEF IsList
    <3>2. QED
      BY <2>2, <3>1
  <2>3. QED
    BY <1>2, <2>1, <2>2 DEF Apart
<1>4. \A x : Has(FlattenSeq(p), x) <=> \E i \in 1 .. n : Has(p[i], x)
  BY <1>2, Flattened
<1>5. \A i \in 1 .. n : \A x : Has(p[i], x) <=> x \in T[i]
  BY DEF IsList
<1>6. FlattenSeq(p) \in Seq(Calls) /\ NoRepeats(FlattenSeq(p))
  BY <1>2, <1>3, Flattened
<1>7. ASSUME NEW x PROVE Has(FlattenSeq(p), x) <=> x \in UNION {T[i] : i \in 1 .. n}
  BY <1>4, <1>5
<1>8. QED
  BY <1>6, <1>7 DEF IsList

(* One call, and none.                                                     *)
LEMMA OneCall ==
  /\ \A c \in Calls : IsList(<< c >>, {c})
  /\ IsList(<< >>, {})
<1>1. ASSUME NEW c \in Calls PROVE IsList(<< c >>, {c})
  <2>1. /\ << c >> \in Seq(Calls) /\ Len(<< c >>) = 1 /\ << c >>[1] = c
        /\ \A k : k \in 1 .. 1 <=> k = 1
    OBVIOUS
  <2>2. \A x : Has(<< c >>, x) <=> x \in {c}
    BY <2>1 DEF Has
  <2>3. QED
    BY <2>1, <2>2 DEF IsList, NoRepeats
<1>2. IsList(<< >>, {})
  <2>1. << >> \in Seq(Calls) /\ Len(<< >>) = 0 /\ 1 .. 0 = {}
    OBVIOUS
  <2>2. QED
    BY <2>1 DEF IsList, Has, NoRepeats
<1>3. QED
  BY <1>1, <1>2

(* A call for every device.                                                *)
LEMMA OnEveryDeviceList ==
  ASSUME NEW what \in Streams, NEW b \in Nat
  PROVE  IsList(OnEveryDevice("launch", what, b), Work(what, {b}))
<1> DEFINE s == OnEveryDevice("launch", what, b)
<1>1. NG \in Nat /\ Devices = 1 .. NG
  BY OverlapAssumption DEF Devices
<1>2. s = [d \in 1 .. NG |-> <<"launch", what, d, b>>]
  BY <1>1 DEF OnEveryDevice
<1>3. \A d \in 1 .. NG : <<"launch", what, d, b>> \in Calls
  BY <1>1 DEF Calls, OpKinds, Streams
<1>4. s \in Seq(Calls) /\ Len(s) = NG
  BY <1>1, <1>2, <1>3
<1> HIDE DEF s
<1>5. \A d \in 1 .. NG : s[d] = <<"launch", what, d, b>>
  BY <1>2
<1>6. \A x : Has(s, x) <=> x \in Work(what, {b})
  <2> TAKE x
  <2>1. x \in Work(what, {b}) <=> \E d \in 1 .. NG : x = <<"launch", what, d, b>>
    BY <1>1 DEF Work, Launches
  <2>2. QED
    BY <1>4, <1>5, <2>1 DEF Has
<1>7. NoRepeats(s)
  BY <1>4, <1>5 DEF NoRepeats
<1>8. QED
  BY <1>4, <1>6, <1>7 DEF s, IsList

(* The launches of all stages.                                             *)
LEMMA LaunchLists ==
  ASSUME NEW n \in Nat
  PROVE  /\ IsList(Loop(LaunchCompute, n), Work("compute", 1 .. n))
         /\ IsList(Loop(LaunchComm, n), Work("comm", 1 .. n))
         /\ IsList(Loop(LAMBDA b : LaunchCompute(b) \o LaunchComm(b), n),
                   Work("compute", 1 .. n) \cup Work("comm", 1 .. n))
<1>0. "compute" \in Streams /\ "comm" \in Streams /\ 1 .. n \subseteq Nat
  BY DEF Streams
<1> DEFINE T(what) == [b \in 1 .. n |-> Work(what, {b})]
           both == [b \in 1 .. n |-> Work("compute", {b}) \cup Work("comm", {b})]
<1>1. ASSUME NEW what \in Streams, NEW stream \in Streams, NEW b \in Nat, NEW c \in Nat,
             what # stream \/ b # c
      PROVE  Work(what, {b}) \cap Work(stream, {c}) = {}
  BY <1>1 DEF Work, Launches
<1>2. ASSUME NEW what PROVE UNION {T(what)[b] : b \in 1 .. n} = Work(what, 1 .. n)
  BY DEF Work, Launches
<1>3. UNION {both[b] : b \in 1 .. n} = Work("compute", 1 .. n) \cup Work("comm", 1 .. n)
  BY DEF Work, Launches
<1>4. IsList(Loop(LaunchCompute, n), Work("compute", 1 .. n))
  <2> DEFINE p == [b \in 1 .. n |-> LaunchCompute(b)]
  <2>1. \A b \in 1 .. n : IsList(p[b], T("compute")[b])
    BY <1>0, OnEveryDeviceList DEF LaunchCompute
  <2>2. \A i, j \in 1 .. n : i # j => T("compute")[i] \cap T("compute")[j] = {}
    BY <1>0, <1>1
  <2>3. p = [b \in 1 .. n |-> p[b]] /\ Loop(LaunchCompute, n) = FlattenSeq(p)
    BY DEF Loop
  <2> HIDE DEF p, T
  <2>4. IsList(FlattenSeq(p), UNION {T("compute")[b] : b \in 1 .. n})
    BY <2>1, <2>2, <2>3, ListFlattened
  <2>5. QED
    BY <1>2, <2>3, <2>4
<1>5. IsList(Loop(LaunchComm, n), Work("comm", 1 .. n))
  <2> DEFINE p == [b \in 1 .. n |-> LaunchComm(b)]
  <2>1. \A b \in 1 .. n : IsList(p[b], T("comm")[b])
    BY <1>0, OnEveryDeviceList DEF LaunchComm
  <2>2. \A i, j \in 1 .. n : i # j => T("comm")[i] \cap T("comm")[j] = {}
    BY <1>0, <1>1
  <2>3. p = [b \in 1 .. n |-> p[b]] /\ Loop(LaunchComm, n) = FlattenSeq(p)
    BY DEF Loop
  <2> HIDE DEF p, T
  <2>4. IsList(FlattenSeq(p), UNION {T("comm")[b] : b \in 1 .. n})
    BY <2>1, <2>2, <2>3, ListFlattened
  <2>5. QED
    BY <1>2, <2>3, <2>4
<1>6. IsList(Loop(LAMBDA b : LaunchCompute(b) \o LaunchComm(b), n),
             Work("compute", 1 .. n) \cup Work("comm", 1 .. n))
  <2> DEFINE p == [b \in 1 .. n |-> LaunchCompute(b) \o LaunchComm(b)]
  <2>1. ASSUME NEW b \in 1 .. n PROVE IsList(p[b], both[b])
    <3>1. /\ IsList(LaunchCompute(b), Work("compute", {b}))
          /\ IsList(LaunchComm(b), Work("comm", {b}))
      BY <1>0, OnEveryDeviceList DEF LaunchCompute, LaunchComm
    <3>2. Work("compute", {b}) \cap Work("comm", {b}) = {}
      BY <1>0, <1>1
    <3>3. QED
      BY <3>1, <3>2, ListJoined
  <2>2. ASSUME NEW i \in 1 .. n, NEW j \in 1 .. n, i # j PROVE both[i] \cap both[j] = {}
    <3>1. /\ Work("compute", {i}) \cap Work("compute", {j}) = {}
          /\ Work("compute", {i}) \cap Work("comm", {j}) = {}
          /\ Work("comm", {i}) \cap Work("compute", {j}) = {}
          /\ Work("comm", {i}) \cap Work("comm", {j}) = {}
      BY <1>0, <1>1, <2>2
    <3>2. QED
      BY <3>1
  <2>3. p = [b \in 1 .. n |-> p[b]]
    OBVIOUS
  <2>4. Loop(LAMBDA b : LaunchCompute(b) \o LaunchComm(b), n) = FlattenSeq(p)
    BY DEF Loop
  <2> HIDE DEF p, both
  <2>5. IsList(FlattenSeq(p), UNION {both[b] : b \in 1 .. n})
    BY <2>1, <2>2, <2>3, ListFlattened
  <2>6. QED
    BY <1>3, <2>4, <2>5
<1>7. QED
  BY <1>4, <1>5, <1>6

(* The synchronisations, and the records.                                  *)
LEMMA SyncList ==
  ASSUME NEW streams \in SUBSET Streams
  PROVE  IsList(SyncStreams(streams), Syncs(streams))
<1>0. NG \in Nat /\ Devices = 1 .. NG
  BY OverlapAssumption DEF Devices
<1> DEFINE first(d) == IF "compute" \in streams THEN << <<"sync", "compute", d, 0>> >> ELSE << >>
           second(d) == IF "comm" \in streams THEN << <<"sync", "comm", d, 0>> >> ELSE << >>
           p == [d \in 1 .. NG |-> first(d) \o second(d)]
           T == [d \in 1 .. NG |-> {<<"sync", s, d, 0>> : s \in streams}]
<1>1. ASSUME NEW d \in 1 .. NG PROVE IsList(p[d], T[d])
  <2>1. <<"sync", "compute", d, 0>> \in Calls /\ <<"sync", "comm", d, 0>> \in Calls
    BY <1>0 DEF Calls, Streams
  <2> DEFINE A == {<<"sync", s, d, 0>> : s \in streams \cap {"compute"}}
             B == {<<"sync", s, d, 0>> : s \in streams \cap {"comm"}}
  <2>2. IsList(first(d), A)
    <3>1. CASE "compute" \in streams
      <4>1. A = {<<"sync", "compute", d, 0>>}
        BY <3>1
      <4>2. QED
        BY <2>1, <3>1, <4>1, OneCall
    <3>2. CASE "compute" \notin streams
      <4>1. A = {}
        BY <3>2
      <4>2. QED
        BY <3>2, <4>1, OneCall
    <3>3. QED
      BY <3>1, <3>2
  <2>3. IsList(second(d), B)
    <3>1. CASE "comm" \in streams
      <4>1. B = {<<"sync", "comm", d, 0>>}
        BY <3>1
      <4>2. QED
        BY <2>1, <3>1, <4>1, OneCall
    <3>2. CASE "comm" \notin streams
      <4>1. B = {}
        BY <3>2
      <4>2. QED
        BY <3>2, <4>1, OneCall
    <3>3. QED
      BY <3>1, <3>2
  <2>4. A \cap B = {} /\ A \cup B = T[d]
    BY DEF Streams
  <2>5. p[d] = first(d) \o second(d)
    OBVIOUS
  <2> HIDE DEF first, second, A, B
  <2>6. IsList(first(d) \o second(d), A \cup B)
    BY <2>2, <2>3, <2>4, ListJoined
  <2>7. QED
    BY <2>4, <2>5, <2>6
<1>2. \A i, j \in 1 .. NG : i # j => T[i] \cap T[j] = {}
  OBVIOUS
<1>3. p = [d \in 1 .. NG |-> p[d]]
  OBVIOUS
<1>4. SyncStreams(streams) = FlattenSeq(p)
  BY DEF SyncStreams, Loop
<1>5. UNION {T[d] : d \in 1 .. NG} = Syncs(streams)
  BY <1>0 DEF Syncs
<1> HIDE DEF p, T
<1>6. IsList(FlattenSeq(p), UNION {T[d] : d \in 1 .. NG})
  BY <1>0, <1>1, <1>2, <1>3, ListFlattened
<1>7. QED
  BY <1>4, <1>5, <1>6

(* The records of the events.                                              *)
LEMMA RecordLists ==
  /\ IsList(RecordStart, Records({"compS", "commS"}))
  /\ IsList(RecordEnd, Records({"compE", "commE"}))
<1>0. NG \in Nat /\ Devices = 1 .. NG
  BY OverlapAssumption DEF Devices
<1>1. ASSUME NEW e \in OpKinds, NEW f \in OpKinds, e # f, NEW p,
             p = [d \in 1 .. NG |-> << <<"launch", e, d, 0>>, <<"launch", f, d, 0>> >>]
      PROVE  IsList(FlattenSeq(p), Records({e, f}))
  <2> DEFINE T == [d \in 1 .. NG |-> {<<"launch", e, d, 0>>, <<"launch", f, d, 0>>}]
  <2>1. ASSUME NEW d \in 1 .. NG PROVE IsList(p[d], T[d])
    <3>1. <<"launch", e, d, 0>> \in Calls /\ <<"launch", f, d, 0>> \in Calls
      BY <1>0 DEF Calls
    <3>2. p[d] = << <<"launch", e, d, 0>> >> \o << <<"launch", f, d, 0>> >>
      BY <1>1
    <3>3. {<<"launch", e, d, 0>>} \cap {<<"launch", f, d, 0>>} = {}
      BY <1>1
    <3>4. IsList(p[d], {<<"launch", e, d, 0>>} \cup {<<"launch", f, d, 0>>})
      <4> DEFINE c == <<"launch", e, d, 0>>
                 cc == <<"launch", f, d, 0>>
      <4>1. IsList(<< c >>, {c}) /\ IsList(<< cc >>, {cc})
        BY <3>1, OneCall
      <4>2. p[d] = << c >> \o << cc >> /\ {c} \cap {cc} = {}
        BY <3>2, <3>3
      <4> HIDE DEF c, cc
      <4>3. IsList(<< c >> \o << cc >>, {c} \cup {cc})
        BY <4>1, <4>2, ListJoined
      <4>4. QED
        BY <4>2, <4>3 DEF c, cc
    <3>5. T[d] = {<<"launch", e, d, 0>>} \cup {<<"launch", f, d, 0>>}
      OBVIOUS
    <3>6. QED
      BY <3>4, <3>5
  <2>2. \A i, j \in 1 .. NG : i # j => T[i] \cap T[j] = {}
    OBVIOUS
  <2>3. p = [d \in 1 .. NG |-> p[d]]
    BY <1>1
  <2>4. UNION {T[d] : d \in 1 .. NG} = Records({e, f})
    BY <1>0 DEF Records
  <2> HIDE DEF T
  <2>5. IsList(FlattenSeq(p), UNION {T[d] : d \in 1 .. NG})
    BY <1>0, <2>1, <2>2, <2>3, ListFlattened
  <2>6. QED
    BY <2>4, <2>5
<1>2. /\ "compS" \in OpKinds /\ "commS" \in OpKinds /\ "compE" \in OpKinds
      /\ "commE" \in OpKinds
  BY DEF OpKinds
<1>3. /\ RecordStart = FlattenSeq([d \in 1 .. NG |->
           << <<"launch", "compS", d, 0>>, <<"launch", "commS", d, 0>> >>])
      /\ RecordEnd = FlattenSeq([d \in 1 .. NG |->
           << <<"launch", "compE", d, 0>>, <<"launch", "commE", d, 0>> >>])
  BY DEF RecordStart, RecordEnd, Loop
<1>4. QED
  BY <1>1, <1>2, <1>3

-----------------------------------------------------------------------------
(* Concatenation is associative,                                           *)
LEMMA JoinedThrice ==
  ASSUME NEW S, NEW s \in Seq(S), NEW t \in Seq(S), NEW u \in Seq(S)
  PROVE  (s \o t) \o u = s \o (t \o u)
BY ConcatAssociative

(* and what is behind one does not change the order in it.                 *)
LEMMA PrecedesStays ==
  ASSUME NEW S, NEW s \in Seq(S), NEW t \in Seq(S), NEW x, NEW y,
         Precedes(s, x, y), ~Has(t, x), ~Has(t, y)
  PROVE  Precedes(s \o t, x, y)
<1> SUFFICES ASSUME NEW k \in 1 .. Len(s) + Len(t), NEW l \in 1 .. Len(s) + Len(t),
                    (s \o t)[k] = x, (s \o t)[l] = y
             PROVE  k < l
  BY Joined DEF Precedes
<1>1. ASSUME NEW i \in 1 .. Len(s) + Len(t), (s \o t)[i] \in {x, y}
      PROVE  i \in 1 .. Len(s)
  <2>1. ASSUME i - Len(s) \in 1 .. Len(t), i = Len(s) + (i - Len(s)) PROVE FALSE
    <3>1. t[i - Len(s)] = x \/ t[i - Len(s)] = y
      BY <1>1, <2>1, Joined
    <3>2. QED
      BY <2>1, <3>1 DEF Has
  <2>2. QED
    BY <2>1, Joined
<1>2. k \in 1 .. Len(s) /\ l \in 1 .. Len(s)
  BY <1>1
<1>3. s[k] = x /\ s[l] = y
  BY <1>2, Joined
<1>4. QED
  BY <1>2, <1>3 DEF Precedes

(* Whatever a body launches, it waits for at last.                         *)
Closed(s) ==
  \A x \in OpKinds : \A d \in Devices : \A b \in Nat :
    FollowedBy(s, <<"launch", x, d, b>>, <<"sync", StreamOf(x), d, 0>>)

(* Launches behind which there are the synchronisations of their streams.  *)
LEMMA SyncsClose ==
  ASSUME NEW s \in Seq(Calls), NEW streams \in SUBSET Streams,
         \A x \in OpKinds : \A d \in Devices : \A b \in Nat :
           Has(s, <<"launch", x, d, b>>) /\ StreamOf(x) \notin streams =>
             FollowedBy(s, <<"launch", x, d, b>>, <<"sync", StreamOf(x), d, 0>>)
  PROVE  Closed(s \o SyncStreams(streams))
<1> SUFFICES ASSUME NEW x \in OpKinds, NEW d \in Devices, NEW b \in Nat
             PROVE  FollowedBy(s \o SyncStreams(streams),
                               <<"launch", x, d, b>>, <<"sync", StreamOf(x), d, 0>>)
  BY DEF Closed
<1> DEFINE t == SyncStreams(streams)
           c == <<"launch", x, d, b>>
           y == <<"sync", StreamOf(x), d, 0>>
<1>1. IsList(t, Syncs(streams))
  BY SyncList
<1>2. /\ t \in Seq(Calls) /\ (Has(t, c) <=> c \in Syncs(streams))
      /\ (Has(t, y) <=> y \in Syncs(streams))
  BY <1>1 DEF IsList
<1>3. c \notin Syncs(streams)
  BY DEF Syncs
<1>4. FollowedBy(t, c, y)
  BY <1>2, <1>3 DEF FollowedBy, Has
<1>5. FollowedBy(s, c, y) \/ Has(t, y)
  <2>1. CASE StreamOf(x) \in streams
    <3>1. y \in Syncs(streams)
      BY <2>1 DEF Syncs
    <3>2. QED
      BY <1>2, <3>1
  <2>2. CASE StreamOf(x) \notin streams /\ Has(s, c)
    BY <2>2
  <2>3. CASE ~Has(s, c)
    BY <2>3 DEF Has, FollowedBy
  <2>4. QED
    BY <2>1, <2>2, <2>3
<1> HIDE DEF t, c, y
<1>6. FollowedBy(s \o t, c, y)
  BY <1>2, <1>4, <1>5, JoinedFollowed
<1>7. QED
  BY <1>6 DEF t, c, y

(* Which launches there are in the lists.                                  *)
LEMMA LaunchesIn ==
  ASSUME NEW x \in OpKinds, NEW d \in Devices, NEW b \in Nat
  PROVE  /\ \A what, stages : <<"launch", x, d, b>> \in Work(what, stages) <=>
                                 x = what /\ b \in stages
         /\ \A kinds : <<"launch", x, d, b>> \in Records(kinds) <=> x \in kinds /\ b = 0
         /\ \A streams : <<"launch", x, d, b>> \notin Syncs(streams)
<1>1. \A what, stages : <<"launch", x, d, b>> \in Work(what, stages) <=> x = what /\ b \in stages
  BY DEF Work, Launches
<1>2. \A kinds : <<"launch", x, d, b>> \in Records(kinds) <=> x \in kinds /\ b = 0
  BY DEF Records
<1>3. \A streams : <<"launch", x, d, b>> \notin Syncs(streams)
  BY DEF Syncs
<1>4. QED
  BY <1>1, <1>2, <1>3

(* The sequential body: from a computation to an AllReduce there is no way *)
(* but by the synchronisation of the computation's stream.                 *)
ByWayOf(s, x, y, z) ==
  \A k, l \in 1 .. Len(s) : s[k] = x /\ s[l] = y => \E j \in k + 1 .. l - 1 : s[j] = z
FirstHalf(n) == Loop(LaunchCompute, n) \o SyncStreams({"compute"})
(* The way through the sequential body.                                    *)
LEMMA SequentialBody ==
  ASSUME NEW n \in Nat
  PROVE  /\ Sequential(n) \in Seq(Calls) /\ Closed(Sequential(n))
         /\ \A d \in Devices, b \in Nat, dd \in Devices, bb \in Nat :
              ByWayOf(Sequential(n), <<"launch", "compute", d, b>>,
                      <<"launch", "comm", dd, bb>>, <<"sync", "compute", d, 0>>)
<1> DEFINE C == Loop(LaunchCompute, n)
           M == Loop(LaunchComm, n)
           Y == SyncStreams({"compute"})
           Z == SyncStreams({"comm"})
           H == FirstHalf(n)
<1>0. /\ "compute" \in OpKinds /\ "comm" \in OpKinds /\ {"compute"} \in SUBSET Streams
      /\ {"comm"} \in SUBSET Streams /\ StreamOf("compute") = "compute" /\ StreamOf("comm") = "comm"
      /\ 1 .. n \subseteq Nat
  BY DEF OpKinds, Streams, StreamOf
<1>1. /\ IsList(C, Work("compute", 1 .. n)) /\ IsList(M, Work("comm", 1 .. n))
      /\ IsList(Y, Syncs({"compute"})) /\ IsList(Z, Syncs({"comm"}))
  BY <1>0, LaunchLists, SyncList
<1>2. C \in Seq(Calls) /\ M \in Seq(Calls) /\ Y \in Seq(Calls) /\ Z \in Seq(Calls)
  BY <1>1 DEF IsList
<1>3. Sequential(n) = (H \o M) \o Z /\ H = C \o Y
  BY DEF Sequential, FirstHalf
<1>4. H \in Seq(Calls)
  BY <1>2, <1>3, Joined
<1>5. H \o M \in Seq(Calls) /\ Sequential(n) \in Seq(Calls)
  BY <1>2, <1>3, <1>4, Joined
<1>6. ASSUME NEW x \in OpKinds, NEW d \in Devices, NEW b \in Nat
      PROVE  LET c == <<"launch", x, d, b>>
             IN  /\ Has(C, c) <=> x = "compute" /\ b \in 1 .. n
                 /\ Has(M, c) <=> x = "comm" /\ b \in 1 .. n
                 /\ ~Has(Y, c) /\ ~Has(Z, c)
                 /\ Has(H, c) <=> x = "compute" /\ b \in 1 .. n
                 /\ FollowedBy(H, c, <<"sync", StreamOf(x), d, 0>>)
  <2> DEFINE c == <<"launch", x, d, b>>
  <2>1. /\ Has(C, c) <=> x = "compute" /\ b \in 1 .. n
        /\ Has(M, c) <=> x = "comm" /\ b \in 1 .. n
        /\ ~Has(Y, c) /\ ~Has(Z, c)
    BY <1>1, LaunchesIn DEF IsList
  <2>2. Has(H, c) <=> x = "compute" /\ b \in 1 .. n
    <3> HIDE DEF c, C, Y, H
    <3>1. Has(C \o Y, c) <=> Has(C, c) \/ Has(Y, c)
      BY <1>2, JoinedHas
    <3>2. QED
      BY <1>3, <2>1, <3>1
  <2>3. Closed(H)
    <3>1. ASSUME NEW xx \in OpKinds, NEW dd \in Devices, NEW bb \in Nat,
                 Has(C, <<"launch", xx, dd, bb>>)
          PROVE  StreamOf(xx) \in {"compute"}
      <4>1. <<"launch", xx, dd, bb>> \in Work("compute", 1 .. n)
        BY <1>1, <3>1 DEF IsList
      <4>2. QED
        BY <1>0, <4>1, LaunchesIn
    <3> HIDE DEF C
    <3>2. Closed(C \o SyncStreams({"compute"}))
      BY <1>0, <1>2, <3>1, SyncsClose
    <3>3. QED
      BY <1>3, <3>2
  <2>4. QED
    BY <2>1, <2>2, <2>3 DEF Closed
<1> HIDE DEF C, M, Y, Z, H
<1>3a. M \o Z \in Seq(Calls) /\ Sequential(n) = H \o (M \o Z)
  <2>1. M \in Seq(Calls) /\ Z \in Seq(Calls) /\ H \in Seq(Calls)
    BY <1>2, <1>4
  <2>2. (H \o M) \o Z = H \o (M \o Z)
    BY <2>1, JoinedThrice
  <2>3. QED
    BY <1>3, <2>1, <2>2, Joined
<1>7. Closed(Sequential(n))
  <2>1. ASSUME NEW x \in OpKinds, NEW d \in Devices, NEW b \in Nat,
               Has(H \o M, <<"launch", x, d, b>>), StreamOf(x) \notin {"comm"}
        PROVE  FollowedBy(H \o M, <<"launch", x, d, b>>, <<"sync", StreamOf(x), d, 0>>)
    <3>1. x # "comm"
      BY <1>0, <2>1
    <3>2. ~Has(M, <<"launch", x, d, b>>)
      BY <1>6, <3>1
    <3>3. FollowedBy(M, <<"launch", x, d, b>>, <<"sync", StreamOf(x), d, 0>>)
      BY <3>2 DEF Has, FollowedBy
    <3>4. FollowedBy(H, <<"launch", x, d, b>>, <<"sync", StreamOf(x), d, 0>>)
      BY <1>6
    <3>5. QED
      BY <1>2, <1>4, <3>3, <3>4, JoinedFollowed
  <2>2. Closed((H \o M) \o SyncStreams({"comm"}))
    BY <1>0, <1>5, <2>1, SyncsClose
  <2>3. QED
    BY <1>3, <2>2 DEF Z
<1>8. ASSUME NEW d \in Devices, NEW b \in Nat, NEW dd \in Devices, NEW bb \in Nat
      PROVE  ByWayOf(Sequential(n), <<"launch", "compute", d, b>>,
                     <<"launch", "comm", dd, bb>>, <<"sync", "compute", d, 0>>)
  <2> SUFFICES ASSUME NEW k \in 1 .. Len(Sequential(n)), NEW l \in 1 .. Len(Sequential(n)),
                      Sequential(n)[k] = <<"launch", "compute", d, b>>,
                      Sequential(n)[l] = <<"launch", "comm", dd, bb>>
               PROVE  \E j \in k + 1 .. l - 1 : Sequential(n)[j] = <<"sync", "compute", d, 0>>
    BY DEF ByWayOf
  <2> DEFINE c == <<"launch", "compute", d, b>>
             m == <<"launch", "comm", dd, bb>>
             B == M \o Z
  <2>1. B \in Seq(Calls) /\ Sequential(n) = H \o B
    BY <1>3a
  <2>2. ~Has(H, m) /\ ~Has(B, c)
    <3>1. ~Has(H, m) /\ ~Has(M, c) /\ ~Has(Z, c)
      BY <1>0, <1>6
    <3>2. Has(B, c) <=> Has(M, c) \/ Has(Z, c)
      <4> HIDE DEF c
      <4>1. QED
        BY <1>2, JoinedHas
    <3>3. QED
      BY <3>1, <3>2
  <2>3. FollowedBy(H, c, <<"sync", "compute", d, 0>>)
    BY <1>0, <1>6
  <2> HIDE DEF B
  <2>4. k \in 1 .. Len(H) /\ H[k] = c
    <3>1. ASSUME k - Len(H) \in 1 .. Len(B), k = Len(H) + (k - Len(H)) PROVE FALSE
      <4>1. B[k - Len(H)] = c
        BY <1>4, <1>8, <2>1, <3>1, Joined
      <4>2. QED
        BY <2>2, <3>1, <4>1 DEF Has
    <3>2. k \in 1 .. Len(H) + Len(B)
      BY <1>4, <2>1, Joined
    <3>3. k \in 1 .. Len(H)
      BY <1>4, <2>1, <3>1, <3>2, Joined
    <3>4. QED
      BY <1>4, <1>8, <2>1, <3>3, Joined
  <2>5. l > Len(H)
    <3>1. ASSUME l \in 1 .. Len(H) PROVE FALSE
      <4>1. H[l] = m
        BY <1>4, <1>8, <2>1, <3>1, Joined
      <4>2. QED
        BY <2>2, <3>1, <4>1 DEF Has
    <3>2. QED
      BY <1>4, <3>1
  <2>6. PICK j \in k + 1 .. Len(H) : H[j] = <<"sync", "compute", d, 0>>
    BY <2>3, <2>4 DEF FollowedBy
  <2>7. j \in 1 .. Len(H) /\ j \in k + 1 .. l - 1
    BY <1>4, <2>4, <2>5
  <2>8. Sequential(n)[j] = <<"sync", "compute", d, 0>>
    BY <1>4, <2>1, <2>6, <2>7, Joined
  <2>9. QED
    BY <2>7, <2>8
<1>9. QED
  BY <1>5, <1>7, <1>8

(* A body of one kind of work.                                             *)
LEMMA PlainBodies ==
  ASSUME NEW n \in Nat, NEW what \in Streams, NEW s, IsList(s, Work(what, 1 .. n))
  PROVE  /\ s \o SyncStreams({what}) \in Seq(Calls)
         /\ Closed(s \o SyncStreams({what}))
<1>1. s \in Seq(Calls) /\ {what} \in SUBSET Streams
  BY DEF IsList
<1>2. SyncStreams({what}) \in Seq(Calls)
  BY <1>1, SyncList DEF IsList
<1>3. ASSUME NEW x \in OpKinds, NEW d \in Devices, NEW b \in Nat, Has(s, <<"launch", x, d, b>>)
      PROVE  StreamOf(x) \in {what}
  <2>1. <<"launch", x, d, b>> \in Work(what, 1 .. n)
    BY <1>3 DEF IsList
  <2>2. x = what
    BY <2>1, LaunchesIn
  <2>3. QED
    BY <2>2 DEF Streams, StreamOf
<1>4. QED
  BY <1>1, <1>2, <1>3, Joined, SyncsClose

(* The overlapped body: the events of a stream bracket its work.           *)
StartOf(s) == IF s = "compute" THEN "compS" ELSE "commS"
EndOf(s)   == IF s = "compute" THEN "compE" ELSE "commE"
Bracketed(s, n) ==
  /\ NoRepeats(s)
  /\ \A x \in OpKinds, d \in Devices, b \in Nat :
       Has(s, <<"launch", x, d, b>>) <=> b \in (IF x \in Streams THEN 1 .. n ELSE {0})
  /\ \A what \in Streams, d \in Devices, b \in 1 .. n :
       /\ Precedes(s, <<"launch", StartOf(what), d, 0>>, <<"launch", what, d, b>>)
       /\ Precedes(s, <<"launch", what, d, b>>, <<"launch", EndOf(what), d, 0>>)

(* A body between the records of its starts and its ends.                  *)
LEMMA OverlappedBodies ==
  ASSUME NEW n \in Nat, NEW W, IsList(W, Work("compute", 1 .. n) \cup Work("comm", 1 .. n)),
         NEW s, s = RecordStart \o W \o RecordEnd \o SyncStreams(Streams)
  PROVE  s \in Seq(Calls) /\ Closed(s) /\ Bracketed(s, n)
<1> DEFINE A == RecordStart
           B == RecordEnd
           Y == SyncStreams(Streams)
           works == Work("compute", 1 .. n) \cup Work("comm", 1 .. n)
           starts == Records({"compS", "commS"})
           ends == Records({"compE", "commE"})
           syncs == Syncs(Streams)
<1>1. IsList(A, starts) /\ IsList(W, works) /\ IsList(B, ends) /\ IsList(Y, syncs)
  BY RecordLists, SyncList
<1>2. /\ starts \cap works = {} /\ starts \cap ends = {} /\ works \cap ends = {}
      /\ (starts \cup works \cup ends) \cap syncs = {}
  BY DEF Records, Work, Launches, Syncs
<1>3. ASSUME NEW x \in OpKinds, NEW d \in Devices, NEW b \in Nat
      PROVE  LET c == <<"launch", x, d, b>>
             IN  /\ c \in starts <=> x \in {"compS", "commS"} /\ b = 0
                 /\ c \in works <=> x \in Streams /\ b \in 1 .. n
                 /\ c \in ends <=> x \in {"compE", "commE"} /\ b = 0
                 /\ c \notin syncs
  BY LaunchesIn DEF Streams
<1>4. s = ((A \o W) \o B) \o Y
  OBVIOUS
<1> HIDE DEF A, B, Y, works, starts, ends, syncs
<1>5. A \in Seq(Calls) /\ W \in Seq(Calls) /\ B \in Seq(Calls) /\ Y \in Seq(Calls)
  BY <1>1 DEF IsList
<1>6. IsList(A \o W, starts \cup works)
  BY <1>1, <1>2, ListJoined
<1>7. IsList((A \o W) \o B, (starts \cup works) \cup ends)
  <2>1. (starts \cup works) \cap ends = {}
    BY <1>2
  <2>2. QED
    BY <1>1, <1>6, <2>1, ListJoined
<1>8. IsList(s, ((starts \cup works) \cup ends) \cup syncs)
  BY <1>1, <1>2, <1>4, <1>7, ListJoined
<1>9. s \in Seq(Calls) /\ A \o W \in Seq(Calls) /\ (A \o W) \o B \in Seq(Calls)
  BY <1>6, <1>7, <1>8 DEF IsList
<1>10. Closed(s)
  <2>1. ASSUME NEW x \in OpKinds PROVE StreamOf(x) \in Streams
    BY DEF StreamOf, Streams
  <2>2. Closed(((A \o W) \o B) \o SyncStreams(Streams))
    BY <1>9, <2>1, SyncsClose
  <2>3. QED
    BY <1>4, <2>2 DEF Y
<1>11. \A x \in OpKinds, d \in Devices, b \in Nat :
         Has(s, <<"launch", x, d, b>>) <=> b \in (IF x \in Streams THEN 1 .. n ELSE {0})
  <2> TAKE x \in OpKinds, d \in Devices, b \in Nat
  <2> DEFINE c == <<"launch", x, d, b>>
  <2>1. Has(s, c) <=> c \in ((starts \cup works) \cup ends) \cup syncs
    BY <1>8 DEF IsList
  <2>2. Has(s, c) <=> c \in starts \/ c \in works \/ c \in ends
    BY <1>3, <2>1
  <2>3. Has(s, c) <=> \/ x \in {"compS", "commS", "compE", "commE"} /\ b = 0
                      \/ x \in Streams /\ b \in 1 .. n
    <3> HIDE DEF c
    <3>1. /\ c \in starts <=> x \in {"compS", "commS"} /\ b = 0
          /\ c \in works <=> x \in Streams /\ b \in 1 .. n
          /\ c \in ends <=> x \in {"compE", "commE"} /\ b = 0
      BY <1>3 DEF c
    <3>2. QED
      BY <2>2, <3>1
  <2>4. x \notin Streams <=> x \in {"compS", "commS", "compE", "commE"}
    BY DEF OpKinds, Streams
  <2> HIDE DEF c
  <2>5. QED
    BY <2>3, <2>4 DEF c
<1>12. ASSUME NEW what \in Streams, NEW d \in Devices, NEW b \in 1 .. n
       PROVE  /\ Precedes(s, <<"launch", StartOf(what), d, 0>>, <<"launch", what, d, b>>)
              /\ Precedes(s, <<"launch", what, d, b>>, <<"launch", EndOf(what), d, 0>>)
  <2> DEFINE f == <<"launch", StartOf(what), d, 0>>
             c == <<"launch", what, d, b>>
             e == <<"launch", EndOf(what), d, 0>>
  <2>1. /\ f \in starts /\ f \notin works /\ f \notin ends /\ f \notin syncs
        /\ c \notin starts /\ c \in works /\ c \notin ends /\ c \notin syncs
        /\ e \notin starts /\ e \notin works /\ e \in ends /\ e \notin syncs
    <3>1. /\ StartOf(what) \in {"compS", "commS"} /\ EndOf(what) \in {"compE", "commE"}
          /\ StartOf(what) \in OpKinds /\ EndOf(what) \in OpKinds /\ what \in OpKinds
          /\ StartOf(what) \notin Streams /\ EndOf(what) \notin Streams
          /\ what \notin {"compS", "commS", "compE", "commE"}
          /\ StartOf(what) \notin {"compE", "commE"} /\ EndOf(what) \notin {"compS", "commS"}
      BY DEF StartOf, EndOf, OpKinds, Streams
    <3>2. 0 \in Nat /\ b \in Nat
      OBVIOUS
    <3>3. f \in starts /\ f \notin works /\ f \notin ends /\ f \notin syncs
      BY <1>3, <3>1, <3>2
    <3>4. c \notin starts /\ c \in works /\ c \notin ends /\ c \notin syncs
      BY <1>3, <3>1, <3>2
    <3>5. e \notin starts /\ e \notin works /\ e \in ends /\ e \notin syncs
      BY <1>3, <3>1, <3>2
    <3>6. QED
      BY <3>3, <3>4, <3>5
  <2> HIDE DEF f, c, e
  <2>2. /\ ~Has(W, f) /\ ~Has(B, f) /\ ~Has(Y, f)
        /\ ~Has(A, c) /\ ~Has(B, c) /\ ~Has(Y, c)
        /\ ~Has(A \o W, e) /\ ~Has(Y, e)
    BY <1>1, <1>6, <2>1 DEF IsList
  <2>3. Precedes(s, f, c)
    <3>1. Precedes(A \o W, f, c)
      BY <1>5, <2>2, JoinedPrecedes
    <3>2. Precedes((A \o W) \o B, f, c)
      BY <1>5, <1>9, <2>2, <3>1, PrecedesStays
    <3>3. QED
      BY <1>4, <1>5, <1>9, <2>2, <3>2, PrecedesStays
  <2>4. Precedes(s, c, e)
    <3>1. Precedes((A \o W) \o B, c, e)
      BY <1>5, <1>9, <2>2, JoinedPrecedes
    <3>2. QED
      BY <1>4, <1>5, <1>9, <2>2, <3>1, PrecedesStays
  <2>5. QED
    BY <2>3, <2>4 DEF f, c, e
<1>13. NoRepeats(s)
  BY <1>8 DEF IsList
<1>14. Bracketed(s, n)
  BY <1>11, <1>12, <1>13 DEF Bracketed
<1>15. QED
  BY <1>9, <1>10, <1>14

(* All bodies of a row.                                                    *)
LEMMA Bodies ==
  ASSUME NEW r, NStages(r) \in Nat
  PROVE  /\ \A m \in {"compute", "comm", "sequential", "overlapped"} :
              Body(r, m) \in Seq(Calls) /\ Closed(Body(r, m))
         /\ Bracketed(Body(r, "overlapped"), NStages(r))
<1> DEFINE n == NStages(r)
<1>0. n \in Nat /\ "compute" \in Streams /\ "comm" \in Streams
  BY DEF Streams
<1> HIDE DEF n
<1>1. /\ IsList(Loop(LaunchCompute, n), Work("compute", 1 .. n))
      /\ IsList(Loop(LaunchComm, n), Work("comm", 1 .. n))
  BY <1>0, LaunchLists
<1>2. /\ Body(r, "compute") = Loop(LaunchCompute, n) \o SyncStreams({"compute"})
      /\ Body(r, "comm") = Loop(LaunchComm, n) \o SyncStreams({"comm"})
      /\ Body(r, "sequential") = Sequential(n)
      /\ Body(r, "overlapped") = Overlapped(r)
  BY DEF Body, n
<1>3. Body(r, "compute") \in Seq(Calls) /\ Closed(Body(r, "compute"))
  BY <1>0, <1>1, <1>2, PlainBodies
<1>4. Body(r, "comm") \in Seq(Calls) /\ Closed(Body(r, "comm"))
  BY <1>0, <1>1, <1>2, PlainBodies
<1>5. Body(r, "sequential") \in Seq(Calls) /\ Closed(Body(r, "sequential"))
  BY <1>0, <1>2, SequentialBody
<1> DEFINE W == IF IsMicro(r) THEN LaunchComm(1) \o LaunchCompute(1)
                ELSE Loop(LAMBDA b : LaunchCompute(b) \o LaunchComm(b), n)
<1>6. IsList(W, Work("compute", 1 .. n) \cup Work("comm", 1 .. n))
  <2>1. CASE IsMicro(r)
    <3>1. n = 1 /\ 1 .. n = {1}
      BY <2>1 DEF n, NStages
    <3>2. /\ IsList(LaunchComm(1), Work("comm", {1}))
          /\ IsList(LaunchCompute(1), Work("compute", {1}))
      BY <1>0, OnEveryDeviceList DEF LaunchComm, LaunchCompute
    <3>3. Work("comm", {1}) \cap Work("compute", {1}) = {}
      BY DEF Work, Launches
    <3>4. IsList(LaunchComm(1) \o LaunchCompute(1), Work("comm", {1}) \cup Work("compute", {1}))
      BY <3>2, <3>3, ListJoined
    <3>5. Work("comm", {1}) \cup Work("compute", {1}) = Work("compute", {1}) \cup Work("comm", {1})
      OBVIOUS
    <3>6. QED
      BY <2>1, <3>1, <3>4, <3>5
  <2>2. CASE ~IsMicro(r)
    <3>1. W = Loop(LAMBDA b : LaunchCompute(b) \o LaunchComm(b), n)
      BY <2>2
    <3>2. QED
      BY <1>0, <3>1, LaunchLists
  <2>3. QED
    BY <2>1, <2>2
<1>7. Overlapped(r) = RecordStart \o W \o RecordEnd \o SyncStreams(Streams)
  BY DEF Overlapped, n
<1> HIDE DEF W
<1>8. /\ Body(r, "overlapped") \in Seq(Calls) /\ Closed(Body(r, "overlapped"))
      /\ Bracketed(Body(r, "overlapped"), n)
  BY <1>0, <1>2, <1>6, <1>7, OverlappedBodies
<1>9. QED
  BY <1>3, <1>4, <1>5, <1>8 DEF n

-----------------------------------------------------------------------------
(* The rows, loop by loop.                                                 *)
RowSet ==
  [experiment : {"micro", "bucket"}, workload : {"compute-gemm", "memory-triad", "mixed"},
   comm_bytes : Nat, ratio_target : Nat, bucket_bytes : Nat, n_buckets : Nat, repeat : Nat]

MicroOf(s, w, q) ==
  [rep \in 1..Repeats |->
     [experiment |-> "micro", workload |-> workloads[w], comm_bytes |-> commSizes[s],
      ratio_target |-> ratios[q], bucket_bytes |-> 0, n_buckets |-> 0, repeat |-> rep - 1]]
OfWorkload(s, w) == FlattenSeq([q \in 1 .. Len(ratios) |-> MicroOf(s, w, q)])
OfSize(s) == FlattenSeq([w \in 1 .. Len(workloads) |-> OfWorkload(s, w)])

BucketOf(s) ==
  IF bucketSizes[s] > totalGrad THEN << >>
  ELSE [rep \in 1..Repeats |->
         [experiment |-> "bucket", workload |-> "compute-gemm", comm_bytes |-> totalGrad,
          ratio_target |-> 100, bucket_bytes |-> bucketSizes[s],
          n_buckets |-> totalGrad \div bucketSizes[s], repeat |-> rep - 1]]

(* Each list of configurations given once has them once.                   *)
GivenOnce(s) == \A i, j \in 1 .. Len(s) : s[i] = s[j] => i = j
AllGivenOnce ==
  GivenOnce(commSizes) /\ GivenOnce(workloads) /\ GivenOnce(ratios) /\ GivenOnce(bucketSizes)

(* A loop of rows.                                                         *)
Separate(p, n) ==
  /\ \A i \in 1 .. n : NoRepeats(p[i])
  /\ \A i, j \in 1 .. n : \A x : Has(p[i], x) /\ Has(p[j], x) => i = j
(* The rows of a loop.                                                     *)
LEMMA FlattenedRows ==
  ASSUME NEW n \in Nat, NEW p, p = [i \in 1 .. n |-> p[i]], \A i \in 1 .. n : p[i] \in Seq(RowSet)
  PROVE  /\ FlattenSeq(p) \in Seq(RowSet)
         /\ \A x : Has(FlattenSeq(p), x) => \E i \in 1 .. n : Has(p[i], x)
         /\ Separate(p, n) => NoRepeats(FlattenSeq(p))
<1>1. p \in Seq(Seq(RowSet)) /\ Len(p) = n
  OBVIOUS
<1>2. FlattenSeq(p) \in Seq(RowSet) /\ (Apart(p) => NoRepeats(FlattenSeq(p)))
  BY <1>1, Flattened
<1>3. \A x : Has(FlattenSeq(p), x) <=> \E i \in 1 .. n : Has(p[i], x)
  BY <1>1, Flattened
<1>4. ASSUME Separate(p, n) PROVE Apart(p)
  BY <1>1, <1>4 DEF Apart, Separate
<1>5. QED
  BY <1>2, <1>3, <1>4

(* The repeats of one size, workload and ratio,                            *)
LEMMA MicroRowsOf ==
  ASSUME NEW s \in 1 .. Len(commSizes), NEW w \in 1 .. Len(workloads), NEW q \in 1 .. Len(ratios)
  PROVE  /\ MicroOf(s, w, q) \in Seq(RowSet) /\ NoRepeats(MicroOf(s, w, q))
         /\ \A x : Has(MicroOf(s, w, q), x) =>
              /\ x.experiment = "micro" /\ x.comm_bytes = commSizes[s]
              /\ x.workload = workloads[w] /\ x.ratio_target = ratios[q]
              /\ x.bucket_bytes = 0 /\ x.n_buckets = 0
<1> DEFINE t == MicroOf(s, w, q)
<1>1. /\ workloads[w] \in {"compute-gemm", "memory-triad", "mixed"}
      /\ commSizes[s] \in Nat /\ ratios[q] \in Nat /\ Repeats \in Nat
  BY OverlapAssumption
<1>2. \A rep \in 1 .. Repeats :
        /\ t[rep] \in RowSet /\ t[rep].repeat = rep - 1
        /\ t[rep].experiment = "micro" /\ t[rep].comm_bytes = commSizes[s]
        /\ t[rep].workload = workloads[w] /\ t[rep].ratio_target = ratios[q]
        /\ t[rep].bucket_bytes = 0 /\ t[rep].n_buckets = 0
  BY <1>1 DEF MicroOf, RowSet
<1>3. t = [rep \in 1 .. Repeats |-> t[rep]]
  BY DEF MicroOf
<1> HIDE DEF t
<1>4. t \in Seq(RowSet) /\ Len(t) = Repeats
  <2>1. \A rep \in 1 .. Repeats : t[rep] \in RowSet
    BY <1>2
  <2>2. t \in [1 .. Repeats -> RowSet]
    BY <1>3, <2>1
  <2>3. QED
    BY <1>1, <2>2
<1>5. NoRepeats(t)
  <2> SUFFICES ASSUME NEW j \in 1 .. Repeats, NEW k \in 1 .. Repeats, t[j] = t[k]
               PROVE  j = k
    BY <1>4 DEF NoRepeats
  <2>1. j - 1 = k - 1
    BY <1>2
  <2>2. QED
    BY <1>1, <2>1
<1>6. QED
  BY <1>2, <1>4, <1>5 DEF t, Has

(* the rows of one size and workload,                                      *)
LEMMA RowsOfWorkload ==
  ASSUME NEW s \in 1 .. Len(commSizes), NEW w \in 1 .. Len(workloads)
  PROVE  /\ OfWorkload(s, w) \in Seq(RowSet)
         /\ AllGivenOnce => NoRepeats(OfWorkload(s, w))
         /\ \A x : Has(OfWorkload(s, w), x) =>
              /\ x.experiment = "micro" /\ x.comm_bytes = commSizes[s]
              /\ x.workload = workloads[w]
              /\ x.bucket_bytes = 0 /\ x.n_buckets = 0
<1> DEFINE p == [q \in 1 .. Len(ratios) |-> MicroOf(s, w, q)]
<1>1. Len(ratios) \in Nat
  BY OverlapAssumption
<1>2. \A q \in 1 .. Len(ratios) :
        /\ p[q] \in Seq(RowSet) /\ NoRepeats(p[q])
        /\ \A x : Has(p[q], x) =>
              /\ x.experiment = "micro" /\ x.comm_bytes = commSizes[s]
              /\ x.workload = workloads[w] /\ x.ratio_target = ratios[q]
              /\ x.bucket_bytes = 0 /\ x.n_buckets = 0
  BY MicroRowsOf
<1>3. p = [q \in 1 .. Len(ratios) |-> p[q]] /\ OfWorkload(s, w) = FlattenSeq(p)
  BY DEF OfWorkload
<1> HIDE DEF p
<1>4. ASSUME AllGivenOnce PROVE Separate(p, Len(ratios))
  <2>1. ASSUME NEW i \in 1 .. Len(ratios), NEW j \in 1 .. Len(ratios), NEW x,
               Has(p[i], x), Has(p[j], x)
        PROVE  i = j
    <3>1. x.ratio_target = ratios[i] /\ x.ratio_target = ratios[j]
      BY <1>2, <2>1
    <3>2. ratios[i] = ratios[j]
      BY <3>1
    <3>3. QED
      BY <1>4, <3>2 DEF AllGivenOnce, GivenOnce
  <2>2. QED
    BY <1>2, <1>4, <2>1 DEF Separate
<1>5. /\ FlattenSeq(p) \in Seq(RowSet)
      /\ \A x : Has(FlattenSeq(p), x) => \E i \in 1 .. Len(ratios) : Has(p[i], x)
      /\ Separate(p, Len(ratios)) => NoRepeats(FlattenSeq(p))
  BY <1>1, <1>2, <1>3, FlattenedRows
<1>6. QED
  BY <1>2, <1>3, <1>4, <1>5

(* of one size,                                                            *)
LEMMA RowsOfSize ==
  ASSUME NEW s \in 1 .. Len(commSizes)
  PROVE  /\ OfSize(s) \in Seq(RowSet)
         /\ AllGivenOnce => NoRepeats(OfSize(s))
         /\ \A x : Has(OfSize(s), x) =>
              /\ x.experiment = "micro" /\ x.comm_bytes = commSizes[s]
              /\ x.bucket_bytes = 0 /\ x.n_buckets = 0
<1> DEFINE p == [w \in 1 .. Len(workloads) |-> OfWorkload(s, w)]
<1>1. Len(workloads) \in Nat
  BY OverlapAssumption
<1>2. \A w \in 1 .. Len(workloads) :
        /\ p[w] \in Seq(RowSet) /\ (AllGivenOnce => NoRepeats(p[w]))
        /\ \A x : Has(p[w], x) =>
              /\ x.experiment = "micro" /\ x.comm_bytes = commSizes[s]
              /\ x.workload = workloads[w]
              /\ x.bucket_bytes = 0 /\ x.n_buckets = 0
  BY RowsOfWorkload
<1>3. p = [w \in 1 .. Len(workloads) |-> p[w]] /\ OfSize(s) = FlattenSeq(p)
  BY DEF OfSize
<1> HIDE DEF p
<1>4. ASSUME AllGivenOnce PROVE Separate(p, Len(workloads))
  <2>1. ASSUME NEW i \in 1 .. Len(workloads), NEW j \in 1 .. Len(workloads), NEW x,
               Has(p[i], x), Has(p[j], x)
        PROVE  i = j
    <3>1. x.workload = workloads[i] /\ x.workload = workloads[j]
      BY <1>2, <2>1
    <3>2. workloads[i] = workloads[j]
      BY <3>1
    <3>3. QED
      BY <1>4, <3>2 DEF AllGivenOnce, GivenOnce
  <2>2. QED
    BY <1>2, <1>4, <2>1 DEF Separate
<1>5. /\ FlattenSeq(p) \in Seq(RowSet)
      /\ \A x : Has(FlattenSeq(p), x) => \E i \in 1 .. Len(workloads) : Has(p[i], x)
      /\ Separate(p, Len(workloads)) => NoRepeats(FlattenSeq(p))
  BY <1>1, <1>2, <1>3, FlattenedRows
<1>6. QED
  BY <1>2, <1>3, <1>4, <1>5

(* and all micro rows.                                                     *)
LEMMA MicroRowsTyped ==
  /\ MicroRows \in Seq(RowSet)
  /\ AllGivenOnce => NoRepeats(MicroRows)
  /\ \A x : Has(MicroRows, x) =>
       x.experiment = "micro" /\ x.bucket_bytes = 0 /\ x.n_buckets = 0
<1> DEFINE p == [s \in 1 .. Len(commSizes) |-> OfSize(s)]
<1>1. Len(commSizes) \in Nat
  BY OverlapAssumption
<1>2. \A s \in 1 .. Len(commSizes) :
        /\ p[s] \in Seq(RowSet) /\ (AllGivenOnce => NoRepeats(p[s]))
        /\ \A x : Has(p[s], x) =>
              /\ x.experiment = "micro" /\ x.comm_bytes = commSizes[s]
              /\ x.bucket_bytes = 0 /\ x.n_buckets = 0
  BY RowsOfSize
<1>3. p = [s \in 1 .. Len(commSizes) |-> p[s]]
  OBVIOUS
<1>4. MicroRows = FlattenSeq(p)
  BY DEF MicroRows, Loop, OfSize, OfWorkload, MicroOf
<1> HIDE DEF p
<1>5. ASSUME AllGivenOnce PROVE Separate(p, Len(commSizes))
  <2>1. ASSUME NEW i \in 1 .. Len(commSizes), NEW j \in 1 .. Len(commSizes), NEW x,
               Has(p[i], x), Has(p[j], x)
        PROVE  i = j
    <3>1. x.comm_bytes = commSizes[i] /\ x.comm_bytes = commSizes[j]
      BY <1>2, <2>1
    <3>2. commSizes[i] = commSizes[j]
      BY <3>1
    <3>3. QED
      BY <1>5, <3>2 DEF AllGivenOnce, GivenOnce
  <2>2. QED
    BY <1>2, <1>5, <2>1 DEF Separate
<1>6. /\ FlattenSeq(p) \in Seq(RowSet)
      /\ \A x : Has(FlattenSeq(p), x) => \E i \in 1 .. Len(commSizes) : Has(p[i], x)
      /\ Separate(p, Len(commSizes)) => NoRepeats(FlattenSeq(p))
  BY <1>1, <1>2, <1>3, FlattenedRows
<1>7. QED
  BY <1>2, <1>3, <1>4, <1>5, <1>6

(* The repeats of one bucket size,                                         *)
LEMMA BucketRowsOf ==
  ASSUME NEW s \in 1 .. Len(bucketSizes)
  PROVE  /\ BucketOf(s) \in Seq(RowSet) /\ NoRepeats(BucketOf(s))
         /\ \A x : Has(BucketOf(s), x) =>
              /\ x.experiment = "bucket" /\ x.comm_bytes = totalGrad
              /\ x.workload = "compute-gemm" /\ x.ratio_target = 100
              /\ x.bucket_bytes = bucketSizes[s]
              /\ x.n_buckets = totalGrad \div bucketSizes[s]
<1> DEFINE t == BucketOf(s)
<1>1. bucketSizes[s] \in Nat /\ bucketSizes[s] # 0 /\ totalGrad \in Nat /\ Repeats \in Nat
  BY OverlapAssumption
<1>2. totalGrad \div bucketSizes[s] \in Nat
  BY <1>1
<1> DEFINE n == totalGrad \div bucketSizes[s]
<1>3. CASE bucketSizes[s] > totalGrad
  <2>1. t = << >>
    BY <1>3 DEF BucketOf
  <2>2. t \in Seq(RowSet) /\ Len(t) = 0 /\ 1 .. 0 = {}
    BY <2>1
  <2>3. QED
    BY <2>2 DEF NoRepeats, Has
<1>4. CASE ~(bucketSizes[s] > totalGrad)
  <2>1. \A rep \in 1 .. Repeats :
        /\ t[rep] \in RowSet /\ t[rep].repeat = rep - 1
        /\ t[rep].experiment = "bucket" /\ t[rep].comm_bytes = totalGrad
        /\ t[rep].workload = "compute-gemm" /\ t[rep].ratio_target = 100
        /\ t[rep].bucket_bytes = bucketSizes[s]
        /\ t[rep].n_buckets = totalGrad \div bucketSizes[s]
    <3> HIDE DEF n
    <3> SUFFICES ASSUME NEW rep \in 1 .. Repeats
                 PROVE  /\ t[rep] \in RowSet /\ t[rep].repeat = rep - 1
                        /\ t[rep].experiment = "bucket" /\ t[rep].comm_bytes = totalGrad
                        /\ t[rep].workload = "compute-gemm" /\ t[rep].ratio_target = 100
                        /\ t[rep].bucket_bytes = bucketSizes[s] /\ t[rep].n_buckets = n
      BY DEF n
    <3>1. t[rep] = [experiment |-> "bucket", workload |-> "compute-gemm",
                    comm_bytes |-> totalGrad, ratio_target |-> 100,
                    bucket_bytes |-> bucketSizes[s], n_buckets |-> n, repeat |-> rep - 1]
      BY <1>4 DEF BucketOf, n
    <3>2. n \in Nat /\ rep - 1 \in Nat
      BY <1>1, <1>2 DEF n
    <3> HIDE DEF t
    <3>3. QED
      BY <1>1, <3>1, <3>2 DEF RowSet
  <2>2. t = [rep \in 1 .. Repeats |-> t[rep]]
    BY <1>4 DEF BucketOf
  <2> HIDE DEF t
  <2>3. t \in Seq(RowSet) /\ Len(t) = Repeats
    BY <1>1, <2>1, <2>2
  <2>4. NoRepeats(t)
    <3> SUFFICES ASSUME NEW j \in 1 .. Repeats, NEW k \in 1 .. Repeats, t[j] = t[k]
                 PROVE  j = k
      BY <2>3 DEF NoRepeats
    <3>1. j - 1 = k - 1
      BY <2>1
    <3>2. QED
      BY <1>1, <3>1
  <2>5. QED
    BY <2>1, <2>3, <2>4 DEF t, Has
<1>5. QED
  BY <1>3, <1>4

(* and all bucket rows.                                                    *)
LEMMA BucketRowsTyped ==
  /\ BucketRows \in Seq(RowSet)
  /\ AllGivenOnce => NoRepeats(BucketRows)
  /\ \A x : Has(BucketRows, x) =>
       /\ x.experiment = "bucket" /\ x.comm_bytes = totalGrad
       /\ x.workload = "compute-gemm" /\ x.ratio_target = 100
       /\ \E s \in 1 .. Len(bucketSizes) :
            x.bucket_bytes = bucketSizes[s] /\ x.n_buckets = totalGrad \div bucketSizes[s]
<1> DEFINE p == [s \in 1 .. Len(bucketSizes) |-> BucketOf(s)]
<1>1. Len(bucketSizes) \in Nat
  BY OverlapAssumption
<1>2. \A s \in 1 .. Len(bucketSizes) :
        /\ p[s] \in Seq(RowSet) /\ NoRepeats(p[s])
        /\ \A x : Has(p[s], x) =>
              /\ x.experiment = "bucket" /\ x.comm_bytes = totalGrad
              /\ x.workload = "compute-gemm" /\ x.ratio_target = 100
              /\ x.bucket_bytes = bucketSizes[s]
              /\ x.n_buckets = totalGrad \div bucketSizes[s]
  BY BucketRowsOf
<1>3. p = [s \in 1 .. Len(bucketSizes) |-> p[s]]
  OBVIOUS
<1>4. BucketRows = FlattenSeq(p)
  BY DEF BucketRows, Loop, BucketOf
<1> HIDE DEF p
<1>5. ASSUME AllGivenOnce PROVE Separate(p, Len(bucketSizes))
  <2>1. ASSUME NEW i \in 1 .. Len(bucketSizes), NEW j \in 1 .. Len(bucketSizes), NEW x,
               Has(p[i], x), Has(p[j], x)
        PROVE  i = j
    <3>1. x.bucket_bytes = bucketSizes[i] /\ x.bucket_bytes = bucketSizes[j]
      BY <1>2, <2>1
    <3>2. bucketSizes[i] = bucketSizes[j]
      BY <3>1
    <3>3. QED
      BY <1>5, <3>2 DEF AllGivenOnce, GivenOnce
  <2>2. QED
    BY <1>2, <1>5, <2>1 DEF Separate
<1>6. /\ FlattenSeq(p) \in Seq(RowSet)
      /\ \A x : Has(FlattenSeq(p), x) => \E i \in 1 .. Len(bucketSizes) : Has(p[i], x)
      /\ Separate(p, Len(bucketSizes)) => NoRepeats(FlattenSeq(p))
  BY <1>1, <1>2, <1>3, FlattenedRows
<1>7. QED
  BY <1>2, <1>3, <1>4, <1>5, <1>6

(* The rows have their types, a number of stages each, and no two are      *)
(* alike.                                                                  *)
LEMMA RowsTyped ==
  /\ Rows \in Seq(RowSet)
  /\ \A r \in 1 .. Len(Rows) : NStages(r) \in Nat
  /\ AllGivenOnce => NoRepeats(Rows)
<1>1. MicroRows \in Seq(RowSet) /\ BucketRows \in Seq(RowSet)
  BY MicroRowsTyped, BucketRowsTyped
<1>2. Rows \in Seq(RowSet)
  BY <1>1, Joined DEF Rows
<1>3. ASSUME NEW r \in 1 .. Len(Rows) PROVE NStages(r) \in Nat
  <2>1. Rows[r] \in RowSet
    BY <1>2
  <2>2. Rows[r].n_buckets \in Nat
    BY <2>1 DEF RowSet
  <2>3. QED
    BY <2>2 DEF NStages
<1>4. ASSUME NEW x PROVE ~(Has(MicroRows, x) /\ Has(BucketRows, x))
  BY MicroRowsTyped, BucketRowsTyped
<1>5. ASSUME AllGivenOnce PROVE NoRepeats(Rows)
  BY <1>1, <1>4, <1>5, MicroRowsTyped, BucketRowsTyped, JoinedNoRepeats DEF Rows
<1>6. QED
  BY <1>2, <1>3, <1>5
-----------------------------------------------------------------------------
(* The inductive invariant.  Types first;                                  *)
Ops == OpKinds \X Devices \X Nat \X Nat
Events == (OpKinds \ Streams) \X Devices
TypeInv ==
  /\ row \in 1 .. Len(Rows) + 1 /\ measure \in 1 .. Len(Measures) + 1
  /\ iter \in 1 .. Warmup + Iters
  /\ body \in Seq(Calls) /\ pc \in 1 .. Len(body) + 1
  /\ stamp \in [Events -> Nat] /\ spans \in [Streams \X Devices -> Int]
  /\ issued \subseteq Ops /\ IsFiniteSet(issued)
  /\ running \subseteq issued /\ done \subseteq issued /\ running \cap done = {}

(* the body is the one of the row and the measurement, and between         *)
(* measurements nothing is issued;                                         *)
BodyInv ==
  /\ Measuring => body = Body(row, Measures[measure])
  /\ ~Measuring => issued = {} /\ iter = 1 /\ pc = 1
  /\ row > Len(Rows) => measure = 1

(* what is issued is what the host has come by, in this call of the body   *)
(* and in those before;                                                    *)
OpAt(k, i) == <<body[k][2], body[k][3], body[k][4], i>>
IssuedInv ==
  /\ \A o \in issued :
       /\ o[4] \in 1 .. iter
       /\ \E k \in 1 .. Len(body) :
            body[k] = <<"launch", o[1], o[2], o[3]>> /\ (o[4] = iter => k < pc)
  /\ \A k \in 1 .. Len(body), i \in 1 .. iter :
       body[k][1] = "launch" /\ (i = iter => k < pc) => OpAt(k, i) \in issued

(* and what it has waited for is done, so that all work of the calls       *)
(* before is.                                                              *)
SyncedInv ==
  /\ \A j \in 1 .. pc - 1 : \A k \in 1 .. j - 1 :
       body[k][1] = "launch" /\ body[j] = <<"sync", StreamOf(body[k][2]), body[k][3], 0>> =>
         OpAt(k, iter) \in done
  /\ \A o \in issued : o[4] < iter => o \in done

(* In the overlapped body the streams have kept their orders, and the last *)
(* record of an event saw the stages of the calls before, at the end of    *)
(* the stream's work also those of its own.                                *)
OrderInv ==
  \A o \in running \cup done : \A p \in issued : AheadInStream(p, o) => p \in done

LatestRecord(e, d, i) ==
  <<e, d, 0, i>> \in done /\ \A k \in i + 1 .. iter : <<e, d, 0, k>> \notin done
StampInv ==
  \A s \in Streams, d \in Devices, i \in 1 .. iter :
    /\ LatestRecord(StartOf(s), d, i) => stamp[<<StartOf(s), d>>] = NStages(row) * (i - 1)
    /\ LatestRecord(EndOf(s), d, i) =>
         stamp[<<EndOf(s), d>>] = NStages(row) * (i - 1) + NStages(row)

(* What elapsed() is to read, and what it read.                            *)
Overlapping == Measuring /\ measure = 4
SpanInv ==
  /\ Overlapping => OrderInv /\ StampInv
  /\ row <= Len(Rows) /\ measure = 5 =>
       \A s \in Streams, d \in Devices : SpanOf(s, d) = NStages(row)
  /\ row > 1 => \A s \in Streams, d \in Devices : spans[<<s, d>>] = NStages(row - 1)

Inv == TypeInv /\ BodyInv /\ IssuedInv /\ SyncedInv
IInv == Inv /\ SpanInv
-----------------------------------------------------------------------------
(* The bodies of the rows.                                                 *)
LEMMA BodiesOfRows ==
  ASSUME NEW r \in 1 .. Len(Rows), NEW m \in 1 .. 4
  PROVE  Body(r, Measures[m]) \in Seq(Calls) /\ Closed(Body(r, Measures[m]))
<1>1. Measures[m] \in {"compute", "comm", "sequential", "overlapped"}
  BY DEF Measures
<1>2. NStages(r) \in Nat
  BY RowsTyped
<1>3. QED
  BY <1>1, <1>2, Bodies

(* A call of a body is a launch or a synchronisation.                      *)
LEMMA CallAt ==
  ASSUME NEW s \in Seq(Calls), NEW k \in 1 .. Len(s)
  PROVE  /\ s[k] \in Calls
         /\ s[k][1] = "launch" =>
              /\ s[k][2] \in OpKinds /\ s[k][3] \in Devices /\ s[k][4] \in Nat
              /\ s[k] = <<"launch", s[k][2], s[k][3], s[k][4]>>
         /\ s[k][1] = "sync" =>
              /\ s[k][2] \in Streams /\ s[k][3] \in Devices
              /\ s[k] = <<"sync", s[k][2], s[k][3], 0>>
<1>1. s[k] \in Calls
  OBVIOUS
<1>2. QED
  BY <1>1 DEF Calls

(* The program begins with the first body of the first row.                *)
LEMMA InvInit == Init => Inv
<1> SUFFICES ASSUME Init PROVE Inv
  OBVIOUS
<1>0. Len(Rows) \in Nat /\ (Rows = << >> <=> Len(Rows) = 0) /\ Len(Measures) = 4
  BY RowsTyped DEF Measures
<1>1. /\ row = 1 /\ measure = 1 /\ iter = 1 /\ pc = 1
      /\ issued = {} /\ running = {} /\ done = {}
      /\ body = IF Rows = << >> THEN << >> ELSE Body(1, Measures[1])
      /\ stamp = [e \in Events |-> 0] /\ spans = [s \in Streams \X Devices |-> 0]
  BY DEF Init, CudaQuiet, Events
<1>2. body \in Seq(Calls)
  <2>1. CASE Rows = << >>
    BY <1>1, <2>1
  <2>2. CASE Rows # << >>
    BY <1>0, <1>1, <2>2, BodiesOfRows
  <2>3. QED
    BY <2>1, <2>2
<1>3. Warmup \in Nat /\ Iters \in Nat \ {0}
  BY OverlapAssumption
<1>4. TypeInv
  <2>1. stamp \in [Events -> Nat] /\ spans \in [Streams \X Devices -> Int]
    BY <1>1
  <2>2. pc \in 1 .. Len(body) + 1
    BY <1>1, <1>2
  <2>3. row \in 1 .. Len(Rows) + 1 /\ measure \in 1 .. Len(Measures) + 1
    BY <1>0, <1>1
  <2>4. iter \in 1 .. Warmup + Iters
    BY <1>1, <1>3
  <2>5. IsFiniteSet(issued)
    BY <1>1, FS_EmptySet
  <2>6. QED
    BY <1>1, <1>2, <2>1, <2>2, <2>3, <2>4, <2>5 DEF TypeInv
<1>5. BodyInv
  BY <1>0, <1>1 DEF BodyInv, Measuring
<1>6. IssuedInv
  BY <1>1, <1>2 DEF IssuedInv
<1>7. SyncedInv
  BY <1>1 DEF SyncedInv
<1>8. QED
  BY <1>4, <1>5, <1>6, <1>7 DEF Inv

(* Launch: one operation more, of the call the host is in.                 *)
LEMMA InvLaunch ==
  ASSUME Inv, Launch
  PROVE  Inv'
<1> DEFINE o == <<body[pc][2], body[pc][3], body[pc][4], iter>>
<1>1. /\ InBody /\ body[pc][1] = "launch" /\ pc' = pc + 1 /\ issued' = issued \cup {o}
      /\ UNCHANGED <<row, measure, iter, body, stamp, spans, running, done>>
  BY DEF Launch, Enqueue
<1>2. TypeInv /\ BodyInv /\ IssuedInv /\ SyncedInv
  BY DEF Inv
<1>3. pc \in 1 .. Len(body) /\ Len(body) \in Nat /\ body \in Seq(Calls)
  BY <1>1, <1>2 DEF TypeInv, InBody
<1>4. /\ body[pc][2] \in OpKinds /\ body[pc][3] \in Devices /\ body[pc][4] \in Nat
      /\ body[pc] = <<"launch", body[pc][2], body[pc][3], body[pc][4]>>
  BY <1>1, <1>3, CallAt
<1>5. iter \in Nat /\ iter >= 1
  BY <1>2, OverlapAssumption DEF TypeInv
<1>6. /\ o \in Ops /\ o[4] = iter /\ o = OpAt(pc, iter)
      /\ body[pc] = <<"launch", o[1], o[2], o[3]>>
  BY <1>4, <1>5 DEF Ops, OpAt
<1> HIDE DEF o
<1>7. TypeInv'
  <2>1. issued' \subseteq Ops /\ IsFiniteSet(issued')
    <3>1. IsFiniteSet(issued \cup {o})
      BY <1>2, FS_AddElement DEF TypeInv
    <3>2. QED
      BY <1>1, <1>2, <1>6, <3>1 DEF TypeInv
  <2>2. pc' \in 1 .. Len(body') + 1
    BY <1>1, <1>3
  <2>3. running' \subseteq issued' /\ done' \subseteq issued' /\ running' \cap done' = {}
    BY <1>1, <1>2 DEF TypeInv
  <2>4. QED
    BY <1>1, <1>2, <2>1, <2>2, <2>3 DEF TypeInv, Ops, Devices, Streams, OpKinds, Events, Calls
<1>8. BodyInv'
  BY <1>1, <1>2 DEF BodyInv, Measuring, InBody, Measures, IsMicro
<1>9. IssuedInv'
  <2>1. ASSUME NEW q \in issued'
        PROVE  /\ q[4] \in 1 .. iter
               /\ \E k \in 1 .. Len(body) :
                    body[k] = <<"launch", q[1], q[2], q[3]>> /\ (q[4] = iter => k < pc + 1)
    <3>1. CASE q \in issued
      <4>1. PICK k \in 1 .. Len(body) :
              body[k] = <<"launch", q[1], q[2], q[3]>> /\ (q[4] = iter => k < pc)
        BY <1>2, <3>1 DEF IssuedInv
      <4>2. q[4] = iter => k < pc + 1
        BY <1>3, <4>1
      <4>3. QED
        BY <1>2, <3>1, <4>1, <4>2 DEF IssuedInv
    <3>2. CASE q = o
      <4>1. q[4] \in 1 .. iter /\ pc < pc + 1
        BY <1>3, <1>5, <1>6, <3>2
      <4>2. QED
        BY <1>3, <1>6, <3>2, <4>1
    <3>3. QED
      BY <1>1, <2>1, <3>1, <3>2
  <2>2. ASSUME NEW k \in 1 .. Len(body), NEW i \in 1 .. iter,
               body[k][1] = "launch", i = iter => k < pc + 1
        PROVE  OpAt(k, i) \in issued'
    <3>1. CASE i = iter /\ k = pc
      BY <1>1, <1>6, <3>1
    <3>2. CASE ~(i = iter /\ k = pc)
      <4>1. i = iter => k < pc
        BY <1>3, <2>2, <3>2
      <4>2. QED
        BY <1>1, <1>2, <2>2, <4>1 DEF IssuedInv
    <3>3. QED
      BY <3>1, <3>2
  <2>3. QED
    BY <1>1, <2>1, <2>2 DEF IssuedInv, OpAt
<1>10. SyncedInv'
  <2>1. ASSUME NEW j \in 1 .. pc, NEW k \in 1 .. j - 1,
               body[k][1] = "launch", body[j] = <<"sync", StreamOf(body[k][2]), body[k][3], 0>>
        PROVE  OpAt(k, iter) \in done
    <3>1. body[j][1] = "sync"
      BY <2>1
    <3>2. j \in 1 .. pc - 1
      BY <1>1, <1>3, <3>1
    <3>3. QED
      BY <1>2, <2>1, <3>2 DEF SyncedInv
  <2>2. \A q \in issued' : q[4] < iter => q \in done
    BY <1>1, <1>2, <1>5, <1>6 DEF SyncedInv
  <2>3. pc' - 1 = pc
    BY <1>1, <1>3
  <2>4. QED
    BY <1>1, <2>1, <2>2, <2>3 DEF SyncedInv, OpAt
<1>11. QED
  BY <1>7, <1>8, <1>9, <1>10 DEF Inv

(* Sync: what the host has launched on the stream in this call is issued,  *)
(* and none of it is unfinished.                                           *)
LEMMA InvSync ==
  ASSUME Inv, Sync
  PROVE  Inv'
<1>1. /\ InBody /\ body[pc][1] = "sync" /\ pc' = pc + 1
      /\ \A o \in issued \ done : o[2] = body[pc][3] => StreamOf(o[1]) # body[pc][2]
      /\ UNCHANGED <<row, measure, iter, body, stamp, spans, issued, running, done>>
  BY DEF Sync, cudaVars
<1>2. TypeInv /\ BodyInv /\ IssuedInv /\ SyncedInv
  BY DEF Inv
<1>3. pc \in 1 .. Len(body) /\ Len(body) \in Nat /\ body \in Seq(Calls)
  BY <1>1, <1>2 DEF TypeInv, InBody
<1>4. iter \in 1 .. iter
  BY <1>2, OverlapAssumption DEF TypeInv
<1>5. TypeInv'
  <2>1. pc' \in 1 .. Len(body') + 1
    BY <1>1, <1>3
  <2>2. QED
    BY <1>1, <1>2, <2>1 DEF TypeInv, Ops, Devices, Streams, OpKinds, Events, Calls
<1>6. BodyInv'
  BY <1>1, <1>2 DEF BodyInv, Measuring, InBody, Measures
<1>7. IssuedInv'
  <2>1. ASSUME NEW q \in issued
        PROVE  \E k \in 1 .. Len(body) :
                 body[k] = <<"launch", q[1], q[2], q[3]>> /\ (q[4] = iter => k < pc + 1)
    <3>1. PICK k \in 1 .. Len(body) :
            body[k] = <<"launch", q[1], q[2], q[3]>> /\ (q[4] = iter => k < pc)
      BY <1>2 DEF IssuedInv
    <3>2. q[4] = iter => k < pc + 1
      BY <1>3, <3>1
    <3>3. QED
      BY <3>1, <3>2
  <2>2. ASSUME NEW k \in 1 .. Len(body), NEW i \in 1 .. iter,
               body[k][1] = "launch", i = iter => k < pc + 1
        PROVE  OpAt(k, i) \in issued
    <3>1. i = iter => k < pc
      BY <1>1, <1>3, <2>2
    <3>2. QED
      BY <1>2, <2>2, <3>1 DEF IssuedInv
  <2>3. \A q \in issued : q[4] \in 1 .. iter
    BY <1>2 DEF IssuedInv
  <2>4. QED
    BY <1>1, <2>1, <2>2, <2>3 DEF IssuedInv, OpAt
<1>8. SyncedInv'
  <2>1. ASSUME NEW j \in 1 .. pc, NEW k \in 1 .. j - 1,
               body[k][1] = "launch", body[j] = <<"sync", StreamOf(body[k][2]), body[k][3], 0>>
        PROVE  OpAt(k, iter) \in done
    <3>1. CASE j = pc
      <4>1. k \in 1 .. Len(body) /\ k < pc
        BY <1>3, <3>1
      <4>2. OpAt(k, iter) \in issued
        BY <1>2, <1>4, <2>1, <4>1 DEF IssuedInv
      <4>3. OpAt(k, iter)[2] = body[pc][3] /\ StreamOf(OpAt(k, iter)[1]) = body[pc][2]
        BY <2>1, <3>1 DEF OpAt
      <4>4. QED
        BY <1>1, <4>2, <4>3
    <3>2. CASE j # pc
      <4>1. j \in 1 .. pc - 1
        BY <1>3, <3>2
      <4>2. QED
        BY <1>2, <2>1, <4>1 DEF SyncedInv
    <3>3. QED
      BY <3>1, <3>2
  <2>2. pc' - 1 = pc
    BY <1>1, <1>3
  <2>3. QED
    BY <1>1, <1>2, <2>1, <2>2 DEF SyncedInv, OpAt
<1>9. QED
  BY <1>5, <1>6, <1>7, <1>8 DEF Inv

(* The body returns: behind everything it has launched it has waited for   *)
(* the stream, so that all of the call is done.                            *)
LEMMA BodyReturns ==
  ASSUME Inv, Measuring, pc > Len(body)
  PROVE  /\ \A o \in issued : o \in done
         /\ \A k \in 1 .. Len(body), i \in 1 .. iter : body[k][1] = "launch" => OpAt(k, i) \in done
<1>1. TypeInv /\ BodyInv /\ IssuedInv /\ SyncedInv
  BY DEF Inv
<1>2. Len(body) \in Nat /\ body \in Seq(Calls) /\ pc = Len(body) + 1
  BY <1>1 DEF TypeInv
<1>3. row \in 1 .. Len(Rows) /\ measure \in 1 .. 4
  BY <1>1 DEF TypeInv, Measuring, Measures
<1>4. Closed(body)
  BY <1>1, <1>3, BodiesOfRows DEF BodyInv
<1>5. iter \in Nat
  BY <1>1, OverlapAssumption DEF TypeInv
<1>6. ASSUME NEW o \in issued PROVE o \in done
  <2>1. PICK k \in 1 .. Len(body) :
          body[k] = <<"launch", o[1], o[2], o[3]>> /\ (o[4] = iter => k < pc)
    BY <1>1 DEF IssuedInv
  <2>2. o[1] \in OpKinds /\ o[2] \in Devices /\ o[3] \in Nat /\ o = <<o[1], o[2], o[3], o[4]>>
    BY <1>1 DEF TypeInv, Ops
  <2>3. FollowedBy(body, <<"launch", o[1], o[2], o[3]>>, <<"sync", StreamOf(o[1]), o[2], 0>>)
    BY <1>4, <2>2 DEF Closed
  <2>4. PICK j \in k + 1 .. Len(body) : body[j] = <<"sync", StreamOf(o[1]), o[2], 0>>
    BY <2>1, <2>3 DEF FollowedBy
  <2>5. j \in 1 .. pc - 1 /\ k \in 1 .. j - 1
    BY <1>2
  <2>6. body[k][1] = "launch" /\ body[k][2] = o[1] /\ body[k][3] = o[2] /\ body[k][4] = o[3]
    BY <2>1
  <2>7. OpAt(k, iter) \in done
    BY <1>1, <2>4, <2>5, <2>6 DEF SyncedInv
  <2>8. OpAt(k, iter) = <<o[1], o[2], o[3], iter>>
    BY <2>6 DEF OpAt
  <2>9. o[4] = iter => o \in done
    BY <2>2, <2>7, <2>8
  <2>10. o[4] < iter => o \in done
    BY <1>1 DEF SyncedInv
  <2>11. o[4] \in 1 .. iter
    BY <1>1 DEF IssuedInv
  <2>12. QED
    BY <1>5, <2>9, <2>10, <2>11
<1>7. ASSUME NEW k \in 1 .. Len(body), NEW i \in 1 .. iter, body[k][1] = "launch"
      PROVE  OpAt(k, i) \in done
  <2>1. k < pc
    BY <1>2
  <2>2. OpAt(k, i) \in issued
    BY <1>1, <1>7, <2>1 DEF IssuedInv
  <2>3. QED
    BY <1>6, <2>2
<1>8. QED
  BY <1>6, <1>7

(* NextIteration.                                                          *)
LEMMA InvNextIteration ==
  ASSUME Inv, NextIteration
  PROVE  Inv'
<1>1. /\ Measuring /\ pc > Len(body) /\ iter < Warmup + Iters /\ iter' = iter + 1 /\ pc' = 1
      /\ UNCHANGED <<row, measure, body, stamp, spans, issued, running, done>>
  BY DEF NextIteration, cudaVars
<1>2. TypeInv /\ BodyInv /\ IssuedInv /\ SyncedInv
  BY DEF Inv
<1>3. /\ \A o \in issued : o \in done
      /\ \A k \in 1 .. Len(body), i \in 1 .. iter : body[k][1] = "launch" => OpAt(k, i) \in done
  BY <1>1, BodyReturns
<1>4. Warmup \in Nat /\ Iters \in Nat /\ iter \in 1 .. Warmup + Iters /\ Len(body) \in Nat
  BY <1>2, OverlapAssumption DEF TypeInv
<1>5. TypeInv'
  <2>1. pc' \in 1 .. Len(body') + 1 /\ iter' \in 1 .. Warmup + Iters
    BY <1>1, <1>4
  <2>2. QED
    BY <1>1, <1>2, <2>1 DEF TypeInv, Ops, Devices, Streams, OpKinds, Events, Calls
<1>6. BodyInv'
  BY <1>1, <1>2 DEF BodyInv, Measuring
<1>7. IssuedInv'
  <2>1. ASSUME NEW o \in issued
        PROVE  /\ o[4] \in 1 .. iter + 1
               /\ \E k \in 1 .. Len(body) :
                    body[k] = <<"launch", o[1], o[2], o[3]>> /\ (o[4] = iter + 1 => k < 1)
    <3>1. o[4] \in 1 .. iter
      BY <1>2 DEF IssuedInv
    <3>2. o[4] \in 1 .. iter + 1 /\ o[4] # iter + 1
      BY <1>4, <3>1
    <3>3. PICK k \in 1 .. Len(body) : body[k] = <<"launch", o[1], o[2], o[3]>>
      BY <1>2 DEF IssuedInv
    <3>4. QED
      BY <3>2, <3>3
  <2>2. ASSUME NEW k \in 1 .. Len(body), NEW i \in 1 .. iter + 1,
               body[k][1] = "launch", i = iter + 1 => k < 1
        PROVE  OpAt(k, i) \in issued
    <3>1. i \in 1 .. iter
      BY <1>4, <2>2
    <3>2. QED
      BY <1>2, <1>3, <2>2, <3>1 DEF TypeInv
  <2>3. QED
    BY <1>1, <2>1, <2>2 DEF IssuedInv, OpAt
<1>8. SyncedInv'
  <2>1. 1 .. pc' - 1 = {}
    BY <1>1
  <2>2. QED
    BY <1>1, <1>3, <2>1 DEF SyncedInv
<1>9. QED
  BY <1>5, <1>6, <1>7, <1>8 DEF Inv

(* NextMeasure.                                                            *)
LEMMA InvNextMeasure ==
  ASSUME Inv, NextMeasure
  PROVE  Inv'
<1>1. /\ Measuring /\ measure' = measure + 1 /\ iter' = 1 /\ pc' = 1
      /\ body' = IF measure < Len(Measures) THEN Body(row, Measures[measure + 1]) ELSE << >>
      /\ issued' = {} /\ running' = {} /\ done' = {}
      /\ UNCHANGED <<row, stamp, spans>>
  BY DEF NextMeasure, CudaReset
<1>2. TypeInv /\ BodyInv
  BY DEF Inv
<1>3. Warmup \in Nat /\ Iters \in Nat \ {0} /\ Len(Measures) = 4 /\ Len(Rows) \in Nat
  BY OverlapAssumption, RowsTyped DEF Measures
<1>4. row \in 1 .. Len(Rows) /\ measure \in 1 .. 4
  BY <1>1, <1>2, <1>3 DEF TypeInv, Measuring
<1>5. body' \in Seq(Calls)
  <2>1. CASE measure < 4
    <3>1. measure + 1 \in 1 .. 4
      BY <1>4, <2>1
    <3>2. QED
      BY <1>1, <1>3, <1>4, <2>1, <3>1, BodiesOfRows
  <2>2. CASE ~(measure < 4)
    BY <1>1, <1>3, <2>2
  <2>3. QED
    BY <2>1, <2>2
<1>6. TypeInv'
  <2>1. pc' \in 1 .. Len(body') + 1 /\ iter' \in 1 .. Warmup + Iters
    BY <1>1, <1>3, <1>5
  <2>2. measure' \in 1 .. Len(Measures) + 1
    BY <1>1, <1>3, <1>4
  <2>3. IsFiniteSet(issued')
    BY <1>1, FS_EmptySet
  <2>4. body' \in Seq(Calls)'
    BY <1>5 DEF Calls, Devices, Streams, OpKinds
  <2>5. QED
    BY <1>1, <1>2, <2>1, <2>2, <2>3, <2>4
       DEF TypeInv, Ops, Devices, Streams, OpKinds, Events, Calls, Measures
<1>7. BodyInv'
  <2>1. Measuring' => measure < Len(Measures)
    BY <1>1, <1>3, <1>4 DEF Measuring
  <2>2. ~(row' > Len(Rows))
    BY <1>1, <1>3, <1>4
  <2>3. QED
    BY <1>1, <1>3, <2>1, <2>2 DEF BodyInv
<1>8. IssuedInv'
  <2>1. \A k, i : i \in 1 .. 1 /\ k \in 1 .. Len(body') => ~(i = 1 => k < 1)
    BY <1>5
  <2>2. QED
    BY <1>1, <2>1 DEF IssuedInv
<1>9. SyncedInv'
  BY <1>1 DEF SyncedInv
<1>10. QED
  BY <1>6, <1>7, <1>8, <1>9 DEF Inv

(* Elapsed.                                                                *)
LEMMA InvElapsed ==
  ASSUME Inv, Elapsed
  PROVE  Inv'
<1>1. /\ row <= Len(Rows) /\ measure > Len(Measures) /\ row' = row + 1 /\ measure' = 1
      /\ spans' = [s \in Streams \X Devices |-> SpanOf(s[1], s[2])]
      /\ body' = IF row < Len(Rows) THEN Body(row + 1, Measures[1]) ELSE << >>
      /\ UNCHANGED <<iter, pc, stamp, issued, running, done>>
  BY DEF Elapsed, cudaVars
<1>2. TypeInv /\ BodyInv
  BY DEF Inv
<1>3. Warmup \in Nat /\ Iters \in Nat \ {0} /\ Len(Measures) = 4 /\ Len(Rows) \in Nat
  BY OverlapAssumption, RowsTyped DEF Measures
<1>4. row \in 1 .. Len(Rows) /\ ~Measuring
  BY <1>1, <1>2, <1>3 DEF TypeInv, Measuring
<1>5. issued = {} /\ running = {} /\ done = {} /\ iter = 1 /\ pc = 1
  BY <1>2, <1>4 DEF BodyInv, TypeInv
<1>6. body' \in Seq(Calls)
  <2>1. CASE row < Len(Rows)
    <3>1. row + 1 \in 1 .. Len(Rows)
      BY <1>3, <1>4, <2>1
    <3>2. QED
      BY <1>1, <2>1, <3>1, BodiesOfRows
  <2>2. CASE ~(row < Len(Rows))
    BY <1>1, <2>2
  <2>3. QED
    BY <2>1, <2>2
<1>7. TypeInv'
  <2>1. pc' \in 1 .. Len(body') + 1 /\ iter' \in 1 .. Warmup + Iters
    BY <1>1, <1>3, <1>5, <1>6
  <2>2. row' \in 1 .. Len(Rows) + 1 /\ measure' \in 1 .. Len(Measures) + 1
    BY <1>1, <1>3, <1>4
  <2>3. spans' \in [Streams \X Devices -> Int]
    <3>1. ASSUME NEW s \in Streams, NEW d \in Devices PROVE SpanOf(s, d) \in Int
      <4>1. /\ <<"compE", d>> \in Events /\ <<"compS", d>> \in Events
            /\ <<"commE", d>> \in Events /\ <<"commS", d>> \in Events
        BY DEF Events, OpKinds, Streams
      <4>2. \A e \in Events : stamp[e] \in Int
        BY <1>2 DEF TypeInv
      <4>3. QED
        BY <4>1, <4>2 DEF SpanOf
    <3>2. \A x \in Streams \X Devices : SpanOf(x[1], x[2]) \in Int
      BY <3>1
    <3>3. QED
      BY <1>1, <3>2
  <2>4. body' \in Seq(Calls)'
    BY <1>6 DEF Calls, Devices, Streams, OpKinds
  <2>5. QED
    BY <1>1, <1>2, <2>1, <2>2, <2>3, <2>4
       DEF TypeInv, Ops, Devices, Streams, OpKinds, Events, Calls, Measures
<1>8. BodyInv'
  <2>1. row' <= Len(Rows) => row < Len(Rows)
    BY <1>1, <1>3, <1>4
  <2>2. QED
    BY <1>1, <1>3, <1>5, <2>1 DEF BodyInv, Measuring
<1>9. IssuedInv'
  <2>1. \A k, i : i \in 1 .. 1 /\ k \in 1 .. Len(body') => ~(i = 1 => k < 1)
    BY <1>6
  <2>2. QED
    BY <1>1, <1>5, <2>1 DEF IssuedInv
<1>10. SyncedInv'
  BY <1>1, <1>5 DEF SyncedInv
<1>11. QED
  BY <1>7, <1>8, <1>9, <1>10 DEF Inv

(* The device's steps issue nothing, and do nothing undone.                *)
LEMMA InvDevice ==
  ASSUME Inv, issued' = issued, running' \subseteq issued, done' \subseteq issued,
         running' \cap done' = {}, done \subseteq done',
         stamp' \in [Events -> Nat], UNCHANGED <<row, measure, iter, body, pc, spans>>
  PROVE  Inv'
<1>1. TypeInv /\ BodyInv /\ IssuedInv /\ SyncedInv
  BY DEF Inv
<1>2. TypeInv'
  BY <1>1 DEF TypeInv, Ops, Devices, Streams, OpKinds, Events, Calls
<1>3. BodyInv'
  BY <1>1 DEF BodyInv, Measuring, Measures
<1>4. IssuedInv'
  BY <1>1 DEF IssuedInv, OpAt
<1>5. SyncedInv'
  BY <1>1 DEF SyncedInv, OpAt
<1>6. QED
  BY <1>2, <1>3, <1>4, <1>5 DEF Inv

(* Begin,                                                                  *)
LEMMA InvBegin ==
  ASSUME Inv, NEW o \in issued \ done, Begin(o)
  PROVE  Inv'
<1>1. TypeInv
  BY DEF Inv
<1>2. /\ running' = running \cup {o} /\ UNCHANGED <<issued, done>>
      /\ UNCHANGED <<row, measure, iter, body, pc, stamp, spans>>
  BY DEF Begin, DeviceBegin, hostVars
<1>3. /\ issued' = issued /\ running' \subseteq issued /\ done' \subseteq issued
      /\ running' \cap done' = {} /\ done \subseteq done' /\ stamp' \in [Events -> Nat]
  BY <1>1, <1>2 DEF TypeInv
<1>4. QED
  BY <1>2, <1>3, InvDevice

(* EndWork,                                                                *)
LEMMA InvEndWork ==
  ASSUME Inv, NEW o \in running, EndWork(o)
  PROVE  Inv'
<1>1. TypeInv
  BY DEF Inv
<1>2. /\ running' = running \ {o} /\ done' = done \cup {o} /\ issued' = issued
      /\ UNCHANGED <<row, measure, iter, body, pc, stamp, spans>>
  BY DEF EndWork, DeviceEnd, hostVars
<1>3. /\ running' \subseteq issued /\ done' \subseteq issued
      /\ running' \cap done' = {} /\ done \subseteq done' /\ stamp' \in [Events -> Nat]
  BY <1>1, <1>2 DEF TypeInv
<1>4. QED
  BY <1>2, <1>3, InvDevice

(* and EndRecord, whose count is a number because what is issued is        *)
(* finite.                                                                 *)
LEMMA InvEndRecord ==
  ASSUME Inv, NEW o \in running, EndRecord(o)
  PROVE  Inv'
<1>1. TypeInv
  BY DEF Inv
<1>2. /\ running' = running \ {o} /\ done' = done \cup {o} /\ issued' = issued
      /\ stamp' = [stamp EXCEPT ![<<o[1], o[2]>>] = FinishedWork(StreamOf(o[1]), o[2])]
      /\ UNCHANGED <<row, measure, iter, body, pc, spans>>
  BY DEF EndRecord, DeviceEnd
<1>3. FinishedWork(StreamOf(o[1]), o[2]) \in Nat
  <2>1. {p \in done : p[1] = StreamOf(o[1]) /\ p[2] = o[2]} \subseteq issued
    BY <1>1 DEF TypeInv
  <2>2. IsFiniteSet({p \in done : p[1] = StreamOf(o[1]) /\ p[2] = o[2]})
    BY <1>1, <2>1, FS_Subset DEF TypeInv
  <2>3. QED
    BY <2>2, FS_CardinalityType DEF FinishedWork
<1>4. stamp' \in [Events -> Nat]
  BY <1>1, <1>2, <1>3 DEF TypeInv
<1>5. /\ running' \subseteq issued /\ done' \subseteq issued
      /\ running' \cap done' = {} /\ done \subseteq done'
  BY <1>1, <1>2 DEF TypeInv
<1>6. QED
  BY <1>2, <1>4, <1>5, InvDevice

(* Every step keeps the invariant, so that it holds of the program.        *)
LEMMA InvNext == Inv /\ [Next]_vars => Inv'
<1> SUFFICES ASSUME Inv, [Next]_vars PROVE Inv'
  OBVIOUS
<1>1. CASE Launch
  BY <1>1, InvLaunch
<1>2. CASE Sync
  BY <1>2, InvSync
<1>3. CASE NextIteration
  BY <1>3, InvNextIteration
<1>4. CASE NextMeasure
  BY <1>4, InvNextMeasure
<1>5. CASE Elapsed
  BY <1>5, InvElapsed
<1>6. ASSUME NEW o \in issued \ done, Begin(o) PROVE Inv'
  BY <1>6, InvBegin
<1>7. ASSUME NEW o \in running, EndWork(o) PROVE Inv'
  BY <1>7, InvEndWork
<1>8. ASSUME NEW o \in running, EndRecord(o) PROVE Inv'
  BY <1>8, InvEndRecord
<1>9. CASE UNCHANGED vars
  <2>1. UNCHANGED <<row, measure, iter, body, pc, stamp, spans, issued, running, done>>
    BY <1>9 DEF vars, hostVars, cudaVars
  <2>2. TypeInv
    BY DEF Inv
  <2>3. /\ running' \subseteq issued /\ done' \subseteq issued
        /\ running' \cap done' = {} /\ stamp' \in [Events -> Nat]
    BY <2>1, <2>2 DEF TypeInv
  <2>4. QED
    BY <2>1, <2>3, InvDevice
<1>10. QED
  BY <1>1, <1>2, <1>3, <1>4, <1>5, <1>6, <1>7, <1>8, <1>9 DEF Next, Host, Device, Finished

(* The types of the variables, for every instance.                         *)
THEOREM TypeCorrect == Spec => []TypeInv
<1>1. Inv => TypeInv
  BY DEF Inv
<1>2. QED
  BY <1>1, InvInit, InvNext, PTL DEF Spec

(* timeUs: no work of one call of a body is unfinished while any work of   *)
(* the next one is issued, because every body waits behind all that it     *)
(* launched.                                                               *)
THEOREM EveryCallIsSeparate == Spec => []IterationsAreSeparate
<1>1. Inv => IterationsAreSeparate
  <2> SUFFICES ASSUME Inv, NEW o \in issued, NEW p \in issued \ done
               PROVE  o[4] <= p[4]
    BY DEF IterationsAreSeparate
  <2>1. o[4] \in 1 .. iter /\ p[4] \in 1 .. iter /\ ~(p[4] < iter)
    BY DEF Inv, IssuedInv, SyncedInv
  <2>2. iter \in Nat
    BY OverlapAssumption DEF Inv, TypeInv
  <2>3. QED
    BY <2>1, <2>2
<1>2. QED
  BY <1>1, InvInit, InvNext, PTL DEF Spec

(* The sequential baseline: no device communicates while any computes,     *)
(* because the host waits for every compute stream before it launches an   *)
(* AllReduce.                                                              *)
THEOREM TheBaselineIsSequential == Spec => []SequentialNeverOverlaps
<1>1. Inv => SequentialNeverOverlaps
  <2> SUFFICES ASSUME Inv, Measuring, Measures[measure] = "sequential",
                      NEW o \in running, NEW p \in running, o[1] = "compute", p[1] = "comm"
               PROVE  FALSE
    BY DEF SequentialNeverOverlaps
  <2>1. TypeInv /\ BodyInv /\ IssuedInv /\ SyncedInv
    BY DEF Inv
  <2>2. o \in issued /\ p \in issued /\ o \notin done /\ p \notin done
    BY <2>1 DEF TypeInv
  <2>3. iter \in Nat /\ Len(body) \in Nat /\ pc \in 1 .. Len(body) + 1
    BY <2>1, OverlapAssumption DEF TypeInv
  <2>4. o[4] = iter /\ p[4] = iter
    <3>1. o[4] \in 1 .. iter /\ p[4] \in 1 .. iter /\ ~(o[4] < iter) /\ ~(p[4] < iter)
      BY <2>1, <2>2 DEF IssuedInv, SyncedInv
    <3>2. QED
      BY <2>3, <3>1
  <2>5. row \in 1 .. Len(Rows) /\ body = Body(row, "sequential")
    BY <2>1 DEF TypeInv, BodyInv, Measuring
  <2>6. NStages(row) \in Nat /\ body = Sequential(NStages(row))
    BY <2>5, RowsTyped DEF Body
  <2>7. /\ o[2] \in Devices /\ o[3] \in Nat /\ p[2] \in Devices /\ p[3] \in Nat
        /\ o = <<"compute", o[2], o[3], iter>>
    BY <2>1, <2>2, <2>4 DEF TypeInv, Ops
  <2>8. PICK k \in 1 .. Len(body) : body[k] = <<"launch", "compute", o[2], o[3]>> /\ k < pc
    BY <2>1, <2>2, <2>4 DEF IssuedInv
  <2>9. PICK l \in 1 .. Len(body) : body[l] = <<"launch", "comm", p[2], p[3]>> /\ l < pc
    BY <2>1, <2>2, <2>4 DEF IssuedInv
  <2>10. ByWayOf(body, <<"launch", "compute", o[2], o[3]>>,
                 <<"launch", "comm", p[2], p[3]>>, <<"sync", "compute", o[2], 0>>)
    BY <2>6, <2>7, SequentialBody
  <2>11. PICK j \in k + 1 .. l - 1 : body[j] = <<"sync", "compute", o[2], 0>>
    BY <2>8, <2>9, <2>10 DEF ByWayOf
  <2>12. j \in 1 .. pc - 1 /\ k \in 1 .. j - 1
    BY <2>3, <2>8, <2>9
  <2>13. /\ body[k][1] = "launch" /\ body[k][2] = "compute" /\ body[k][3] = o[2]
         /\ body[k][4] = o[3] /\ StreamOf("compute") = "compute"
    BY <2>8 DEF StreamOf
  <2>14. OpAt(k, iter) \in done
    BY <2>1, <2>11, <2>12, <2>13 DEF SyncedInv
  <2>15. QED
    BY <2>2, <2>7, <2>13, <2>14 DEF OpAt
<1>2. QED
  BY <1>1, InvInit, InvNext, PTL DEF Spec

-----------------------------------------------------------------------------
(* The work of a stream in the first calls of a body, and how much it is.  *)
WorkOf(s, d, n, i) == {<<s, d, b, j>> : b \in 1 .. n, j \in 1 .. i}
(* It is as much as there are stages and calls.                            *)
LEMMA WorkCounted ==
  ASSUME NEW s, NEW d, NEW n \in Nat, NEW i \in Nat
  PROVE  Cardinality(WorkOf(s, d, n, i)) = n * i
<1> DEFINE A == 1 .. n
           B == 1 .. i
           f == [x \in A \X B |-> <<s, d, x[1], x[2]>>]
<1>1. IsFiniteSet(A) /\ Cardinality(A) = n /\ IsFiniteSet(B) /\ Cardinality(B) = i
  BY FS_Interval
<1>2. f \in Surjection(A \X B, WorkOf(s, d, n, i))
  <2>1. \A x \in A \X B : f[x] \in WorkOf(s, d, n, i)
    BY DEF WorkOf
  <2>2. \A y \in WorkOf(s, d, n, i) : \E x \in A \X B : f[x] = y
    <3> TAKE y \in WorkOf(s, d, n, i)
    <3>1. PICK b \in A, j \in B : y = <<s, d, b, j>>
      BY DEF WorkOf
    <3>2. <<b, j>> \in A \X B /\ f[<<b, j>>] = <<s, d, b, j>>
      OBVIOUS
    <3>3. QED
      BY <3>1, <3>2
  <2>3. QED
    BY <2>1, <2>2 DEF Surjection
<1>3. f \in Injection(A \X B, WorkOf(s, d, n, i))
  <2>1. ASSUME NEW x \in A \X B, NEW y \in A \X B, f[x] = f[y] PROVE x = y
    <3>1. x[1] = y[1] /\ x[2] = y[2]
      BY <2>1
    <3>2. x = <<x[1], x[2]>> /\ y = <<y[1], y[2]>>
      OBVIOUS
    <3>3. QED
      BY <3>1, <3>2
  <2>2. f \in [A \X B -> WorkOf(s, d, n, i)]
    BY <1>2 DEF Surjection
  <2>3. QED
    BY <2>1, <2>2 DEF Injection, IsInjective
<1> HIDE DEF A, B, f
<1>4. IsFiniteSet(A \X B) /\ Cardinality(A \X B) = n * i
  BY <1>1, FS_Product
<1>5. Cardinality(WorkOf(s, d, n, i)) = Cardinality(A \X B)
  BY <1>2, <1>3, <1>4, FS_Surjection
<1>6. QED
  BY <1>4, <1>5

(* Where an operation is in a body that has no call twice.                 *)
LEMMA PlaceIs ==
  ASSUME NoRepeats(body), NEW k \in 1 .. Len(body), NEW o,
         body[k] = <<"launch", o[1], o[2], o[3]>>
  PROVE  Place(o) = k
  BY DEF Place, NoRepeats

(* The events of the streams.                                              *)
LEMMA EventsOf ==
  /\ \A s \in Streams :
       /\ StartOf(s) \in OpKinds \ Streams /\ StreamOf(StartOf(s)) = s
       /\ EndOf(s) \in OpKinds \ Streams /\ StreamOf(EndOf(s)) = s
       /\ s \in OpKinds /\ StreamOf(s) = s /\ StartOf(s) # EndOf(s)
  /\ \A e \in OpKinds \ Streams :
       StreamOf(e) \in Streams /\ (e = StartOf(StreamOf(e)) \/ e = EndOf(StreamOf(e)))
  BY DEF StartOf, EndOf, Streams, OpKinds, StreamOf

(* In the overlapped body, what is issued.                                 *)
LEMMA OverlappedBody ==
  ASSUME Inv, Overlapping
  PROVE  /\ row \in 1 .. Len(Rows) /\ NStages(row) \in Nat /\ iter \in Nat /\ iter >= 1
         /\ Len(body) \in Nat /\ pc \in 1 .. Len(body) + 1
         /\ Bracketed(body, NStages(row))
         /\ \A o \in issued :
              /\ o[1] \in OpKinds /\ o[2] \in Devices /\ o[4] \in 1 .. iter
              /\ o = <<o[1], o[2], o[3], o[4]>>
              /\ o[3] \in (IF o[1] \in Streams THEN 1 .. NStages(row) ELSE {0})
<1>1. TypeInv /\ BodyInv /\ IssuedInv /\ SyncedInv
  BY DEF Inv
<1>2. row \in 1 .. Len(Rows) /\ Measures[4] = "overlapped"
  BY <1>1 DEF TypeInv, Overlapping, Measuring, Measures
<1>3. NStages(row) \in Nat
  BY <1>2, RowsTyped
<1>4. Bracketed(body, NStages(row))
  BY <1>1, <1>2, <1>3, Bodies DEF BodyInv, Overlapping
<1>5. ASSUME NEW o \in issued
      PROVE  /\ o[1] \in OpKinds /\ o[2] \in Devices /\ o[4] \in 1 .. iter
             /\ o = <<o[1], o[2], o[3], o[4]>>
             /\ o[3] \in (IF o[1] \in Streams THEN 1 .. NStages(row) ELSE {0})
  <2>1. o[1] \in OpKinds /\ o[2] \in Devices /\ o[3] \in Nat /\ o = <<o[1], o[2], o[3], o[4]>>
    BY <1>1 DEF TypeInv, Ops
  <2>2. Has(body, <<"launch", o[1], o[2], o[3]>>)
    BY <1>1 DEF IssuedInv, Has
  <2>3. o[3] \in (IF o[1] \in Streams THEN 1 .. NStages(row) ELSE {0})
    BY <1>4, <2>1, <2>2 DEF Bracketed
  <2>4. QED
    BY <1>1, <2>1, <2>3 DEF IssuedInv
<1>6. iter \in Nat /\ iter >= 1 /\ Len(body) \in Nat /\ pc \in 1 .. Len(body) + 1
  BY <1>1, OverlapAssumption DEF TypeInv
<1>7. QED
  BY <1>2, <1>3, <1>4, <1>5, <1>6

(* What an event sees that a stream reaches.                               *)
LEMMA AtRecord ==
  ASSUME Inv, Overlapping, OrderInv, NEW o \in running, o[1] \notin Streams
  PROVE  LET s == StreamOf(o[1])
             n == NStages(row)
         IN  /\ o[4] = iter
             /\ FinishedWork(s, o[2]) =
                  IF o[1] = StartOf(s) THEN n * (iter - 1) ELSE n * (iter - 1) + n
<1> DEFINE s == StreamOf(o[1])
           d == o[2]
           n == NStages(row)
           T == {p \in done : p[1] = s /\ p[2] = d}
<1>1. TypeInv /\ IssuedInv /\ SyncedInv
  BY DEF Inv
<1>2. o \in issued /\ o \notin done /\ done \subseteq issued
  BY <1>1 DEF TypeInv
<1>3. /\ n \in Nat /\ iter \in Nat /\ iter >= 1 /\ Bracketed(body, n)
      /\ o[1] \in OpKinds /\ d \in Devices /\ o[4] \in 1 .. iter /\ o[3] = 0
      /\ o = <<o[1], o[2], o[3], o[4]>>
  BY <1>2, OverlappedBody
<1>4. o[4] = iter
  BY <1>1, <1>2, <1>3 DEF SyncedInv
<1>5. s \in Streams /\ s \in OpKinds /\ StreamOf(s) = s /\ (o[1] = StartOf(s) \/ o[1] = EndOf(s))
  BY <1>3, EventsOf
<1>6. PICK k \in 1 .. Len(body) : body[k] = <<"launch", o[1], o[2], 0>> /\ k < pc
  BY <1>1, <1>2, <1>3, <1>4 DEF IssuedInv
<1>7. NoRepeats(body) /\ Place(o) = k
  BY <1>3, <1>6, PlaceIs DEF Bracketed
<1>8. ASSUME NEW p \in T PROVE p[3] \in 1 .. n /\ p[4] \in 1 .. iter /\ p = <<s, d, p[3], p[4]>>
  <2>1. p \in issued /\ p[1] = s /\ p[2] = d
    BY <1>2
  <2>2. QED
    BY <1>5, <2>1, OverlappedBody
<1>9. ASSUME NEW b \in 1 .. n
      PROVE  \E l \in 1 .. Len(body) : body[l] = <<"launch", s, d, b>>
  <2>1. b \in Nat /\ Has(body, <<"launch", s, d, b>>)
    BY <1>3, <1>5, EventsOf DEF Bracketed
  <2>2. QED
    BY <2>1 DEF Has
<1>10. ASSUME NEW b \in 1 .. n, NEW j \in 1 .. iter - 1 PROVE <<s, d, b, j>> \in T
  <2>1. PICK l \in 1 .. Len(body) : body[l] = <<"launch", s, d, b>>
    BY <1>9
  <2>2. j \in 1 .. iter /\ j < iter
    BY <1>3
  <2>3. OpAt(l, j) = <<s, d, b, j>> /\ body[l][1] = "launch"
    BY <2>1 DEF OpAt
  <2>4. <<s, d, b, j>> \in issued
    BY <1>1, <2>2, <2>3 DEF IssuedInv
  <2>5. <<s, d, b, j>> \in done
    BY <1>1, <2>2, <2>4 DEF SyncedInv
  <2>6. QED
    BY <2>5
<1>11. CASE o[1] = StartOf(s)
  <2>1. ASSUME NEW b \in 1 .. n, <<s, d, b, iter>> \in done PROVE FALSE
    <3> DEFINE p == <<s, d, b, iter>>
    <3>1. PICK l \in 1 .. Len(body) : body[l] = <<"launch", s, d, b>>
      BY <1>9
    <3>2. Place(p) = l
      BY <1>7, <3>1, PlaceIs
    <3>3. Precedes(body, <<"launch", o[1], d, 0>>, <<"launch", s, d, b>>)
      BY <1>3, <1>5, <1>11 DEF Bracketed
    <3>4. k < l
      BY <1>6, <3>1, <3>3 DEF Precedes
    <3>5. AheadInStream(o, p)
      BY <1>4, <1>5, <1>7, <3>2, <3>4 DEF AheadInStream, SameStream
    <3>6. QED
      BY <1>2, <2>1, <3>5 DEF OrderInv
  <2>2. T = WorkOf(s, d, n, iter - 1)
    <3>1. ASSUME NEW p \in T PROVE p \in WorkOf(s, d, n, iter - 1)
      <4>1. p[3] \in 1 .. n /\ p[4] \in 1 .. iter /\ p = <<s, d, p[3], p[4]>> /\ p \in done
        BY <1>8
      <4>2. p[4] # iter
        BY <2>1, <4>1
      <4>3. p[4] \in 1 .. iter - 1
        BY <1>3, <4>1, <4>2
      <4>4. QED
        BY <4>1, <4>3 DEF WorkOf
    <3>2. ASSUME NEW p \in WorkOf(s, d, n, iter - 1) PROVE p \in T
      <4>1. PICK b \in 1 .. n, j \in 1 .. iter - 1 : p = <<s, d, b, j>>
        BY DEF WorkOf
      <4>2. QED
        BY <1>10, <4>1
    <3> HIDE DEF T
    <3>3. QED
      BY <3>1, <3>2
  <2>3. Cardinality(T) = n * (iter - 1)
    <3>1. n \in Nat /\ iter - 1 \in Nat
      BY <1>3
    <3> HIDE DEF T, n, s, d
    <3>2. Cardinality(WorkOf(s, d, n, iter - 1)) = n * (iter - 1)
      BY <3>1, WorkCounted
    <3>3. QED
      BY <2>2, <3>2
  <2>4. QED
    BY <1>4, <1>11, <2>3 DEF FinishedWork
<1>12. CASE o[1] = EndOf(s) /\ o[1] # StartOf(s)
  <2>1. ASSUME NEW b \in 1 .. n PROVE <<s, d, b, iter>> \in T
    <3> DEFINE p == <<s, d, b, iter>>
    <3>1. PICK l \in 1 .. Len(body) : body[l] = <<"launch", s, d, b>>
      BY <1>9
    <3>2. Place(p) = l
      BY <1>7, <3>1, PlaceIs
    <3>3. Precedes(body, <<"launch", s, d, b>>, <<"launch", o[1], d, 0>>)
      BY <1>3, <1>5, <1>12 DEF Bracketed
    <3>4. l < k
      BY <1>6, <3>1, <3>3 DEF Precedes
    <3>5. l < pc /\ iter \in 1 .. iter /\ OpAt(l, iter) = p /\ body[l][1] = "launch"
      <4>1. pc \in Int
        BY <1>1 DEF TypeInv
      <4>2. QED
        BY <1>3, <1>6, <3>1, <3>4, <4>1 DEF OpAt
    <3>6. p \in issued
      BY <1>1, <3>5 DEF IssuedInv
    <3>7. AheadInStream(p, o)
      BY <1>4, <1>5, <1>7, <3>2, <3>4 DEF AheadInStream, SameStream
    <3>8. p \in done
      BY <3>6, <3>7 DEF OrderInv
    <3>9. QED
      BY <3>8
  <2>2. T = WorkOf(s, d, n, iter)
    <3>1. ASSUME NEW b \in 1 .. n, NEW j \in 1 .. iter PROVE <<s, d, b, j>> \in T
      <4>1. j = iter \/ j \in 1 .. iter - 1
        BY <1>3
      <4>2. QED
        BY <1>10, <2>1, <4>1
    <3>2. ASSUME NEW p \in T PROVE p \in WorkOf(s, d, n, iter)
      BY <1>8 DEF WorkOf
    <3>3. ASSUME NEW p \in WorkOf(s, d, n, iter) PROVE p \in T
      <4>1. PICK b \in 1 .. n, j \in 1 .. iter : p = <<s, d, b, j>>
        BY DEF WorkOf
      <4>2. QED
        BY <3>1, <4>1
    <3> HIDE DEF T
    <3>4. QED
      BY <3>2, <3>3
  <2>3. Cardinality(T) = n * iter
    <3>1. n \in Nat /\ iter \in Nat
      BY <1>3
    <3> HIDE DEF T, n, s, d
    <3>2. Cardinality(WorkOf(s, d, n, iter)) = n * iter
      BY <3>1, WorkCounted
    <3>3. QED
      BY <2>2, <3>2
  <2>4. n * iter = n * (iter - 1) + n
    BY <1>3
  <2>5. QED
    BY <1>4, <1>12, <2>3, <2>4 DEF FinishedWork
<1>13. QED
  BY <1>5, <1>11, <1>12

-----------------------------------------------------------------------------
(* Nothing has been read yet.                                              *)
LEMMA SpanInit == Init => SpanInv
  BY DEF Init, SpanInv, Overlapping

(* A step of the host that issues nothing, and no step.                    *)
LEMMA SpanStays ==
  ASSUME SpanInv, UNCHANGED <<row, measure, iter, body, stamp, spans, issued, running, done>>
  PROVE  SpanInv'
<1>1. Overlapping' <=> Overlapping
  BY DEF Overlapping, Measuring, Measures
<1>2. OrderInv => OrderInv'
  <2>1. \A p, o : AheadInStream(p, o)' <=> AheadInStream(p, o)
    BY DEF AheadInStream, SameStream, Place
  <2>2. QED
    BY <2>1 DEF OrderInv
<1>3. StampInv => StampInv'
  BY DEF StampInv, LatestRecord
<1>4. \A s, d : SpanOf(s, d)' = SpanOf(s, d)
  BY DEF SpanOf
<1>5. QED
  BY <1>1, <1>2, <1>3, <1>4 DEF SpanInv, Streams, Devices

(* The spans do not change while a row is measured.                        *)
LEMMA SpanOfRow ==
  ASSUME SpanInv, row' = row, spans' = spans, Measuring',
         Overlapping' => OrderInv' /\ StampInv'
  PROVE  SpanInv'
<1>1. measure' # 5
  BY DEF Measuring, Measures
<1>2. QED
  BY <1>1 DEF SpanInv, Streams, Devices

(* Launch: what is launched is behind all that is issued.                  *)
LEMMA SpanLaunch ==
  ASSUME Inv, SpanInv, Launch
  PROVE  SpanInv'
<1> DEFINE q == <<body[pc][2], body[pc][3], body[pc][4], iter>>
<1>1. /\ InBody /\ body[pc][1] = "launch" /\ issued' = issued \cup {q}
      /\ UNCHANGED <<row, measure, iter, body, stamp, spans, running, done>>
  BY DEF Launch, Enqueue
<1>2. Measuring' /\ (Overlapping' => Overlapping)
  BY <1>1 DEF Overlapping, Measuring, Measures, InBody
<1>3. ASSUME Overlapping PROVE OrderInv' /\ StampInv'
  <2>1. OrderInv /\ StampInv /\ TypeInv /\ IssuedInv
    BY <1>3 DEF SpanInv, Inv
  <2>2. /\ pc \in 1 .. Len(body) /\ iter \in Nat /\ NoRepeats(body) /\ body \in Seq(Calls)
        /\ \A o \in issued : o[4] \in 1 .. iter
    BY <1>1, <1>3, <2>1, OverlappedBody DEF InBody, Bracketed, TypeInv
  <2>3. body[pc] = <<"launch", body[pc][2], body[pc][3], body[pc][4]>>
    BY <1>1, <2>2, CallAt
  <2>4. q[4] = iter /\ Place(q) = pc
    BY <2>2, <2>3, PlaceIs
  <2> HIDE DEF q
  <2>5. ASSUME NEW o \in running \cup done PROVE ~AheadInStream(q, o)
    <3>1. o \in issued /\ o[4] \in 1 .. iter
      BY <2>1, <2>2 DEF TypeInv
    <3>2. PICK k \in 1 .. Len(body) :
            body[k] = <<"launch", o[1], o[2], o[3]>> /\ (o[4] = iter => k < pc)
      BY <2>1, <3>1 DEF IssuedInv
    <3>3. Place(o) = k
      BY <2>2, <3>2, PlaceIs
    <3>4. ~(q[4] < o[4]) /\ ~(q[4] = o[4] /\ Place(q) < Place(o))
      BY <2>2, <2>4, <3>1, <3>2, <3>3
    <3>5. QED
      BY <3>4 DEF AheadInStream
  <2>6. ASSUME NEW o \in running \cup done, NEW p \in issued \cup {q}, AheadInStream(p, o)
        PROVE  p \in done
    BY <2>1, <2>5, <2>6 DEF OrderInv
  <2>7. \A p, o : AheadInStream(p, o)' <=> AheadInStream(p, o)
    BY <1>1 DEF AheadInStream, SameStream, Place
  <2>8. OrderInv'
    BY <1>1, <2>6, <2>7 DEF OrderInv
  <2>9. StampInv'
    BY <1>1, <2>1 DEF StampInv, LatestRecord, Streams, Devices
  <2>10. QED
    BY <2>8, <2>9
<1>4. QED
  BY <1>1, <1>2, <1>3, SpanOfRow

(* NextIteration: no record of the new call is made yet.                   *)
LEMMA SpanNextIteration ==
  ASSUME Inv, SpanInv, NextIteration
  PROVE  SpanInv'
<1>1. /\ Measuring /\ iter' = iter + 1
      /\ UNCHANGED <<row, measure, body, stamp, spans, issued, running, done>>
  BY DEF NextIteration, cudaVars
<1>2. Measuring' /\ (Overlapping' => Overlapping)
  BY <1>1 DEF Overlapping, Measuring, Measures
<1>3. ASSUME Overlapping PROVE OrderInv' /\ StampInv'
  <2>1. OrderInv /\ StampInv /\ TypeInv
    BY <1>3 DEF SpanInv, Inv
  <2>2. iter \in Nat /\ \A o \in done : o[4] \in 1 .. iter
    BY <1>3, <2>1, OverlappedBody DEF TypeInv
  <2>3. OrderInv'
    <3>1. \A p, o : AheadInStream(p, o)' <=> AheadInStream(p, o)
      BY <1>1 DEF AheadInStream, SameStream, Place
    <3>2. QED
      BY <1>1, <2>1, <3>1 DEF OrderInv
  <2>4. ASSUME NEW e, NEW d, NEW i \in 1 .. iter + 1, LatestRecord(e, d, i)'
        PROVE  i \in 1 .. iter /\ LatestRecord(e, d, i)
    <3>1. <<e, d, 0, i>> \in done /\ \A k \in i + 1 .. iter + 1 : <<e, d, 0, k>> \notin done
      BY <1>1, <2>4 DEF LatestRecord
    <3>2. i \in 1 .. iter
      BY <2>2, <3>1
    <3>3. \A k \in i + 1 .. iter : k \in i + 1 .. iter + 1
      BY <2>2
    <3>4. QED
      BY <3>1, <3>2, <3>3 DEF LatestRecord
  <2>5. StampInv'
    <3>1. ASSUME NEW s \in Streams, NEW d \in Devices, NEW i \in 1 .. iter + 1
          PROVE  /\ LatestRecord(StartOf(s), d, i)' =>
                      stamp[<<StartOf(s), d>>] = NStages(row) * (i - 1)
                 /\ LatestRecord(EndOf(s), d, i)' =>
                      stamp[<<EndOf(s), d>>] = NStages(row) * (i - 1) + NStages(row)
      BY <2>1, <2>4 DEF StampInv
    <3>2. QED
      BY <1>1, <3>1 DEF StampInv, Streams, Devices
  <2>6. QED
    BY <2>3, <2>5
<1>4. QED
  BY <1>1, <1>2, <1>3, SpanOfRow

(* NextMeasure: what is done after the overlapped one are the records of   *)
(* its last call.                                                          *)
LEMMA SpanNextMeasure ==
  ASSUME Inv, SpanInv, NextMeasure
  PROVE  SpanInv'
<1>1. /\ Measuring /\ pc > Len(body) /\ measure' = measure + 1
      /\ issued' = {} /\ running' = {} /\ done' = {} /\ UNCHANGED <<row, stamp, spans>>
  BY DEF NextMeasure, CudaReset
<1>2. OrderInv' /\ StampInv'
  BY <1>1 DEF OrderInv, StampInv, LatestRecord
<1>3. ASSUME measure = 4, NEW s \in Streams, NEW d \in Devices
      PROVE  SpanOf(s, d) = NStages(row)
  <2>1. Overlapping /\ StampInv
    BY <1>1, <1>3 DEF Overlapping, SpanInv
  <2>2. Bracketed(body, NStages(row)) /\ NStages(row) \in Nat /\ iter \in 1 .. iter /\ iter \in Nat
    BY <2>1, OverlappedBody
  <2>3. ASSUME NEW e \in OpKinds \ Streams PROVE LatestRecord(e, d, iter)
    <3>1. Has(body, <<"launch", e, d, 0>>)
      BY <2>2 DEF Bracketed
    <3>2. PICK k \in 1 .. Len(body) : body[k] = <<"launch", e, d, 0>>
      BY <3>1 DEF Has
    <3>3. OpAt(k, iter) \in done
      BY <1>1, <2>2, <3>2, BodyReturns
    <3>4. <<e, d, 0, iter>> \in done
      BY <3>2, <3>3 DEF OpAt
    <3>5. iter + 1 .. iter = {}
      BY <2>2
    <3>6. QED
      BY <3>4, <3>5 DEF LatestRecord
  <2>4. /\ stamp[<<StartOf(s), d>>] = NStages(row) * (iter - 1)
        /\ stamp[<<EndOf(s), d>>] = NStages(row) * (iter - 1) + NStages(row)
    BY <2>1, <2>2, <2>3, EventsOf DEF StampInv
  <2>5. SpanOf(s, d) = stamp[<<EndOf(s), d>>] - stamp[<<StartOf(s), d>>]
    BY DEF SpanOf, StartOf, EndOf, Streams
  <2>6. NStages(row) * (iter - 1) \in Int
    BY <2>2
  <2>7. QED
    BY <2>2, <2>4, <2>5, <2>6
<1>4. measure' = 5 => measure = 4
  BY <1>1 DEF Inv, TypeInv, Measures
<1>5. ASSUME measure' = 5, NEW s \in Streams, NEW d \in Devices
      PROVE  SpanOf(s, d)' = NStages(row)
  BY <1>1, <1>3, <1>4, <1>5 DEF SpanOf
<1>6. QED
  BY <1>1, <1>2, <1>5 DEF SpanInv, Streams, Devices

(* Elapsed reads the spans of the row it leaves.                           *)
LEMMA SpanElapsed ==
  ASSUME Inv, SpanInv, Elapsed
  PROVE  SpanInv'
<1>1. /\ row <= Len(Rows) /\ measure > Len(Measures) /\ row' = row + 1 /\ measure' = 1
      /\ spans' = [s \in Streams \X Devices |-> SpanOf(s[1], s[2])]
  BY DEF Elapsed
<1>2. row \in Nat /\ row >= 1 /\ measure = 5
  BY <1>1, RowsTyped DEF Inv, TypeInv, Measures
<1>3. ASSUME NEW s \in Streams, NEW d \in Devices PROVE spans'[<<s, d>>] = NStages(row)
  BY <1>1, <1>2, <1>3 DEF SpanInv
<1>4. NStages(row' - 1) = NStages(row)
  <2>1. row' - 1 = row
    BY <1>1, <1>2
  <2>2. QED
    BY <2>1
<1>5. ~Overlapping' /\ measure' # 5
  BY <1>1 DEF Overlapping
<1>6. \A s \in Streams, d \in Devices : spans'[<<s, d>>] = NStages(row' - 1)
  BY <1>3, <1>4
<1>7. QED
  BY <1>5, <1>6 DEF SpanInv, Streams, Devices

(* The device begins what everything ahead of is done,                     *)
LEMMA SpanBegin ==
  ASSUME Inv, SpanInv, NEW q \in issued \ done, Begin(q)
  PROVE  SpanInv'
<1>1. /\ running' = running \cup {q} /\ \A p \in issued \ done : ~AheadInStream(p, q)
      /\ UNCHANGED <<row, measure, iter, body, stamp, spans, issued, done>>
  BY DEF Begin, DeviceBegin, hostVars
<1>2. Measuring
  BY DEF Inv, BodyInv
<1>3. Measuring' /\ (Overlapping' => Overlapping)
  BY <1>1, <1>2 DEF Overlapping, Measuring, Measures
<1>4. ASSUME Overlapping PROVE OrderInv' /\ StampInv'
  <2>1. OrderInv /\ StampInv
    BY <1>4 DEF SpanInv
  <2>2. \A p, o : AheadInStream(p, o)' <=> AheadInStream(p, o)
    BY <1>1 DEF AheadInStream, SameStream, Place
  <2>3. \A o \in running' \cup done : \A p \in issued : AheadInStream(p, o) => p \in done
    BY <1>1, <2>1 DEF OrderInv
  <2>4. OrderInv'
    BY <1>1, <2>2, <2>3 DEF OrderInv
  <2>5. StampInv'
    BY <1>1, <2>1 DEF StampInv, LatestRecord, Streams, Devices
  <2>6. QED
    BY <2>4, <2>5
<1>5. QED
  BY <1>1, <1>3, <1>4, SpanOfRow

(* and ends what it has begun.                                             *)
LEMMA OrderAfterEnd ==
  ASSUME OrderInv, NEW q \in running, running' = running \ {q}, done' = done \cup {q},
         UNCHANGED <<issued, body>>
  PROVE  OrderInv'
<1>1. \A p, o : AheadInStream(p, o)' <=> AheadInStream(p, o)
  BY DEF AheadInStream, SameStream, Place
<1>2. \A o \in running' \cup done' : o \in running \cup done
  OBVIOUS
<1>3. QED
  BY <1>1, <1>2 DEF OrderInv

(* EndWork ends no record.                                                 *)
LEMMA SpanEndWork ==
  ASSUME Inv, SpanInv, NEW q \in running, EndWork(q)
  PROVE  SpanInv'
<1>1. /\ q[1] \in Streams /\ running' = running \ {q} /\ done' = done \cup {q}
      /\ UNCHANGED <<row, measure, iter, body, stamp, spans, issued>>
  BY DEF EndWork, DeviceEnd, hostVars
<1>2. Measuring
  BY DEF Inv, BodyInv, TypeInv
<1>3. Measuring' /\ (Overlapping' => Overlapping)
  BY <1>1, <1>2 DEF Overlapping, Measuring, Measures
<1>4. ASSUME Overlapping PROVE OrderInv' /\ StampInv'
  <2>1. OrderInv /\ StampInv
    BY <1>4 DEF SpanInv
  <2>2. OrderInv'
    BY <1>1, <2>1, OrderAfterEnd
  <2>3. ASSUME NEW s \in Streams, NEW d, NEW i
        PROVE  /\ LatestRecord(StartOf(s), d, i)' => LatestRecord(StartOf(s), d, i)
               /\ LatestRecord(EndOf(s), d, i)' => LatestRecord(EndOf(s), d, i)
    <3>1. q # <<StartOf(s), d, 0, i>> /\ q # <<EndOf(s), d, 0, i>>
      BY <1>1, EventsOf
    <3>2. QED
      BY <1>1, <3>1 DEF LatestRecord
  <2>4. StampInv'
    <3>1. ASSUME NEW s \in Streams, NEW d \in Devices, NEW i \in 1 .. iter
          PROVE  /\ LatestRecord(StartOf(s), d, i)' =>
                      stamp[<<StartOf(s), d>>] = NStages(row) * (i - 1)
                 /\ LatestRecord(EndOf(s), d, i)' =>
                      stamp[<<EndOf(s), d>>] = NStages(row) * (i - 1) + NStages(row)
      BY <2>1, <2>3 DEF StampInv
    <3>2. QED
      BY <1>1, <3>1 DEF StampInv, Streams, Devices
  <2>5. QED
    BY <2>2, <2>4
<1>5. QED
  BY <1>1, <1>3, <1>4, SpanOfRow

(* A record made is the latest of its event, and saw what it should.       *)
LEMMA SpanEndRecord ==
  ASSUME Inv, SpanInv, NEW q \in running, EndRecord(q)
  PROVE  SpanInv'
<1>1. /\ q[1] \notin Streams /\ running' = running \ {q} /\ done' = done \cup {q}
      /\ stamp' = [stamp EXCEPT ![<<q[1], q[2]>>] = FinishedWork(StreamOf(q[1]), q[2])]
      /\ UNCHANGED <<row, measure, iter, body, spans, issued>>
  BY DEF EndRecord, DeviceEnd
<1>2. Measuring
  BY DEF Inv, BodyInv, TypeInv
<1>3. Measuring' /\ (Overlapping' => Overlapping)
  BY <1>1, <1>2 DEF Overlapping, Measuring, Measures
<1>4. ASSUME Overlapping PROVE OrderInv' /\ StampInv'
  <2>1. OrderInv /\ StampInv /\ TypeInv
    BY <1>4 DEF SpanInv, Inv
  <2>2. OrderInv'
    BY <1>1, <2>1, OrderAfterEnd
  <2>3. /\ q[4] = iter /\ q[1] \in OpKinds /\ q[2] \in Devices /\ iter \in Nat
        /\ FinishedWork(StreamOf(q[1]), q[2]) =
             IF q[1] = StartOf(StreamOf(q[1])) THEN NStages(row) * (iter - 1)
             ELSE NStages(row) * (iter - 1) + NStages(row)
    BY <1>1, <1>4, <2>1, AtRecord, OverlappedBody DEF TypeInv
  <2>4. q = <<q[1], q[2], 0, iter>> /\ \A o \in done : o[4] \in 1 .. iter
    BY <1>1, <1>4, <2>1, <2>3, OverlappedBody DEF TypeInv
  <2>5. ASSUME NEW e \in OpKinds \ Streams, NEW d \in Devices, NEW i \in 1 .. iter,
               LatestRecord(e, d, i)'
        PROVE  \/ LatestRecord(e, d, i) /\ stamp'[<<e, d>>] = stamp[<<e, d>>]
               \/ e = q[1] /\ d = q[2] /\ i = iter
    <3>1. /\ <<e, d, 0, i>> \in done \cup {q}
          /\ \A k \in i + 1 .. iter : <<e, d, 0, k>> \notin done \cup {q}
      BY <1>1, <2>5 DEF LatestRecord
    <3>2. CASE e = q[1] /\ d = q[2]
      <4>1. iter \notin i + 1 .. iter
        BY <2>4, <3>1, <3>2
      <4>2. QED
        BY <2>3, <3>2, <4>1
    <3>3. CASE ~(e = q[1] /\ d = q[2])
      <4>1. <<e, d, 0, i>> # q
        BY <3>3
      <4>2. LatestRecord(e, d, i)
        BY <3>1, <4>1 DEF LatestRecord
      <4>3. <<e, d>> \in Events /\ <<e, d>> # <<q[1], q[2]>>
        BY <3>3 DEF Events
      <4>4. stamp'[<<e, d>>] = stamp[<<e, d>>]
        BY <1>1, <2>1, <4>3 DEF TypeInv
      <4>5. QED
        BY <4>2, <4>4
    <3>4. QED
      BY <3>2, <3>3
  <2>6. stamp'[<<q[1], q[2]>>] = FinishedWork(StreamOf(q[1]), q[2])
    <3>1. <<q[1], q[2]>> \in Events
      BY <1>1, <2>3 DEF Events
    <3>2. QED
      BY <1>1, <2>1, <3>1 DEF TypeInv
  <2>7. ASSUME NEW s \in Streams, NEW d \in Devices, NEW i \in 1 .. iter
        PROVE  /\ LatestRecord(StartOf(s), d, i)' =>
                    stamp'[<<StartOf(s), d>>] = NStages(row) * (i - 1)
               /\ LatestRecord(EndOf(s), d, i)' =>
                    stamp'[<<EndOf(s), d>>] = NStages(row) * (i - 1) + NStages(row)
    <3>1. /\ StartOf(s) \in OpKinds \ Streams /\ StreamOf(StartOf(s)) = s
          /\ EndOf(s) \in OpKinds \ Streams /\ StreamOf(EndOf(s)) = s /\ StartOf(s) # EndOf(s)
      BY EventsOf
    <3>2. ASSUME LatestRecord(StartOf(s), d, i)'
          PROVE  stamp'[<<StartOf(s), d>>] = NStages(row) * (i - 1)
      <4>1. CASE StartOf(s) = q[1] /\ d = q[2] /\ i = iter
        BY <2>3, <2>6, <3>1, <4>1
      <4>2. CASE LatestRecord(StartOf(s), d, i)
                   /\ stamp'[<<StartOf(s), d>>] = stamp[<<StartOf(s), d>>]
        BY <2>1, <4>2 DEF StampInv
      <4>3. QED
        BY <2>5, <3>1, <3>2, <4>1, <4>2
    <3>3. ASSUME LatestRecord(EndOf(s), d, i)'
          PROVE  stamp'[<<EndOf(s), d>>] = NStages(row) * (i - 1) + NStages(row)
      <4>1. CASE EndOf(s) = q[1] /\ d = q[2] /\ i = iter
        BY <2>3, <2>6, <3>1, <4>1
      <4>2. CASE LatestRecord(EndOf(s), d, i)
                   /\ stamp'[<<EndOf(s), d>>] = stamp[<<EndOf(s), d>>]
        BY <2>1, <4>2 DEF StampInv
      <4>3. QED
        BY <2>5, <3>1, <3>3, <4>1, <4>2
    <3>4. QED
      BY <3>2, <3>3
  <2>8. StampInv'
    BY <1>1, <2>7 DEF StampInv, Streams, Devices
  <2>9. QED
    BY <2>2, <2>8
<1>5. QED
  BY <1>1, <1>3, <1>4, SpanOfRow

(* So elapsed() reads one call's work, after every row.                    *)
LEMMA SpanNext == Inv /\ SpanInv /\ [Next]_vars => SpanInv'
<1> SUFFICES ASSUME Inv, SpanInv, [Next]_vars PROVE SpanInv'
  OBVIOUS
<1>1. CASE Launch
  BY <1>1, SpanLaunch
<1>2. CASE Sync
  BY <1>2, SpanStays DEF Sync, cudaVars
<1>3. CASE NextIteration
  BY <1>3, SpanNextIteration
<1>4. CASE NextMeasure
  BY <1>4, SpanNextMeasure
<1>5. CASE Elapsed
  BY <1>5, SpanElapsed
<1>6. ASSUME NEW o \in issued \ done, Begin(o) PROVE SpanInv'
  BY <1>6, SpanBegin
<1>7. ASSUME NEW o \in running, EndWork(o) PROVE SpanInv'
  BY <1>7, SpanEndWork
<1>8. ASSUME NEW o \in running, EndRecord(o) PROVE SpanInv'
  BY <1>8, SpanEndRecord
<1>9. CASE UNCHANGED vars
  BY <1>9, SpanStays DEF vars, hostVars, cudaVars
<1>10. QED
  BY <1>1, <1>2, <1>3, <1>4, <1>5, <1>6, <1>7, <1>8, <1>9 DEF Next, Host, Device, Finished

(* The inductive invariant.                                                *)
THEOREM OverlapInvariant == Spec => []IInv
<1>1. Init => IInv
  BY InvInit, SpanInit DEF IInv
<1>2. IInv /\ [Next]_vars => IInv'
  BY InvNext, SpanNext DEF IInv
<1>3. QED
  BY <1>1, <1>2, PTL DEF Spec

(* "events bracket each stream's own work": what elapsed() returns for a   *)
(* row is, on every device and for both streams, the time of all the       *)
(* stages of one call and of nothing else.                                 *)
THEOREM ElapsedIsOneCall == Spec => []ElapsedCoversOneIteration
<1>1. IInv => ElapsedCoversOneIteration
  <2> SUFFICES ASSUME Inv, SpanInv, row > 1, NEW x \in DOMAIN spans
               PROVE  spans[x] = NStages(row - 1)
    BY DEF ElapsedCoversOneIteration, IInv
  <2>1. x \in Streams \X Devices
    BY DEF Inv, TypeInv
  <2>2. x[1] \in Streams /\ x[2] \in Devices /\ x = <<x[1], x[2]>>
    BY <2>1
  <2>3. QED
    BY <2>2 DEF SpanInv
<1>2. QED
  BY <1>1, OverlapInvariant, PTL

-----------------------------------------------------------------------------
(* The rows of a kind.                                                     *)
LEMMA KindsOfRows ==
  ASSUME NEW i \in 1 .. Len(Rows)
  PROVE  /\ Rows[i] \in RowSet
         /\ Rows[i].experiment = "micro" => Rows[i].bucket_bytes = 0 /\ Rows[i].n_buckets = 0
         /\ Rows[i].experiment = "bucket" =>
              /\ Rows[i].comm_bytes = totalGrad /\ Rows[i].workload = "compute-gemm"
              /\ Rows[i].ratio_target = 100
              /\ \E s \in 1 .. Len(bucketSizes) :
                   /\ Rows[i].bucket_bytes = bucketSizes[s]
                   /\ Rows[i].n_buckets = totalGrad \div bucketSizes[s]
<1>1. Rows[i] \in RowSet
  BY RowsTyped
<1>2. MicroRows \in Seq(RowSet) /\ BucketRows \in Seq(RowSet) /\ Rows = MicroRows \o BucketRows
  BY MicroRowsTyped, BucketRowsTyped DEF Rows
<1>3. Has(Rows, Rows[i])
  BY DEF Has
<1>4. Has(MicroRows, Rows[i]) \/ Has(BucketRows, Rows[i])
  BY <1>2, <1>3, JoinedHas
<1>5. CASE Has(MicroRows, Rows[i])
  BY <1>1, <1>5, MicroRowsTyped
<1>6. CASE Has(BucketRows, Rows[i])
  BY <1>1, <1>6, BucketRowsTyped
<1>7. QED
  BY <1>4, <1>5, <1>6

(* What a label tells of a row.                                            *)
LEMMA Labels ==
  ASSUME NEW x \in RowSet, NEW y \in RowSet, config_label(x) = config_label(y)
  PROVE  /\ x.experiment = y.experiment
         /\ x.experiment = "bucket" => x.bucket_bytes \div MiB = y.bucket_bytes \div MiB
         /\ x.experiment = "micro" => x.ratio_target = y.ratio_target /\ x.workload = y.workload
<1> DEFINE tail(r) == IF r.workload = "compute-gemm" THEN << >> ELSE <<r.workload>>
<1>1. ASSUME NEW r \in RowSet
      PROVE  /\ r.experiment \in {"micro", "bucket"}
             /\ r.experiment = "bucket" =>
                  /\ config_label(r)[1] = "bucket" /\ Len(config_label(r)) = 2
                  /\ config_label(r)[2] = r.bucket_bytes \div MiB
             /\ r.experiment = "micro" =>
                  /\ config_label(r)[1] = "micro-ratio"
                  /\ config_label(r)[2] = r.ratio_target
                  /\ Len(config_label(r)) = IF r.workload = "compute-gemm" THEN 2 ELSE 3
                  /\ r.workload # "compute-gemm" => config_label(r)[3] = r.workload
  <2>1. /\ r.experiment \in {"micro", "bucket"} /\ r.ratio_target \in Nat
        /\ r.workload \in {"compute-gemm", "memory-triad", "mixed"}
    BY DEF RowSet
  <2>2. CASE r.experiment = "bucket"
    <3>1. config_label(r) = <<"bucket", r.bucket_bytes \div MiB>>
      BY <2>2 DEF config_label
    <3>2. QED
      BY <2>2, <3>1
  <2>3. CASE r.experiment = "micro" /\ r.workload = "compute-gemm"
    <3>1. config_label(r) = <<"micro-ratio", r.ratio_target>> \o << >>
      BY <2>3 DEF config_label
    <3>2. <<"micro-ratio", r.ratio_target>> \o << >> = <<"micro-ratio", r.ratio_target>>
      BY <2>1
    <3>3. QED
      BY <2>3, <3>1, <3>2
  <2>4. CASE r.experiment = "micro" /\ r.workload # "compute-gemm"
    <3>1. config_label(r) = <<"micro-ratio", r.ratio_target>> \o <<r.workload>>
      BY <2>4 DEF config_label
    <3> DEFINE S == {"micro-ratio", r.ratio_target, r.workload}
               a == <<"micro-ratio", r.ratio_target>>
               b == <<r.workload>>
    <3>2. /\ a \in Seq(S) /\ Len(a) = 2 /\ a[1] = "micro-ratio" /\ a[2] = r.ratio_target
          /\ b \in Seq(S) /\ Len(b) = 1 /\ b[1] = r.workload
          /\ config_label(r) = a \o b
      BY <3>1
    <3> HIDE DEF S, a, b
    <3>3. /\ Len(a \o b) = 2 + 1 /\ (a \o b)[2 + 1] = b[1]
          /\ (a \o b)[1] = a[1] /\ (a \o b)[2] = a[2]
      <4>1. a \in Seq(S) /\ b \in Seq(S)
        BY <3>2
      <4>2. /\ Len(a \o b) = Len(a) + Len(b)
            /\ \A k \in 1 .. Len(a) : (a \o b)[k] = a[k]
            /\ \A k \in 1 .. Len(b) : (a \o b)[Len(a) + k] = b[k]
        BY <4>1, Joined
      <4>3. Len(a) = 2 /\ Len(b) = 1
        BY <3>2
      <4>4. QED
        BY <4>2, <4>3
    <3>4. 2 + 1 = 3
      OBVIOUS
    <3>5. QED
      BY <2>4, <3>2, <3>3, <3>4
  <2>5. QED
    BY <2>1, <2>2, <2>3, <2>4
<1>2. QED
  BY <1>1

(* The lists the benchmark is given: none has an entry twice, and the      *)
(* buckets differ in whole MiB, which is what a label shows of them.       *)
DistinctLists ==
  /\ AllGivenOnce
  /\ \A i, j \in 1 .. Len(bucketSizes) :
       bucketSizes[i] \div MiB = bucketSizes[j] \div MiB => i = j

(* Two rows that differ in their repeats at most.                          *)
AlikeBut(x, y) ==
  /\ x.experiment = y.experiment /\ x.workload = y.workload /\ x.comm_bytes = y.comm_bytes
  /\ x.ratio_target = y.ratio_target /\ x.bucket_bytes = y.bucket_bytes
  /\ x.n_buckets = y.n_buckets
(* Two such rows are repeats of one configuration.                         *)
LEMMA AlikeAreRepeats ==
  ASSUME DistinctLists, NEW i \in 1 .. Len(Rows), NEW j \in 1 .. Len(Rows),
         AlikeBut(Rows[i], Rows[j])
  PROVE  /\ Configuration(i) = Configuration(j)
         /\ i # j => Rows[i].repeat # Rows[j].repeat
<1> DEFINE x == Rows[i]
           y == Rows[j]
<1>1. x \in RowSet /\ y \in RowSet /\ AlikeBut(x, y)
  BY KindsOfRows
<1>2. NoRepeats(Rows)
  BY RowsTyped DEF DistinctLists
<1>3. Configuration(i) = [x EXCEPT !.repeat = 0] /\ Configuration(j) = [y EXCEPT !.repeat = 0]
  BY DEF Configuration
<1>4. x = y => i = j
  BY <1>2 DEF NoRepeats
<1> HIDE DEF x, y
<1>5. [x EXCEPT !.repeat = 0] = [y EXCEPT !.repeat = 0]
  BY <1>1 DEF RowSet, AlikeBut
<1>6. x.repeat = y.repeat => x = y
  BY <1>1 DEF RowSet, AlikeBut
<1>7. QED
  BY <1>3, <1>4, <1>5, <1>6 DEF x, y

(* Rows of one label and size are such.                                    *)
LEMMA NamedAlike ==
  ASSUME DistinctLists, NEW i \in 1 .. Len(Rows), NEW j \in 1 .. Len(Rows),
         config_label(Rows[i]) = config_label(Rows[j]),
         Rows[i].comm_bytes = Rows[j].comm_bytes
  PROVE  AlikeBut(Rows[i], Rows[j])
<1>1. Rows[i] \in RowSet /\ Rows[j] \in RowSet
  BY KindsOfRows
<1>2. /\ Rows[i].experiment = Rows[j].experiment
      /\ Rows[i].experiment = "bucket" =>
           Rows[i].bucket_bytes \div MiB = Rows[j].bucket_bytes \div MiB
      /\ Rows[i].experiment = "micro" =>
           Rows[i].ratio_target = Rows[j].ratio_target /\ Rows[i].workload = Rows[j].workload
  BY <1>1, Labels
<1>3. CASE Rows[i].experiment = "micro"
  BY <1>2, <1>3, KindsOfRows DEF AlikeBut
<1>4. CASE Rows[i].experiment = "bucket"
  <2>1. PICK s \in 1 .. Len(bucketSizes) :
          Rows[i].bucket_bytes = bucketSizes[s] /\ Rows[i].n_buckets = totalGrad \div bucketSizes[s]
    BY <1>4, KindsOfRows
  <2>2. PICK t \in 1 .. Len(bucketSizes) :
          Rows[j].bucket_bytes = bucketSizes[t] /\ Rows[j].n_buckets = totalGrad \div bucketSizes[t]
    BY <1>2, <1>4, KindsOfRows
  <2>3. bucketSizes[s] \div MiB = bucketSizes[t] \div MiB
    BY <1>2, <1>4, <2>1, <2>2
  <2>4. s = t
    BY <2>3 DEF DistinctLists
  <2>5. Rows[i].bucket_bytes = Rows[j].bucket_bytes /\ Rows[i].n_buckets = Rows[j].n_buckets
    BY <2>1, <2>2, <2>4
  <2>6. QED
    BY <1>2, <1>4, <2>5, KindsOfRows DEF AlikeBut
<1>5. QED
  BY <1>1, <1>3, <1>4 DEF RowSet

(* What is parsed of the output.                                           *)
LEMMA ParsedRows ==
  ASSUME TypeInv
  PROVE  /\ DOMAIN build_rows = 1 .. row - 1
         /\ 1 .. row - 1 \subseteq 1 .. Len(Rows)
         /\ \A i \in 1 .. row - 1 : build_rows[i] = Parsed(Rows[i])
<1>1. Rows \in Seq(RowSet) /\ row \in 1 .. Len(Rows) + 1 /\ Len(Rows) \in Nat
  BY RowsTyped DEF TypeInv
<1>2. /\ DOMAIN parse_table = 1 .. row - 1
      /\ \A i \in 1 .. row - 1 : parse_table[i] = Rows[i]
  BY <1>1 DEF parse_table
<1>3. QED
  BY <1>1, <1>2 DEF build_rows

(* Whenever the benchmark stops, the rows of the results that share a      *)
(* label and a size are different repeats of one configuration.            *)
THEOREM NamesAreOfOneConfiguration ==
  ASSUME DistinctLists
  PROVE  Spec => []RowsOfOneNameAreRepeats
<1>1. TypeInv => RowsOfOneNameAreRepeats
  <2> SUFFICES ASSUME TypeInv PROVE RowsOfOneNameAreRepeats
    OBVIOUS
  <2> DEFINE parsed == build_rows
             named(i) == {j \in DOMAIN parsed :
                /\ parsed[j].config_label = parsed[i].config_label
                /\ parsed[j].message_size_bytes = parsed[i].message_size_bytes}
  <2>1. /\ DOMAIN parsed = 1 .. row - 1 /\ 1 .. row - 1 \subseteq 1 .. Len(Rows)
        /\ \A i \in 1 .. row - 1 : parsed[i] = Parsed(Rows[i])
    BY ParsedRows
  <2> HIDE DEF parsed
  <2>2. \A i \in 1 .. row - 1 :
          /\ parsed[i].config_label = config_label(Rows[i])
          /\ parsed[i].message_size_bytes = Rows[i].comm_bytes
    BY <2>1 DEF Parsed
  <2>3. ASSUME NEW n \in DOMAIN parsed PROVE Repeated(named(n))
    <3>1. ASSUME NEW i \in named(n), NEW j \in named(n)
          PROVE  i \in 1 .. Len(Rows) /\ j \in 1 .. Len(Rows) /\ AlikeBut(Rows[i], Rows[j])
      <4>1. /\ i \in 1 .. row - 1 /\ j \in 1 .. row - 1
            /\ config_label(Rows[i]) = config_label(Rows[j])
            /\ Rows[i].comm_bytes = Rows[j].comm_bytes
        BY <2>1, <2>2
      <4>2. i \in 1 .. Len(Rows) /\ j \in 1 .. Len(Rows)
        BY <2>1, <4>1
      <4>3. QED
        BY <4>1, <4>2, NamedAlike
    <3> HIDE DEF named
    <3>2. QED
      BY <3>1, AlikeAreRepeats DEF Repeated
  <2>4. QED
    BY <2>3 DEF RowsOfOneNameAreRepeats, parsed
<1>2. QED
  BY <1>1, TypeCorrect, PTL

(* "Group repeats of one (size, workload, ratio) cell": whenever the       *)
(* benchmark stops, all rows of a cell are different repeats of one        *)
(* configuration, but for the one cell that has the bucket rows.           *)
THEOREM CellsAreOfOneConfiguration ==
  ASSUME DistinctLists
  PROVE  Spec => []OnlyTheBucketCellIsMixed
<1>1. TypeInv => OnlyTheBucketCellIsMixed
  <2> SUFFICES ASSUME TypeInv PROVE OnlyTheBucketCellIsMixed
    OBVIOUS
  <2> DEFINE parsed == build_rows
             cells == aggregate(parsed)
  <2>1. /\ DOMAIN parsed = 1 .. row - 1 /\ 1 .. row - 1 \subseteq 1 .. Len(Rows)
        /\ \A i \in 1 .. row - 1 : parsed[i] = Parsed(Rows[i])
    BY ParsedRows
  <2> HIDE DEF parsed
  <2>2. \A i \in 1 .. row - 1 :
          Key(parsed[i]) = <<Rows[i].comm_bytes, Rows[i].workload, Rows[i].ratio_target>>
    BY <2>1 DEF Parsed, Key, ratio_of
  <2>3. \A k \in DOMAIN cells : cells[k] = {i \in 1 .. row - 1 : Key(parsed[i]) = k}
    BY <2>1 DEF aggregate
  <2>4. ASSUME NEW k \in DOMAIN cells, ~HoldsBuckets(cells[k]) PROVE Repeated(cells[k])
    <3>1. ASSUME NEW i \in cells[k], NEW j \in cells[k]
          PROVE  i \in 1 .. Len(Rows) /\ j \in 1 .. Len(Rows) /\ AlikeBut(Rows[i], Rows[j])
      <4>1. i \in 1 .. row - 1 /\ j \in 1 .. row - 1 /\ Key(parsed[i]) = Key(parsed[j])
        BY <2>3
      <4>2. /\ Rows[i].comm_bytes = Rows[j].comm_bytes /\ Rows[i].workload = Rows[j].workload
            /\ Rows[i].ratio_target = Rows[j].ratio_target
        BY <2>2, <4>1
      <4>3. i \in 1 .. Len(Rows) /\ j \in 1 .. Len(Rows)
        BY <2>1, <4>1
      <4>4. Rows[i].experiment # "bucket" /\ Rows[j].experiment # "bucket"
        BY <2>4 DEF HoldsBuckets
      <4>5. Rows[i].experiment = "micro" /\ Rows[j].experiment = "micro"
        BY <4>3, <4>4, KindsOfRows DEF RowSet
      <4>6. QED
        BY <4>2, <4>3, <4>5, KindsOfRows DEF AlikeBut
    <3> HIDE DEF cells
    <3>2. QED
      BY <3>1, AlikeAreRepeats DEF Repeated
  <2>5. ASSUME NEW k \in DOMAIN cells, HoldsBuckets(cells[k])
        PROVE  k = <<totalGrad, "compute-gemm", 100>>
    <3>1. PICK i \in cells[k] : Rows[i].experiment = "bucket"
      BY <2>5 DEF HoldsBuckets
    <3>2. i \in 1 .. row - 1 /\ Key(parsed[i]) = k /\ i \in 1 .. Len(Rows)
      BY <2>1, <2>3
    <3>3. QED
      BY <2>2, <3>1, <3>2, KindsOfRows
  <2>6. QED
    BY <2>4, <2>5 DEF OnlyTheBucketCellIsMixed, parsed
<1>2. QED
  BY <1>1, TypeCorrect, PTL
=============================================================================
