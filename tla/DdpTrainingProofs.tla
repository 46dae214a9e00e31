------------------------- MODULE DdpTrainingProofs -------------------------
(***************************************************************************)
(* For any number of ranks, steps and repeats: the ranks of train_ddp.py   *)
(* update equal parameters, and decide alike whether to abort.             *)
(*                                                                         *)
(* Two ideas.  A rank that has yet to leave a completed collective is as   *)
(* good as past it, holding what it is about to take: seen so, all ranks   *)
(* pass a collective at once, and between two of them a rank changes only  *)
(* what is its own.  And the program is known by which instruction may     *)
(* follow which.                                                           *)
(***************************************************************************)
EXTENDS DdpTraining, SequenceTheorems, TLAPS

-----------------------------------------------------------------------------
(* What is needed of the program: instructions, and which follow which.    *)
Ops == {"window", "forward", "backward", "optimizer", "inspect", "decide"} \cup Collectives
BeforeJudgement == {"warmup", "calibrate", "correctness", "probe"}
AfterJudgement  == {"check", "measured", "nosync", "end"}
Instructions ==
  {i \in [op : Ops, win : BeforeJudgement \cup AfterJudgement] :
     /\ i.op = "inspect" => i.win = "probe"
     /\ i.op \in {"broadcast", "worst", "decide"} => i.win = "check"
     /\ i.op = "resync" => i.win = "nosync"
     /\ i.op = "slowest" => i.win = "end"}

(* The windows whose gradients are averaged, and what comes before and     *)
(* after the correctness check has looked at loss and gradients.           *)
Synced(i) == i.win \notin {"nosync", "end"}
Unjudged(i) == i.win \in BeforeJudgement
Judged(i) == i.op = "inspect" \/ i.win \in AfterJudgement

(* What each instruction is followed by.                                   *)
Follows(a, b) ==
  /\ Synced(b) => Synced(a)
  /\ Unjudged(b) => Unjudged(a) /\ a.op # "inspect"
  /\ Judged(b) => Judged(a) \/ b.op = "inspect"
  /\ a.op = "forward" => b.op = "backward" /\ b.win # "probe"
  /\ a.op \in {"backward", "reducer", "flat"} =>
       b.op \in {"reducer", "flat", "inspect", "optimizer"}
  /\ b.op \in {"reducer", "flat"} => a.op \in {"backward", "reducer"}
  /\ a.op = "optimizer" => b.op \in {"window", "forward", "resync", "slowest", "backward"}
  /\ b.op = "backward" /\ b.win # "probe" => a.op = "forward"
  /\ b.op = "optimizer" /\ Synced(b) => World = 1 \/ a.op \in {"reducer", "flat"}
  /\ b.op = "inspect" => World = 1 \/ a.op = "reducer"
  /\ b.op = "optimizer" => a.op \in {"backward", "reducer", "flat"}

Chain(s) ==
  /\ s \in Seq(Instructions)
  /\ \A i \in 1 .. Len(s) - 1 : Follows(s[i], s[i + 1])

ProgramInv ==
  /\ Chain(program) /\ program # << >>
  /\ program[1] = I("window", "warmup")

-----------------------------------------------------------------------------
(* Rank r as it is once it has left the collective it is in.               *)
Position(r) == IF r \in owed THEN pc[r] + 1 ELSE pc[r]
Present(r) == Position(r) <= Len(program)
Here(r) == program[Position(r)]
Gradients(r) ==
  IF r \in owed /\ At(r).op \in {"reducer", "flat"} THEN result.value ELSE grads[r]

(* Its parameters and optimizer state, with the update it has the gradient *)
(* for: nothing can change that any more.                                  *)
Updating(r) == Present(r) /\ Here(r).op = "optimizer"
Made(r) == IF Updating(r) THEN Append(params[r].made, Gradients(r).from) ELSE params[r].made
Finite(r) == IF Updating(r) THEN params[r].ok /\ Gradients(r).ok ELSE params[r].ok
Moments(r) == IF Updating(r) THEN Append(moments[r], Gradients(r).from) ELSE moments[r]

(* ... and its judgement on the correctness window.                        *)
Past(r) == verdict[r] # "undecided" \/ (Present(r) /\ Judged(Here(r)))
Judgement(r) == IF Present(r) /\ Here(r).op = "inspect" THEN Gradients(r).ok ELSE finite[r]

-----------------------------------------------------------------------------
TypeInv ==
  /\ pc \in [Ranks -> Nat \ {0}]
  /\ params \in [Ranks -> [made : Seq(SUBSET Ranks), ok : BOOLEAN]]
  /\ moments \in [Ranks -> Seq(SUBSET Ranks)]
  /\ grads \in [Ranks -> [from : SUBSET Ranks, ok : BOOLEAN]]
  /\ loss \in [Ranks -> BOOLEAN]
  /\ finite \in [Ranks -> BOOLEAN]
  /\ syncErr \in [Ranks -> {"zero", "nan"}]
  /\ verdict \in [Ranks -> {"undecided", "go on", "abort"}]
  /\ owed \subseteq Ranks
  /\ DOMAIN pending \subseteq Ranks

(* A rank is in one collective, has brought what it has, and takes what    *)
(* all have brought.                                                       *)
PendingInv ==
  \A r \in DOMAIN pending :
    /\ r \notin owed /\ Running(r) /\ At(r).op \in Collectives
    /\ pending[r] = [op |-> At(r).op, value |-> Brought(r)]
OwedInv ==
  \A r \in owed :
    /\ Running(r) /\ At(r).op \in Collectives
    /\ At(r).op \in {"reducer", "flat"} => result.value \in [from : SUBSET Ranks, ok : BOOLEAN]
    /\ At(r).op = "broadcast" => result.value = params[r]
    /\ At(r).op = "worst" => result.value \in {"zero", "nan"}
    /\ At(r).op = "resync" => result.value \in [made : Seq(SUBSET Ranks), ok : BOOLEAN]

(* No rank is past a collective that another has not come to.              *)
MeetInv ==
  \A r, q \in Ranks : verdict[r] # "abort" /\ verdict[q] # "abort" =>
    \A k \in 1 .. Len(program) :
      Position(r) <= k /\ k < Position(q) => program[k].op \notin Collectives

(* A rank that has decided has looked before, and went as it saw.          *)
VerdictOf(r) ==
  /\ verdict[r] = "go on" => finite[r] /\ (Present(r) => Here(r).win \in AfterJudgement)
  /\ verdict[r] = "abort" => ~finite[r] /\ ~Running(r)
VerdictInv == \A r \in Ranks : VerdictOf(r)

(* While gradients are averaged, all ranks have the same updates.          *)
Averaging(r) == Present(r) /\ Synced(Here(r))
UpdatesInv ==
  \A r, q \in Ranks : Averaging(r) /\ Averaging(q) =>
    Made(r) = Made(q) /\ (Finite(r) <=> Finite(q)) /\ Moments(r) = Moments(q)

(* A loss that is not finite shows in the rank's gradients until they are  *)
(* averaged, and then in the parameters.                                   *)
LossOf(r) ==
  Present(r) /\ Unjudged(Here(r)) /\ ~loss[r] =>
    IF Here(r).op \in {"reducer", "flat", "inspect"} THEN ~Gradients(r).ok
    ELSE IF Here(r).op = "backward" /\ Here(r).win # "probe" THEN ~params[r].ok \/ ~grads[r].ok
    ELSE ~Finite(r)
LossInv == \A r \in Ranks : LossOf(r)

(* So that the judgement on the averaged gradients is that on all losses.  *)
JudgementInv ==
  \A r, q \in Ranks : Past(r) /\ Past(q) => (Judgement(r) <=> Judgement(q))

LockstepInv ==
  /\ ProgramInv /\ TypeInv /\ PendingInv /\ OwedInv /\ MeetInv
  /\ VerdictInv /\ UpdatesInv /\ LossInv /\ JudgementInv
-----------------------------------------------------------------------------
(* Division with remainder has one answer.                                 *)
LEMMA DivisionUnique ==
  ASSUME NEW L \in Nat \ {0}, NEW q1 \in Int, NEW q2 \in Int,
         NEW m1 \in 0 .. L - 1, NEW m2 \in 0 .. L - 1, L * q1 + m1 = L * q2 + m2
  PROVE  m1 = m2
<1>1. CASE q1 < q2
  <2>1. L * (q2 - q1) = m1 - m2
    OBVIOUS
  <2>2. L * (q2 - q1) >= L
    BY <1>1
  <2>3. QED
    BY <2>1, <2>2
<1>2. CASE q2 < q1
  <2>1. L * (q1 - q2) = m2 - m1
    OBVIOUS
  <2>2. L * (q1 - q2) >= L
    BY <1>2
  <2>3. QED
    BY <2>1, <2>2
<1>3. QED
  BY <1>1, <1>2

(* The next remainder is the next number, or 0.                            *)
LEMMA NextRemainder ==
  ASSUME NEW a \in Nat, NEW L \in Nat \ {0}
  PROVE  (a + 1) % L = IF (a % L) + 1 = L THEN 0 ELSE (a % L) + 1
<1> DEFINE q == a \div L
           m == a % L
           q2 == (a + 1) \div L
           m2 == (a + 1) % L
<1>1. a = L * q + m /\ m \in 0 .. L - 1 /\ q \in Int
  OBVIOUS
<1>2. a + 1 = L * q2 + m2 /\ m2 \in 0 .. L - 1 /\ q2 \in Int
  OBVIOUS
<1> HIDE DEF q, m, q2, m2
<1>3. CASE m + 1 = L
  <2>1. L * (q + 1) + 0 = L * q2 + m2
    BY <1>1, <1>2, <1>3
  <2>2. 0 \in 0 .. L - 1 /\ q + 1 \in Int
    BY <1>1
  <2>3. m2 = 0
    BY <2>1, <2>2, <1>2, DivisionUnique
  <2>4. QED
    BY <2>3, <1>3 DEF m, m2
<1>4. CASE m + 1 # L
  <2>1. L * q + (m + 1) = L * q2 + m2
    BY <1>1, <1>2
  <2>2. m + 1 \in 0 .. L - 1
    BY <1>1, <1>4
  <2>3. m2 = m + 1
    BY <2>1, <2>2, <1>1, <1>2, DivisionUnique
  <2>4. QED
    BY <2>3, <1>4 DEF m, m2
<1>5. QED
  BY <1>3, <1>4

(* A part of the program that begins in A and ends in B.                   *)
Part(s, A, B) == Chain(s) /\ s # << >> /\ s[1] \in A /\ s[Len(s)] \in B
MaybePart(s, A, B) == s = << >> \/ Part(s, A, B)

(* Parts are put one after the other.                                      *)
LEMMA JoinParts ==
  ASSUME NEW s, NEW t, NEW A, NEW B, NEW C, NEW D,
         Part(s, A, B), Part(t, C, D),
         \A b \in B, c \in C : Follows(b, c)
  PROVE  Part(s \o t, A, D)
<1>1. /\ s \in Seq(Instructions) /\ t \in Seq(Instructions)
      /\ Len(s) \in Nat \ {0} /\ Len(t) \in Nat \ {0}
  BY DEF Part, Chain
<1>2. /\ s \o t \in Seq(Instructions) /\ Len(s \o t) = Len(s) + Len(t)
      /\ \A i \in 1 .. Len(s) + Len(t) :
           (s \o t)[i] = IF i <= Len(s) THEN s[i] ELSE t[i - Len(s)]
  BY <1>1
<1>3. ASSUME NEW i \in 1 .. Len(s \o t) - 1
      PROVE  Follows((s \o t)[i], (s \o t)[i + 1])
  <2>1. CASE i < Len(s)
    BY <1>1, <1>2, <2>1 DEF Part, Chain
  <2>2. CASE i = Len(s)
    BY <1>1, <1>2, <2>2 DEF Part, Chain
  <2>3. CASE i > Len(s)
    <3>1. i - Len(s) \in 1 .. Len(t) - 1 /\ (i + 1) - Len(s) = (i - Len(s)) + 1
      BY <1>1, <1>2, <2>3
    <3>2. Follows(t[i - Len(s)], t[(i - Len(s)) + 1])
      BY <3>1 DEF Part, Chain
    <3>3. QED
      BY <1>1, <1>2, <2>3, <3>1, <3>2
  <2>4. QED
    BY <1>1, <2>1, <2>2, <2>3
<1>4. (s \o t)[1] = s[1] /\ (s \o t)[Len(s \o t)] = t[Len(t)] /\ s \o t # << >>
  BY <1>1, <1>2
<1>5. QED
  BY <1>1, <1>2, <1>3, <1>4 DEF Part, Chain

(* ... and one may be left out.                                            *)
LEMMA JoinOptionalPart ==
  ASSUME NEW s, NEW t, NEW A, NEW B, NEW C, NEW D, NEW E,
         Part(s, A, B), MaybePart(t, C, D),
         \A b \in B, c \in C : Follows(b, c), B \subseteq E, D \subseteq E
  PROVE  Part(s \o t, A, E)
<1>1. CASE t = << >>
  BY <1>1 DEF Part, Chain
<1>2. CASE Part(t, C, D)
  <2>1. Part(s \o t, A, D)
    BY <1>2, JoinParts
  <2>2. QED
    BY <2>1 DEF Part
<1>3. QED
  BY <1>1, <1>2 DEF MaybePart

(* A part is repeated, if its beginning may follow its end.                *)
LEMMA RepeatPart ==
  ASSUME NEW s, NEW A, NEW B, NEW n \in Nat, Part(s, A, B),
         \A b \in B, a \in A : Follows(b, a)
  PROVE  MaybePart(Cycle(s, n), A, B)
<1> DEFINE L == Len(s)
           c == Cycle(s, n)
           at(i) == ((i - 1) % L) + 1
<1>1. s \in Seq(Instructions) /\ L \in Nat \ {0}
  BY DEF Part, Chain
<1>2. n * L \in Nat
  BY <1>1
<1>3. \A i \in Nat \ {0} : at(i) \in 1 .. L
  BY <1>1
<1>4. c \in Seq(Instructions) /\ Len(c) = n * L /\ \A i \in 1 .. n * L : c[i] = s[at(i)]
  <2>1. c = [i \in 1 .. n * L |-> s[at(i)]]
    BY DEF Cycle
  <2>2. \A i \in 1 .. n * L : s[at(i)] \in Instructions
    BY <1>1, <1>3
  <2>3. QED
    BY <1>2, <2>1, <2>2
<1>5. ASSUME NEW i \in 1 .. n * L - 1
      PROVE  Follows(c[i], c[i + 1])
  <2>1. at(i + 1) = IF at(i) = L THEN 1 ELSE at(i) + 1
    <3>1. i - 1 \in Nat /\ (i - 1) + 1 = (i + 1) - 1
      BY <1>2
    <3>2. ((i + 1) - 1) % L = IF ((i - 1) % L) + 1 = L THEN 0 ELSE ((i - 1) % L) + 1
      BY <3>1, <1>1, NextRemainder
    <3>3. (i - 1) % L \in 0 .. L - 1
      BY <3>1, <1>1
    <3>4. QED
      BY <3>2, <3>3, <1>1
  <2>2. c[i] = s[at(i)] /\ c[i + 1] = s[at(i + 1)] /\ at(i) \in 1 .. L
    <3>1. /\ i \in 1 .. n * L /\ i + 1 \in 1 .. n * L
          /\ i \in Nat \ {0}
      BY <1>2
    <3> HIDE DEF c, at
    <3>2. QED
      BY <3>1, <1>3, <1>4
  <2> HIDE DEF c, at
  <2>3. CASE at(i) = L
    BY <2>1, <2>2, <2>3 DEF Part
  <2>4. CASE at(i) # L
    BY <2>1, <2>2, <2>4, <1>1 DEF Part, Chain
  <2>5. QED
    BY <2>3, <2>4
<1>6. CASE n = 0
  BY <1>1, <1>2, <1>4, <1>6 DEF MaybePart
<1>7. CASE n # 0
  <2>1. n * L >= L
    BY <1>1, <1>7
  <2>2. at(1) = 1
    BY <1>1
  <2>3. at(n * L) = L
    <3>1. n * L - 1 = L * (n - 1) + (L - 1)
      BY <1>1
    <3>2. ASSUME NEW a \in Nat
          PROVE  /\ a = L * (a \div L) + (a % L)
                 /\ a % L \in 0 .. L - 1 /\ a \div L \in Int
      BY <1>1
    <3>3. L - 1 \in 0 .. L - 1 /\ n - 1 \in Int
      BY <1>1
    <3>4. (n * L - 1) % L = L - 1
      <4>1. n * L - 1 \in Nat
        BY <1>1, <1>2, <2>1
      <4>2. L * (n - 1) + (L - 1) = L * ((n * L - 1) \div L) + ((n * L - 1) % L)
        BY <3>1, <3>2, <4>1
      <4> DEFINE q == (n * L - 1) \div L
                 m == (n * L - 1) % L
      <4>3. q \in Int /\ m \in 0 .. L - 1 /\ L * (n - 1) + (L - 1) = L * q + m
        BY <4>1, <4>2, <3>2
      <4> HIDE DEF q, m
      <4>4. m = L - 1
        BY <4>3, <3>3, <1>1, DivisionUnique
      <4>5. QED
        BY <4>4 DEF m
    <3>5. QED
      BY <3>4, <1>1
  <2>4. c # << >> /\ c[1] = s[1] /\ c[Len(c)] = s[L]
    <3>1. 1 \in 1 .. n * L /\ n * L \in 1 .. n * L
      BY <1>1, <1>2, <2>1
    <3> HIDE DEF c, at
    <3>2. QED
      BY <3>1, <1>4, <2>2, <2>3
  <2>5. QED
    BY <1>4, <1>5, <2>4 DEF MaybePart, Part, Chain
<1>8. QED
  BY <1>6, <1>7

(* Two instructions put one after the other.                               *)
LEMMA Pair ==
  ASSUME NEW a, NEW b
  PROVE  <<a>> \o <<b>> = <<a, b>>
<1> DEFINE S == {a, b}
           t == <<a>> \o <<b>>
           u == <<a, b>>
<1>1. /\ <<a>> \in Seq(S) /\ <<b>> \in Seq(S) /\ u \in Seq(S)
      /\ Len(<<a>>) = 1 /\ Len(<<b>>) = 1 /\ Len(u) = 2
  OBVIOUS
<1>2. t \in Seq(S) /\ Len(t) = 2 /\ t[1] = a /\ t[2] = b
  BY <1>1
<1>3. u[1] = a /\ u[2] = b
  OBVIOUS
<1> HIDE DEF t, u, S
<1>4. \A i \in 1 .. Len(t) : t[i] = u[i]
  BY <1>1, <1>2, <1>3
<1>5. t = u
  BY <1>1, <1>2, <1>4, SeqEqual
<1>6. QED
  BY <1>5 DEF t, u

(* One instruction is a part.                                              *)
LEMMA OneInstruction ==
  ASSUME NEW i \in Instructions
  PROVE  Part(<<i>>, {i}, {i})
BY DEF Part, Chain

Modus == args.mode \in Modes /\ args.nosync_probe \in BOOLEAN

(* Gradients that stay on their rank are those of a probe without          *)
(* synchronisation, or of the only rank.                                   *)
LEMMA UnwrappedIsAlone == Modus /\ ~Wrapped => World = 1
  BY WorldAssumption, ModeAssumption DEF Modus, Wrapped

(* A step begins with its forward pass and ends with the optimizer.        *)
LEMMA StepIsPart ==
  ASSUME Modus, NEW win \in {"warmup", "calibrate", "correctness", "measured", "nosync"}
  PROVE  Part(Step(win), {I("forward", win)}, {I("optimizer", win)})
<1> DEFINE f == I("forward", win)
           b == I("backward", win)
           r == I("reducer", win)
           l == I("flat", win)
           o == I("optimizer", win)
           flat == When(args.mode = "serial" /\ win # "nosync", <<l>>)
<1>1. {f, b, r, l, o} \subseteq Instructions
  BY DEF I, Instructions, Ops, Collectives, BeforeJudgement, AfterJudgement
<1>2. Part(<<f, b>>, {f}, {b})
  <2>1. Follows(f, b)
    BY DEF Follows, I, Synced, Judged, Unjudged, AfterJudgement, BeforeJudgement
  <2>2. Part(<<f>> \o <<b>>, {f}, {b})
    BY <1>1, <2>1, OneInstruction, JoinParts
  <2>3. <<f>> \o <<b>> = <<f, b>>
    BY Pair
  <2>4. QED
    BY <2>2, <2>3
<1>3. Part(<<o>>, {o}, {o}) /\ MaybePart(flat, {l}, {l})
  BY <1>1, OneInstruction DEF When, MaybePart
<1>4. CASE Wrapped /\ WindowSyncs(win)
  <2>1. Follows(b, r) /\ Follows(r, l) /\ Follows(r, o) /\ Follows(l, o)
    BY DEF Follows, I, Synced, Judged, Unjudged, AfterJudgement, BeforeJudgement
  <2>2. Part(<<f, b>> \o <<r>>, {f}, {r})
    BY <1>1, <1>2, <2>1, OneInstruction, JoinParts
  <2> HIDE DEF f, b, r, l, o, flat
  <2>3. Part((<<f, b>> \o <<r>>) \o flat, {f}, {r, l})
    BY <1>3, <2>1, <2>2, JoinOptionalPart
  <2>4. Part(((<<f, b>> \o <<r>>) \o flat) \o <<o>>, {f}, {o})
    BY <1>3, <2>1, <2>3, JoinParts
  <2>5. QED
    BY <1>4, <2>4 DEF Step, When, f, b, r, l, o, flat
<1>5. CASE ~(Wrapped /\ WindowSyncs(win))
  <2>1. World = 1 \/ win = "nosync"
    BY <1>5, UnwrappedIsAlone DEF WindowSyncs
  <2>2. Follows(b, l) /\ Follows(b, o) /\ Follows(l, o)
    BY <2>1 DEF Follows, I, Synced, Judged, Unjudged, AfterJudgement, BeforeJudgement
  <2>3. Part(<<f, b>> \o flat, {f}, {b, l})
    BY <1>2, <1>3, <2>2, JoinOptionalPart
  <2>4. Part((<<f, b>> \o flat) \o <<o>>, {f}, {o})
    BY <1>3, <2>2, <2>3, JoinParts
  <2>5. <<f, b>> \o << >> = <<f, b>>
    OBVIOUS
  <2>6. QED
    BY <1>5, <2>4, <2>5 DEF Step, When
<1>6. QED
  BY <1>4, <1>5

(* ... and a window is steps after another.                                *)
LEMMA WindowIsPart ==
  ASSUME Modus, NEW n \in Nat,
         NEW win \in {"warmup", "calibrate", "correctness", "measured", "nosync"}
  PROVE  Part(Window(win, n), {I("window", win)}, {I("window", win), I("optimizer", win)})
<1> DEFINE w == I("window", win)
           f == I("forward", win)
           o == I("optimizer", win)
<1>1. w \in Instructions
  BY DEF I, Instructions, Ops, Collectives, BeforeJudgement, AfterJudgement
<1>2. Follows(o, f) /\ Follows(w, f)
  BY DEF Follows, I, Synced, Judged, Unjudged, AfterJudgement, BeforeJudgement
<1>3. Part(Step(win), {f}, {o})
  BY StepIsPart
<1>4. MaybePart(Cycle(Step(win), n), {f}, {o})
  BY <1>2, <1>3, RepeatPart
<1>5. Part(<<w>>, {w}, {w})
  BY <1>1, OneInstruction
<1> HIDE DEF w, f, o
<1>6. Part(<<w>> \o Cycle(Step(win), n), {w}, {w, o})
  <2>1. \A x \in {w}, y \in {f} : Follows(x, y)
    BY <1>2
  <2>2. QED
    BY <1>4, <1>5, <2>1, JoinOptionalPart
<1>7. QED
  BY <1>6 DEF Window, w, o

(* The correctness check begins with its window and ends with the decision.*)
LEMMA CheckIsPart ==
  ASSUME Modus
  PROVE  Part(Check, {I("window", "correctness")}, {I("decide", "check")})
<1> DEFINE w == I("window", "correctness")
           o == I("optimizer", "correctness")
           b == I("backward", "probe")
           r == I("reducer", "probe")
           i == I("inspect", "probe")
           c == I("broadcast", "check")
           m == I("worst", "check")
           d == I("decide", "check")
<1>1. {b, r, i, c, m, d} \subseteq Instructions
  BY DEF I, Instructions, Ops, Collectives, BeforeJudgement, AfterJudgement
<1>2. /\ Follows(w, b) /\ Follows(o, b) /\ Follows(b, r) /\ Follows(r, i)
      /\ Follows(i, c) /\ Follows(c, m) /\ Follows(m, d) /\ Follows(i, d)
      /\ World = 1 => Follows(b, i)
  BY DEF Follows, I, Synced, Judged, Unjudged, AfterJudgement, BeforeJudgement
<1>3. Part(Window("correctness", Correctness), {w}, {w, o})
  BY WindowIsPart, WindowAssumption
<1>4. Part(Probe, {b}, {i})
  <2>1. CASE Wrapped
    <3>1. Part(<<b>> \o <<r>>, {b}, {r})
      BY <1>1, <1>2, OneInstruction, JoinParts
    <3>2. Part((<<b>> \o <<r>>) \o <<i>>, {b}, {i})
      BY <1>1, <1>2, <3>1, OneInstruction, JoinParts
    <3>3. QED
      BY <2>1, <3>2 DEF Probe, When
  <2>2. CASE ~Wrapped
    <3>1. Part(<<b>> \o <<i>>, {b}, {i})
      BY <1>1, <1>2, <2>2, UnwrappedIsAlone, OneInstruction, JoinParts
    <3>2. <<b>> \o << >> = <<b>>
      OBVIOUS
    <3>3. QED
      BY <2>2, <3>1, <3>2 DEF Probe, When
  <2>3. QED
    BY <2>1, <2>2
<1>5. MaybePart(CheckParamSync, {c}, {m})
  <2>1. Part(<<c>> \o <<m>>, {c}, {m})
    BY <1>1, <1>2, OneInstruction, JoinParts
  <2>2. <<c>> \o <<m>> = <<c, m>>
    BY Pair
  <2>3. QED
    BY <2>1, <2>2 DEF CheckParamSync, When, MaybePart
<1>6. Part(Window("correctness", Correctness) \o Probe, {w}, {i})
  BY <1>2, <1>3, <1>4, JoinParts
<1>7. Part((Window("correctness", Correctness) \o Probe) \o CheckParamSync, {w}, {i, m})
  BY <1>2, <1>5, <1>6, JoinOptionalPart
<1>8. Part(((Window("correctness", Correctness) \o Probe) \o CheckParamSync) \o <<d>>, {w}, {d})
  BY <1>1, <1>2, <1>7, OneInstruction, JoinParts
<1>9. QED
  BY <1>8 DEF Check

(* The program of a launch, whatever its options, is as the invariant has  *)
(* it.                                                                     *)
LEMMA ProgramIsAChain == Modus /\ program = Program => ProgramInv
<1> SUFFICES ASSUME Modus, program = Program PROVE ProgramInv
  OBVIOUS
<1> DEFINE w(win) == I("window", win)
           o(win) == I("optimizer", win)
           d == I("decide", "check")
           r == I("resync", "nosync")
           t == I("slowest", "end")
           body == Before \o Check
<1>1. Part(Before, {w("warmup")}, {w("warmup"), o("warmup")})
  BY WindowIsPart, WindowAssumption DEF Before
<1>2. SUFFICES \E D : Part(Program, {w("warmup")}, D)
  BY DEF Part, ProgramInv
<1>3. CASE args.calibrate
  <2>1. Part(Window("calibrate", Steps), {w("calibrate")}, {w("calibrate"), o("calibrate")})
    BY WindowIsPart, WindowAssumption
  <2>2. Follows(w("warmup"), w("calibrate")) /\ Follows(o("warmup"), w("calibrate"))
    BY DEF Follows, I, Synced, Judged, Unjudged, AfterJudgement, BeforeJudgement
  <2>3. Part(Before \o Window("calibrate", Steps), {w("warmup")}, {w("calibrate"), o("calibrate")})
    BY <1>1, <2>1, <2>2, JoinParts
  <2>4. QED
    BY <1>3, <2>3 DEF Program
<1>4. CASE ~args.calibrate
  <2>1. /\ Follows(w("warmup"), w("correctness")) /\ Follows(o("warmup"), w("correctness"))
        /\ \A x \in {w("measured"), o("measured")} : Follows(x, w("measured"))
        /\ \A x \in {w("nosync"), o("nosync")} : Follows(x, r)
        /\ \A x \in {d, w("measured"), o("measured")} :
             Follows(x, w("measured")) /\ Follows(x, w("nosync"))
        /\ \A x \in {d, w("measured"), o("measured"), r} : Follows(x, t)
    BY DEF Follows, I, Synced, Judged, Unjudged, AfterJudgement, BeforeJudgement
  <2>2. Part(body, {w("warmup")}, {d})
    BY <1>1, <2>1, CheckIsPart, JoinParts
  <2>3. MaybePart(Measured, {w("measured")}, {w("measured"), o("measured")})
    <3>1. Part(Window("measured", Steps), {w("measured")}, {w("measured"), o("measured")})
      BY WindowIsPart, WindowAssumption
    <3>2. QED
      BY <2>1, <3>1, RepeatPart, WindowAssumption DEF Measured
  <2>4. r \in Instructions /\ t \in Instructions
    BY DEF I, Instructions, Ops, Collectives, BeforeJudgement, AfterJudgement
  <2>5. MaybePart(NoSyncProbe, {w("nosync")}, {r})
    <3>1. Part(Window("nosync", Steps), {w("nosync")}, {w("nosync"), o("nosync")})
      BY WindowIsPart, WindowAssumption
    <3>2. Part(Window("nosync", Steps) \o <<r>>, {w("nosync")}, {r})
      BY <2>1, <2>4, <3>1, OneInstruction, JoinParts
    <3>3. QED
      BY <3>2 DEF NoSyncProbe, When, MaybePart
  <2>6. MaybePart(Finish, {t}, {t})
    BY <2>4, OneInstruction DEF Finish, When, MaybePart
  <2> HIDE DEF w, o, d, r, t, body
  <2>7. Part(body \o Measured, {w("warmup")}, {d, w("measured"), o("measured")})
    <3>1. \A x \in {d}, y \in {w("measured")} : Follows(x, y)
      BY <2>1
    <3>2. QED
      BY <2>2, <2>3, <3>1, JoinOptionalPart
  <2>8. Part((body \o Measured) \o NoSyncProbe, {w("warmup")},
             {d, w("measured"), o("measured"), r})
    BY <2>1, <2>5, <2>7, JoinOptionalPart
  <2>9. Part(((body \o Measured) \o NoSyncProbe) \o Finish, {w("warmup")},
             {d, w("measured"), o("measured"), r, t})
    BY <2>1, <2>6, <2>8, JoinOptionalPart
  <2>10. Program = ((body \o Measured) \o NoSyncProbe) \o Finish
    <3>1. Program = Before \o Check \o Measured \o NoSyncProbe \o Finish
      BY <1>4 DEF Program
    <3>2. QED
      BY <3>1 DEF body
  <2>11. QED
    BY <2>9, <2>10
<1>5. QED
  BY <1>3, <1>4

-----------------------------------------------------------------------------
(* The only rank agrees with itself.                                       *)
LEMMA Alone == World = 1 => \A r, q \in Ranks : r = q
  BY DEF Ranks

(* An instruction and the next.                                            *)
LEMMA NextInstruction ==
  ASSUME ProgramInv, NEW i \in Nat \ {0}, i <= Len(program)
  PROVE  /\ Len(program) \in Nat
         /\ program[i] \in Instructions
         /\ i + 1 <= Len(program) =>
              program[i + 1] \in Instructions /\ Follows(program[i], program[i + 1])
<1>1. program \in Seq(Instructions) /\ Len(program) \in Nat
  BY DEF ProgramInv, Chain
<1>2. ASSUME i + 1 <= Len(program)
      PROVE  i \in 1 .. Len(program) - 1
  BY <1>1, <1>2
<1>3. QED
  BY <1>1, <1>2 DEF ProgramInv, Chain

(* Rank r moves by itself, and changes only what is its own; mostly it     *)
(* goes on to its next instruction.                                        *)
Moves(r) ==
  /\ Running(r) /\ At(r).op \notin Collectives
  /\ UNCHANGED <<args, program, commVars>>
  /\ \A q \in Ranks \ {r} :
       /\ pc'[q] = pc[q]
       /\ params'[q] = params[q] /\ moments'[q] = moments[q] /\ grads'[q] = grads[q]
       /\ loss'[q] = loss[q] /\ finite'[q] = finite[q] /\ syncErr'[q] = syncErr[q]
       /\ verdict'[q] = verdict[q]
Goes(r) == Moves(r) /\ Advance(r)

(* Where a rank that moves by itself is.                                   *)
LEMMA MovesFrom ==
  ASSUME LockstepInv, NEW r \in Ranks, Moves(r)
  PROVE  /\ pc[r] \in Nat \ {0} /\ r \notin owed /\ r \notin owed'
         /\ Position(r) = pc[r] /\ Present(r) /\ Here(r) = At(r) /\ Here(r) \in Instructions
         /\ Gradients(r) = grads[r] /\ Gradients(r)' = grads'[r]
         /\ verdict[r] # "abort"
<1>1. pc[r] \in Nat \ {0} /\ r \notin owed /\ pc[r] <= Len(program)
  BY DEF LockstepInv, TypeInv, OwedInv, Moves, Running
<1>2. owed' = owed
  BY DEF Moves, commVars
<1>3. Position(r) = pc[r] /\ Present(r) /\ Here(r) = At(r)
  BY <1>1 DEF Position, Present, Here, At
<1>4. Gradients(r) = grads[r] /\ Gradients(r)' = grads'[r]
  BY <1>1, <1>2 DEF Gradients
<1>5. verdict[r] # "abort"
  BY DEF LockstepInv, VerdictInv, VerdictOf, Moves
<1>6. QED
  BY <1>1, <1>2, <1>3, <1>4, <1>5, NextInstruction DEF LockstepInv, At

(* Where a rank that goes on by itself is, before and after.               *)
LEMMA GoesTo ==
  ASSUME LockstepInv, NEW r \in Ranks, Goes(r)
  PROVE  /\ pc[r] \in Nat \ {0} /\ r \notin owed /\ r \notin owed'
         /\ Position(r) = pc[r] /\ Present(r) /\ Here(r) = At(r) /\ Here(r) \in Instructions
         /\ Position(r)' = pc[r] + 1
         /\ Present(r)' => Here(r)' \in Instructions /\ Follows(Here(r), Here(r)')
         /\ Gradients(r) = grads[r] /\ Gradients(r)' = grads'[r]
<1>1. /\ pc[r] \in Nat \ {0} /\ r \notin owed /\ r \notin owed' /\ pc[r] <= Len(program)
      /\ Position(r) = pc[r] /\ Present(r) /\ Here(r) = At(r)
      /\ Gradients(r) = grads[r] /\ Gradients(r)' = grads'[r]
  BY MovesFrom DEF Goes, Moves, Running
<1>2. pc'[r] = pc[r] + 1 /\ program' = program
  BY DEF LockstepInv, TypeInv, Goes, Moves, Advance
<1>3. Position(r)' = pc[r] + 1
  BY <1>1, <1>2 DEF Position
<1>4. (Present(r)' => pc[r] + 1 <= Len(program)) /\ Here(r)' = program[pc[r] + 1]
  BY <1>2, <1>3 DEF Present, Here
<1>5. QED
  BY <1>1, <1>3, <1>4, NextInstruction DEF LockstepInv, At

(* Nothing of another rank changes.                                        *)
LEMMA OthersStay ==
  ASSUME LockstepInv, NEW r \in Ranks, Moves(r), NEW q \in Ranks, q # r
  PROVE  /\ pc'[q] = pc[q] /\ Position(q)' = Position(q)
         /\ (Present(q)' <=> Present(q)) /\ Here(q)' = Here(q)
         /\ (Running(q)' <=> Running(q)) /\ At(q)' = At(q)
         /\ Gradients(q)' = Gradients(q) /\ (Averaging(q)' <=> Averaging(q))
         /\ Made(q)' = Made(q) /\ (Finite(q)' <=> Finite(q)) /\ Moments(q)' = Moments(q)
         /\ (Past(q)' <=> Past(q)) /\ (Judgement(q)' <=> Judgement(q))
         /\ (LossOf(q)' <=> LossOf(q)) /\ (VerdictOf(q)' <=> VerdictOf(q))
<1>1. /\ params'[q] = params[q] /\ moments'[q] = moments[q] /\ grads'[q] = grads[q]
      /\ loss'[q] = loss[q] /\ finite'[q] = finite[q] /\ syncErr'[q] = syncErr[q]
      /\ verdict'[q] = verdict[q]
      /\ pc'[q] = pc[q] /\ owed' = owed /\ result' = result /\ program' = program
  BY DEF Moves, commVars, LockstepInv, TypeInv
<1>2. /\ Position(q)' = Position(q) /\ (Running(q)' <=> Running(q)) /\ At(q)' = At(q)
  BY <1>1 DEF Position, Running, At
<1>3. (Present(q)' <=> Present(q)) /\ Here(q)' = Here(q)
  BY <1>1, <1>2 DEF Present, Here
<1>4. Gradients(q)' = Gradients(q) /\ (Averaging(q)' <=> Averaging(q))
      /\ (Updating(q)' <=> Updating(q))
  BY <1>1, <1>2, <1>3 DEF Gradients, Averaging, Synced, Updating
<1>5. Made(q)' = Made(q) /\ (Finite(q)' <=> Finite(q)) /\ Moments(q)' = Moments(q)
  BY <1>1, <1>4 DEF Made, Finite, Moments
<1>6. (Past(q)' <=> Past(q)) /\ (Judgement(q)' <=> Judgement(q))
  BY <1>1, <1>3, <1>4 DEF Past, Judged, Judgement
<1>7. LossOf(q)' <=> LossOf(q)
  BY <1>1, <1>3, <1>4, <1>5 DEF LossOf, Unjudged
<1>8. VerdictOf(q)' <=> VerdictOf(q)
  BY <1>1, <1>2, <1>3 DEF VerdictOf
<1>9. QED
  BY <1>1, <1>2, <1>3, <1>4, <1>5, <1>6, <1>7, <1>8

(* It begins with equal parameters, and nothing decided.                   *)
LEMMA InitLockstep == Init => LockstepInv
<1> SUFFICES ASSUME Init PROVE LockstepInv
  OBVIOUS
<1>1. ProgramInv
  <2>1. Modus /\ program = Program
    BY DEF Init, Modus
  <2>2. QED
    BY <2>1, ProgramIsAChain
<1>2. program \in Seq(Instructions) /\ Len(program) \in Nat \ {0}
  BY <1>1 DEF ProgramInv, Chain
<1>3. ASSUME NEW r \in Ranks
      PROVE  /\ pc[r] = 1 /\ Position(r) = 1 /\ Present(r) /\ Here(r) = I("window", "warmup")
             /\ ~Updating(r) /\ Made(r) = << >> /\ Finite(r) = TRUE /\ Moments(r) = << >>
             /\ loss[r] = TRUE /\ verdict[r] = "undecided" /\ ~Past(r)
  <2>1. pc[r] = 1 /\ Position(r) = 1
    BY DEF Init, Position
  <2>2. Present(r) /\ Here(r) = I("window", "warmup")
    BY <1>1, <1>2, <2>1 DEF Present, Here, ProgramInv
  <2>3. ~Updating(r)
    BY <2>2 DEF Updating, I
  <2>4. verdict[r] = "undecided" /\ ~Past(r)
    BY <2>2 DEF Init, Past, Judged, I, AfterJudgement
  <2>5. QED
    BY <2>1, <2>2, <2>3, <2>4 DEF Init, Made, Finite, Moments
<1>4. TypeInv
  BY DEF Init, TypeInv, NoGrads
<1>5. PendingInv /\ OwedInv
  BY DEF Init, PendingInv, OwedInv
<1>6. MeetInv
  <2>1. \A r, q \in Ranks : Position(r) = 1 /\ Position(q) = 1
    BY <1>3
  <2>2. QED
    BY <1>2, <2>1 DEF MeetInv
<1>7. VerdictInv
  BY <1>3 DEF VerdictInv, VerdictOf
<1>8. UpdatesInv
  BY <1>3 DEF UpdatesInv
<1>9. LossInv
  BY <1>3 DEF LossInv, LossOf
<1>10. JudgementInv
  BY <1>3 DEF JudgementInv
<1>11. QED
  BY <1>1, <1>4, <1>5, <1>6, <1>7, <1>8, <1>9, <1>10 DEF LockstepInv

(* What rank r has to see to when it goes on by itself.                    *)
KeepsUpdates(r) ==
  Averaging(r)' =>
    World = 1 \/ ( /\ Averaging(r) /\ Made(r)' = Made(r)
                   /\ (Finite(r)' <=> Finite(r)) /\ Moments(r)' = Moments(r))
KeepsJudgement(r) ==
  Past(r)' => World = 1 \/ (Past(r) /\ (Judgement(r)' <=> Judgement(r)))

(* A rank that moves by itself, seeing to that, disturbs nobody.           *)
LEMMA MovingIsSafe ==
  ASSUME LockstepInv, NEW r \in Ranks, Moves(r), TypeInv', MeetInv',
         KeepsUpdates(r), KeepsJudgement(r), LossOf(r)', VerdictOf(r)'
  PROVE  LockstepInv'
<1>1. ProgramInv' /\ program' = program
  BY DEF LockstepInv, ProgramInv, Moves
<1>2. PendingInv'
  <2>1. r \notin DOMAIN pending
    BY DEF LockstepInv, PendingInv, Moves
  <2>2. pending' = pending /\ owed' = owed
    BY DEF Moves, commVars
  <2>3. ASSUME NEW q \in DOMAIN pending
        PROVE  /\ q \notin owed /\ Running(q)' /\ At(q)'.op \in Collectives
               /\ pending[q] = [op |-> At(q)'.op, value |-> Brought(q)']
    <3>1. q \in Ranks /\ q # r
      BY <2>1 DEF LockstepInv, TypeInv
    <3>2. Running(q)' /\ At(q)' = At(q) /\ grads'[q] = grads[q] /\ params'[q] = params[q]
          /\ syncErr'[q] = syncErr[q]
      BY <3>1, OthersStay DEF Moves, LockstepInv, PendingInv
    <3>3. Brought(q)' = Brought(q)
      BY <3>2 DEF Brought
    <3>4. QED
      BY <3>2, <3>3 DEF LockstepInv, PendingInv
  <2>4. QED
    BY <2>2, <2>3 DEF PendingInv
<1>3. OwedInv'
  <2>1. r \notin owed /\ owed' = owed /\ result' = result
    BY MovesFrom DEF Moves, commVars
  <2>2. ASSUME NEW q \in owed
        PROVE  Running(q)' /\ At(q)' = At(q) /\ params'[q] = params[q]
    <3>1. q \in Ranks /\ q # r
      BY <2>1 DEF LockstepInv, TypeInv
    <3>2. QED
      BY <3>1, OthersStay DEF Moves, LockstepInv, OwedInv
  <2>3. QED
    BY <2>1, <2>2 DEF LockstepInv, OwedInv
<1>4. VerdictInv'
  BY OthersStay DEF VerdictInv, LockstepInv
<1>5. UpdatesInv'
  <2> SUFFICES ASSUME NEW a \in Ranks, NEW b \in Ranks, Averaging(a)', Averaging(b)'
               PROVE  /\ Made(a)' = Made(b)' /\ (Finite(a)' <=> Finite(b)')
                      /\ Moments(a)' = Moments(b)'
    BY DEF UpdatesInv
  <2>1. CASE World = 1
    BY <2>1, Alone
  <2>2. CASE World # 1
    <3>1. \A q \in Ranks : Averaging(q)' =>
            /\ Averaging(q) /\ Made(q)' = Made(q) /\ (Finite(q)' <=> Finite(q))
            /\ Moments(q)' = Moments(q)
      BY <2>2, OthersStay DEF KeepsUpdates
    <3>2. QED
      BY <3>1 DEF LockstepInv, UpdatesInv
  <2>3. QED
    BY <2>1, <2>2
<1>6. LossInv'
  BY OthersStay DEF LossInv, LockstepInv
<1>7. JudgementInv'
  <2> SUFFICES ASSUME NEW a \in Ranks, NEW b \in Ranks, Past(a)', Past(b)'
               PROVE  Judgement(a)' <=> Judgement(b)'
    BY DEF JudgementInv
  <2>1. CASE World = 1
    BY <2>1, Alone
  <2>2. CASE World # 1
    <3>1. \A q \in Ranks : Past(q)' => Past(q) /\ (Judgement(q)' <=> Judgement(q))
      BY <2>2, OthersStay DEF KeepsJudgement
    <3>2. QED
      BY <3>1 DEF LockstepInv, JudgementInv
  <2>3. QED
    BY <2>1, <2>2
<1>8. QED
  BY <1>1, <1>2, <1>3, <1>4, <1>5, <1>6, <1>7 DEF LockstepInv

(* ... and so one that goes on.                                            *)
LEMMA GoingOnIsSafe ==
  ASSUME LockstepInv, NEW r \in Ranks, Goes(r), TypeInv',
         KeepsUpdates(r), KeepsJudgement(r), LossOf(r)', VerdictOf(r)'
  PROVE  LockstepInv'
<1>1. MeetInv'
  <2> SUFFICES ASSUME NEW a \in Ranks, NEW b \in Ranks,
                      verdict'[a] # "abort", verdict'[b] # "abort",
                      NEW k \in 1 .. Len(program), Position(a)' <= k, k < Position(b)'
               PROVE  program[k].op \notin Collectives
    BY DEF MeetInv, Goes, Moves
  <2>1. \A q \in Ranks : Position(q) \in Int
    <3>1. \A q \in Ranks : pc[q] \in Nat
      BY DEF LockstepInv, TypeInv
    <3>2. QED
      BY <3>1 DEF Position
  <2>2. Len(program) \in Nat /\ pc[r] \in Nat /\ Position(r) = pc[r] /\ Position(r)' = pc[r] + 1
        /\ At(r) = program[pc[r]]
    BY GoesTo, NextInstruction DEF LockstepInv, At, Goes, Moves, Running
  <2>3. \A q \in Ranks : q # r => Position(q)' = Position(q) /\ verdict'[q] = verdict[q]
    BY OthersStay DEF Goes, Moves
  <2>4. Position(a) <= k /\ verdict[a] # "abort" /\ verdict[b] # "abort"
    BY <2>1, <2>2, <2>3, MovesFrom DEF Goes
  <2>5. CASE k < Position(b)
    BY <2>4, <2>5 DEF LockstepInv, MeetInv
  <2>6. CASE ~(k < Position(b))
    <3>1. k = pc[r]
      BY <2>1, <2>2, <2>3, <2>6
    <3>2. QED
      BY <3>1, <2>2 DEF Goes, Moves
  <2>7. QED
    BY <2>5, <2>6
<1>2. QED
  BY <1>1, MovingIsSafe DEF Goes

(* Between the look and the decision nothing changes a rank's judgement,   *)
(* and afterwards its verdict stands.                                      *)
LEMMA JudgementStands ==
  ASSUME LockstepInv, NEW r \in Ranks, Goes(r), Here(r).op # "inspect",
         verdict'[r] = verdict[r], finite'[r] = finite[r]
  PROVE  VerdictOf(r)' /\ KeepsJudgement(r)
<1> DEFINE a == Here(r)
           b == Here(r)'
<1>1. /\ Present(r) /\ a = At(r) /\ a \in Instructions /\ a.op \notin Collectives
      /\ Present(r)' => b \in Instructions /\ Follows(a, b)
  BY GoesTo DEF Goes, Moves
<1>2. verdict[r] \in {"undecided", "go on"}
  BY MovesFrom DEF LockstepInv, TypeInv, Goes
<1>3. verdict[r] = "go on" => finite[r] /\ a.win \in AfterJudgement
  BY <1>1 DEF LockstepInv, VerdictInv, VerdictOf
<1>4. verdict'[r] = "go on" => finite'[r] /\ (Present(r)' => b.win \in AfterJudgement)
  BY <1>1, <1>3 DEF Follows, Unjudged, Instructions, BeforeJudgement, AfterJudgement
<1>5. VerdictOf(r)'
  BY <1>2, <1>4 DEF VerdictOf
<1>6. ASSUME Past(r)', World # 1
      PROVE  Past(r) /\ (Judgement(r)' <=> Judgement(r))
  <2>1. Present(r)' => b.op # "inspect"
    BY <1>1, <1>6 DEF Follows, Collectives
  <2>2. Judgement(r) = finite[r] /\ Judgement(r)' = finite[r]
    BY <2>1 DEF Judgement
  <2>3. CASE verdict[r] = "go on"
    BY <1>1, <1>3, <2>2, <2>3 DEF Past, Judged
  <2>4. CASE verdict[r] = "undecided"
    <3>1. Present(r)' /\ Judged(b)
      BY <1>6, <2>4 DEF Past
    <3>2. Judged(a)
      BY <1>1, <2>1, <3>1 DEF Follows
    <3>3. QED
      BY <1>1, <2>2, <3>2 DEF Past
  <2>5. QED
    BY <1>2, <2>3, <2>4
<1>7. QED
  BY <1>5, <1>6 DEF KeepsJudgement

(* A rank that touches neither parameters nor optimizer state, and has not *)
(* just made a gradient, keeps its updates.                                *)
LEMMA UpdatesStand ==
  ASSUME LockstepInv, NEW r \in Ranks, Goes(r),
         params'[r] = params[r], moments'[r] = moments[r],
         Here(r).op # "optimizer",
         Here(r).op # "backward"
  PROVE  KeepsUpdates(r)
<1> DEFINE a == Here(r)
           b == Here(r)'
<1>1. /\ Present(r) /\ a = At(r) /\ a \in Instructions /\ a.op \notin Collectives
      /\ Present(r)' => b \in Instructions /\ Follows(a, b)
  BY GoesTo DEF Goes, Moves
<1>2. ASSUME Averaging(r)'
      PROVE  Averaging(r) /\ ~Updating(r)' /\ ~Updating(r)
  <2>1. Present(r)' /\ Synced(b)
    BY <1>2 DEF Averaging, Synced
  <2>2. Synced(a) /\ b.op # "optimizer"
    BY <1>1, <2>1 DEF Follows, Collectives
  <2>3. QED
    BY <1>1, <2>2 DEF Averaging, Updating
<1>3. QED
  BY <1>2 DEF KeepsUpdates, Made, Finite, Moments

(* A rank at its next instruction.                                         *)
LEMMA AdvanceKeepsType ==
  ASSUME LockstepInv, NEW r \in Ranks, Advance(r)
  PROVE  pc' \in [Ranks -> Nat \ {0}]
<1>1. pc \in [Ranks -> Nat \ {0}]
  BY DEF LockstepInv, TypeInv
<1>2. pc[r] + 1 \in Nat \ {0}
  BY <1>1
<1>3. QED
  BY <1>1, <1>2 DEF Advance

(* A window begins with no losses: what was lost shows no more.            *)
LEMMA BeginWindowIsSafe ==
  ASSUME LockstepInv, NEW r \in Ranks, BeginWindow(r)
  PROVE  LockstepInv'
<1>1. Goes(r)
  BY DEF BeginWindow, Is, Goes, Moves, Advance, Collectives, LockstepInv, TypeInv
<1>2. Here(r) = At(r) /\ At(r).op = "window"
  BY <1>1, GoesTo DEF BeginWindow, Is
<1>3. TypeInv'
  <2>1. pc' \in [Ranks -> Nat \ {0}]
    BY AdvanceKeepsType DEF BeginWindow
  <2>2. loss' \in [Ranks -> BOOLEAN]
    BY DEF LockstepInv, TypeInv, BeginWindow
  <2>3. QED
    BY <2>1, <2>2 DEF LockstepInv, TypeInv, BeginWindow, commVars
<1>4. LossOf(r)'
  BY DEF LockstepInv, TypeInv, BeginWindow, LossOf
<1>5. QED
  BY <1>1, <1>2, <1>3, <1>4, JudgementStands, UpdatesStand, GoingOnIsSafe
     DEF BeginWindow

(* A loss that is not finite makes the gradients so.                       *)
LEMMA ForwardIsSafe ==
  ASSUME LockstepInv, NEW r \in Ranks, Forward(r)
  PROVE  LockstepInv'
<1>1. Goes(r)
  BY DEF Forward, Is, Goes, Moves, Advance, Collectives, LockstepInv, TypeInv
<1>2. Here(r) = At(r) /\ At(r).op = "forward" /\ Present(r)
  BY <1>1, GoesTo DEF Forward, Is
<1>3. PICK ok \in BOOLEAN : /\ Computes(params[r].ok, ok)
                            /\ loss' = [loss EXCEPT ![r] = @ /\ ok]
                            /\ grads' = [grads EXCEPT ![r].ok = ok]
  BY DEF Forward
<1>4. TypeInv'
  <2>1. pc' \in [Ranks -> Nat \ {0}]
    BY AdvanceKeepsType DEF Forward
  <2>2. grads' \in [Ranks -> [from : SUBSET Ranks, ok : BOOLEAN]]
    BY <1>3 DEF LockstepInv, TypeInv
  <2>3. loss' \in [Ranks -> BOOLEAN]
    <3>1. loss \in [Ranks -> BOOLEAN] /\ (loss[r] /\ ok) \in BOOLEAN
      BY DEF LockstepInv, TypeInv
    <3>2. QED
      BY <1>3, <3>1
  <2>4. QED
    BY <2>1, <2>2, <2>3 DEF LockstepInv, TypeInv, Forward, commVars
<1>5. LossOf(r)'
  <2> SUFFICES ASSUME Present(r)', Unjudged(Here(r)'), ~loss'[r]
               PROVE  /\ Here(r)'.op = "backward" /\ Here(r)'.win # "probe"
                      /\ ~params'[r].ok \/ ~grads'[r].ok
    BY DEF LossOf, Unjudged
  <2>1. Here(r)'.op = "backward" /\ Here(r)'.win # "probe" /\ Unjudged(Here(r))
    BY <1>1, <1>2, GoesTo DEF Follows
  <2>2. ~loss[r] => ~params[r].ok
    BY <1>2, <2>1 DEF LockstepInv, LossInv, LossOf, Finite, Updating
  <2>3. grads'[r].ok = ok /\ params' = params /\ (loss'[r] <=> loss[r] /\ ok)
    <3>1. grads[r] \in [from : SUBSET Ranks, ok : BOOLEAN] /\ DOMAIN grads = Ranks
          /\ DOMAIN loss = Ranks
      BY DEF LockstepInv, TypeInv
    <3>2. loss'[r] = (loss[r] /\ ok) /\ grads'[r].ok = ok
      BY <1>3, <3>1
    <3>3. QED
      BY <3>2 DEF Forward
  <2>4. QED
    BY <2>1, <2>2, <2>3
<1>6. QED
  BY <1>1, <1>2, <1>4, <1>5, JudgementStands, UpdatesStand, GoingOnIsSafe
     DEF Forward

(* A gradient before it is averaged is no update yet, but of one rank.     *)
LEMMA BackwardIsSafe ==
  ASSUME LockstepInv, NEW r \in Ranks, Backward(r)
  PROVE  LockstepInv'
<1>1. Goes(r)
  BY DEF Backward, Is, Goes, Moves, Advance, Collectives, LockstepInv, TypeInv
<1>2. /\ Here(r) = At(r) /\ At(r).op = "backward" /\ Present(r)
      /\ Present(r)' => Follows(Here(r), Here(r)')
      /\ Gradients(r)' = grads'[r]
  BY <1>1, GoesTo DEF Backward, Is
<1>3. PICK ok \in BOOLEAN :
        /\ Computes(params[r].ok /\ (At(r).win = "probe" \/ grads[r].ok), ok)
        /\ grads' = [grads EXCEPT ![r] = [from |-> {r}, ok |-> ok]]
  BY DEF Backward
<1>4. TypeInv'
  <2>1. pc' \in [Ranks -> Nat \ {0}]
    BY AdvanceKeepsType DEF Backward
  <2>2. grads' \in [Ranks -> [from : SUBSET Ranks, ok : BOOLEAN]]
    BY <1>3 DEF LockstepInv, TypeInv
  <2>3. QED
    BY <2>1, <2>2 DEF LockstepInv, TypeInv, Backward, commVars
<1>5. grads'[r].ok = ok /\ params' = params
  BY <1>3 DEF LockstepInv, TypeInv, Backward
<1>6. LossOf(r)'
  <2> SUFFICES ASSUME Present(r)', Unjudged(Here(r)'), ~loss'[r]
               PROVE  /\ Here(r)'.op \in {"reducer", "flat", "inspect", "optimizer"}
                      /\ ~Gradients(r)'.ok
                      /\ Here(r)'.op = "optimizer" => ~Finite(r)'
    BY DEF LossOf, Unjudged
  <2>1. Here(r)'.op \in {"reducer", "flat", "inspect", "optimizer"} /\ Unjudged(Here(r))
    BY <1>2 DEF Follows
  <2>2. ~params[r].ok \/ (At(r).win # "probe" /\ ~grads[r].ok)
    BY <1>2, <2>1 DEF Backward, LockstepInv, LossInv, LossOf, Finite, Updating
  <2>3. ~ok
    BY <1>3, <2>2 DEF Computes
  <2>4. QED
    BY <1>2, <1>5, <2>1, <2>3 DEF Finite, Updating
<1>7. KeepsUpdates(r)
  <2>1. ASSUME Averaging(r)', World # 1
        PROVE  Averaging(r) /\ ~Updating(r)' /\ ~Updating(r)
    <3>1. Present(r)' /\ Synced(Here(r)')
      BY <2>1 DEF Averaging, Synced
    <3>2. Synced(Here(r)) /\ Here(r)'.op # "optimizer"
      BY <1>2, <2>1, <3>1 DEF Follows
    <3>3. QED
      BY <1>2, <3>2 DEF Averaging, Updating
  <2>2. QED
    BY <2>1, <1>5 DEF KeepsUpdates, Made, Finite, Moments, Backward
<1>8. QED
  BY <1>1, <1>2, <1>4, <1>6, <1>7, JudgementStands, GoingOnIsSafe
     DEF Backward

(* The optimizer makes the update everybody has the gradient for.          *)
LEMMA OptimizerIsSafe ==
  ASSUME LockstepInv, NEW r \in Ranks, Optimizer(r)
  PROVE  LockstepInv'
<1>1. Goes(r)
  BY DEF Optimizer, Is, Goes, Moves, Advance, Collectives, LockstepInv, TypeInv
<1>2. /\ Here(r) = At(r) /\ At(r).op = "optimizer" /\ Present(r)
      /\ Present(r)' => Follows(Here(r), Here(r)')
      /\ Gradients(r) = grads[r]
  BY <1>1, GoesTo DEF Optimizer, Is
<1>3. /\ params'[r] = [made |-> Append(params[r].made, grads[r].from),
                       ok   |-> params[r].ok /\ grads[r].ok]
      /\ moments'[r] = Append(moments[r], grads[r].from)
  BY DEF LockstepInv, TypeInv, Optimizer
<1>4. TypeInv'
  <2>1. params[r].made \in Seq(SUBSET Ranks) /\ grads[r].from \in SUBSET Ranks
        /\ moments[r] \in Seq(SUBSET Ranks) /\ grads[r].ok \in BOOLEAN /\ params[r].ok \in BOOLEAN
    BY DEF LockstepInv, TypeInv
  <2>2. /\ Append(params[r].made, grads[r].from) \in Seq(SUBSET Ranks)
        /\ Append(moments[r], grads[r].from) \in Seq(SUBSET Ranks)
    BY <2>1
  <2>3. params' \in [Ranks -> [made : Seq(SUBSET Ranks), ok : BOOLEAN]]
    BY <2>1, <2>2 DEF LockstepInv, TypeInv, Optimizer
  <2>4. moments' \in [Ranks -> Seq(SUBSET Ranks)]
    BY <2>2 DEF LockstepInv, TypeInv, Optimizer
  <2>5. grads' \in [Ranks -> [from : SUBSET Ranks, ok : BOOLEAN]]
    BY DEF LockstepInv, TypeInv, Optimizer, NoGrads
  <2>6. pc' \in [Ranks -> Nat \ {0}]
    BY AdvanceKeepsType DEF Optimizer
  <2>7. QED
    BY <2>3, <2>4, <2>5, <2>6 DEF LockstepInv, TypeInv, Optimizer, commVars
<1>4a. params'[r].ok = (params[r].ok /\ grads[r].ok)
  BY <1>3
<1>5. Updating(r) /\ ~Updating(r)'
  BY <1>2 DEF Updating, Follows
<1>6. LossOf(r)'
  <2> SUFFICES ASSUME Present(r)', Unjudged(Here(r)'), ~loss'[r]
               PROVE  /\ Here(r)'.op \notin {"reducer", "flat", "inspect"}
                      /\ ~(Here(r)'.op = "backward" /\ Here(r)'.win # "probe")
                      /\ ~Finite(r)'
    BY DEF LossOf, Unjudged
  <2>1. /\ Here(r)'.op \in {"window", "forward", "resync", "slowest", "backward"}
        /\ ~(Here(r)'.op = "backward" /\ Here(r)'.win # "probe") /\ Unjudged(Here(r))
    BY <1>2 DEF Follows
  <2>2. ~Finite(r)
    BY <1>2, <2>1 DEF Optimizer, LockstepInv, LossInv, LossOf
  <2>3. Finite(r)' <=> params[r].ok /\ grads[r].ok
    BY <1>4a, <1>5 DEF Finite
  <2>4. Finite(r) <=> params[r].ok /\ grads[r].ok
    BY <1>2, <1>5 DEF Finite
  <2>5. QED
    BY <2>1, <2>2, <2>3, <2>4
<1>7. KeepsUpdates(r)
  <2>1. Averaging(r)' => Averaging(r)
    BY <1>2 DEF Averaging, Synced, Follows
  <2>2. Made(r)' = Made(r) /\ Moments(r)' = Moments(r)
    BY <1>2, <1>3, <1>5 DEF Made, Moments
  <2>3. Finite(r)' <=> params[r].ok /\ grads[r].ok
    BY <1>4a, <1>5 DEF Finite
  <2>4. Finite(r) <=> params[r].ok /\ grads[r].ok
    BY <1>2, <1>5 DEF Finite
  <2>5. QED
    BY <2>1, <2>2, <2>3, <2>4 DEF KeepsUpdates
<1>8. QED
  BY <1>1, <1>2, <1>4, <1>6, <1>7, JudgementStands, GoingOnIsSafe
     DEF Optimizer

(* The look at loss and averaged gradients is a look at the latter.        *)
LEMMA InspectIsSafe ==
  ASSUME LockstepInv, NEW r \in Ranks, Inspect(r)
  PROVE  LockstepInv'
<1>1. Goes(r)
  BY DEF Inspect, Is, Goes, Moves, Advance, Collectives, LockstepInv, TypeInv
<1>2. /\ Here(r) = At(r) /\ At(r).op = "inspect" /\ At(r).win = "probe" /\ Present(r)
      /\ Present(r)' => Follows(Here(r), Here(r)')
      /\ Gradients(r) = grads[r] /\ verdict[r] # "abort"
  BY <1>1, GoesTo, MovesFrom DEF Inspect, Is, Instructions, Goes
<1>3. finite'[r] = (loss[r] /\ grads[r].ok)
  BY DEF Inspect, LockstepInv, TypeInv
<1>4. TypeInv'
  <2>1. pc' \in [Ranks -> Nat \ {0}]
    BY AdvanceKeepsType DEF Inspect
  <2>2. grads' \in [Ranks -> [from : SUBSET Ranks, ok : BOOLEAN]]
    BY DEF LockstepInv, TypeInv, Inspect, NoGrads
  <2>3. finite' \in [Ranks -> BOOLEAN]
    <3>1. finite \in [Ranks -> BOOLEAN] /\ (loss[r] /\ grads[r].ok) \in BOOLEAN
      BY DEF LockstepInv, TypeInv
    <3>2. QED
      BY <3>1 DEF Inspect
  <2>4. QED
    BY <2>1, <2>2, <2>3 DEF LockstepInv, TypeInv, Inspect, commVars
<1>5. LossOf(r)'
  BY <1>2 DEF LossOf, Follows, Unjudged
<1>6. VerdictOf(r)'
  <2>1. verdict[r] = "undecided"
    BY <1>2 DEF LockstepInv, TypeInv, VerdictInv, VerdictOf, AfterJudgement
  <2>2. QED
    BY <2>1 DEF VerdictOf, Inspect
<1>7. KeepsJudgement(r)
  <2>1. Past(r) /\ (Judgement(r) <=> grads[r].ok)
    BY <1>2 DEF Past, Judgement, Judged
  <2>2. World # 1 => (Judgement(r)' <=> loss[r] /\ grads[r].ok)
    BY <1>2, <1>3 DEF Judgement, Follows
  <2>3. ~loss[r] => ~grads[r].ok
    BY <1>2 DEF LockstepInv, LossInv, LossOf, Unjudged, BeforeJudgement
  <2>4. QED
    BY <2>1, <2>2, <2>3 DEF KeepsJudgement
<1>8. KeepsUpdates(r)
  BY <1>1, <1>2, UpdatesStand DEF Inspect
<1>9. QED
  BY <1>1, <1>4, <1>5, <1>6, <1>7, <1>8, GoingOnIsSafe

(* The decision to go on is what a finite judgement says.                  *)
LEMMA GoOnIsSafe ==
  ASSUME LockstepInv, NEW r \in Ranks, GoOn(r)
  PROVE  LockstepInv'
<1>1. Goes(r)
  BY DEF GoOn, Is, Goes, Moves, Advance, Collectives, LockstepInv, TypeInv
<1>2. /\ Here(r) = At(r) /\ At(r).op = "decide" /\ At(r).win = "check" /\ Present(r)
      /\ Present(r)' => Here(r)' \in Instructions /\ Follows(Here(r), Here(r)')
  BY <1>1, GoesTo DEF GoOn, Is, Instructions
<1>3. TypeInv'
  <2>1. pc' \in [Ranks -> Nat \ {0}]
    BY AdvanceKeepsType DEF GoOn
  <2>2. verdict' \in [Ranks -> {"undecided", "go on", "abort"}]
    BY DEF LockstepInv, TypeInv, GoOn
  <2>3. QED
    BY <2>1, <2>2 DEF LockstepInv, TypeInv, GoOn, commVars
<1>4. LossOf(r)'
  BY <1>2 DEF LossOf, Follows, Unjudged, BeforeJudgement
<1>5. VerdictOf(r)'
  <2>1. verdict'[r] = "go on" /\ finite'[r]
    BY DEF GoOn, LockstepInv, TypeInv
  <2>2. Present(r)' => Here(r)'.win \in AfterJudgement
    BY <1>2 DEF Follows, Unjudged, Instructions, BeforeJudgement, AfterJudgement
  <2>3. QED
    BY <2>1, <2>2 DEF VerdictOf
<1>6. KeepsJudgement(r)
  <2>1. Past(r) /\ Judgement(r) = finite[r]
    BY <1>2 DEF Past, Judged, AfterJudgement, Judgement
  <2>2. World # 1 => Judgement(r)' = finite[r]
    BY <1>2 DEF Judgement, Follows, GoOn
  <2>3. QED
    BY <2>1, <2>2 DEF KeepsJudgement
<1>7. KeepsUpdates(r)
  BY <1>1, <1>2, UpdatesStand DEF GoOn
<1>8. QED
  BY <1>1, <1>3, <1>4, <1>5, <1>6, <1>7, GoingOnIsSafe

(* A rank that aborts is gone: what it leaves behind is its verdict.       *)
LEMMA AbortIsSafe ==
  ASSUME LockstepInv, NEW r \in Ranks, Abort(r)
  PROVE  LockstepInv'
<1>1. Moves(r)
  BY DEF Abort, Is, Moves, Collectives, LockstepInv, TypeInv
<1>2. /\ Here(r) = At(r) /\ At(r).op = "decide" /\ At(r).win = "check" /\ Present(r)
      /\ r \notin owed'
  BY <1>1, MovesFrom DEF Abort, Is, Instructions
<1>3. Len(program) \in Nat
  BY DEF LockstepInv, ProgramInv, Chain
<1>4. /\ pc'[r] = Len(program) + 1 /\ program' = program
      /\ verdict'[r] = "abort" /\ finite' = finite
  BY DEF Abort, LockstepInv, TypeInv
<1>5. ~Running(r)' /\ ~Present(r)'
  BY <1>2, <1>3, <1>4 DEF Running, Present, Position
<1>6. TypeInv'
  <2>1. pc' \in [Ranks -> Nat \ {0}]
    <3>1. pc \in [Ranks -> Nat \ {0}]
      BY DEF LockstepInv, TypeInv
    <3>2. Len(program) + 1 \in Nat \ {0}
      BY <1>3
    <3>3. QED
      BY <3>1, <3>2 DEF Abort
  <2>2. verdict' \in [Ranks -> {"undecided", "go on", "abort"}]
    BY DEF LockstepInv, TypeInv, Abort
  <2>3. QED
    BY <2>1, <2>2 DEF LockstepInv, TypeInv, Abort, commVars
<1>7. MeetInv'
  <2>1. \A q \in Ranks : verdict'[q] # "abort" =>
          Position(q)' = Position(q) /\ verdict[q] # "abort"
    BY <1>1, <1>4, OthersStay DEF Moves
  <2>2. QED
    BY <2>1, <1>4 DEF LockstepInv, MeetInv
<1>8. LossOf(r)' /\ VerdictOf(r)' /\ KeepsUpdates(r)
  <2>1. ~finite'[r]
    BY <1>4 DEF Abort
  <2>2. QED
    BY <1>4, <1>5, <2>1 DEF LossOf, VerdictOf, KeepsUpdates, Averaging
<1>9. KeepsJudgement(r)
  <2>1. Past(r) /\ Judgement(r) = finite[r]
    BY <1>2 DEF Past, Judged, AfterJudgement, Judgement
  <2>2. Judgement(r)' = finite[r]
    BY <1>4, <1>5 DEF Judgement
  <2>3. QED
    BY <2>1, <2>2 DEF KeepsJudgement
<1>10. QED
  BY <1>1, <1>6, <1>7, <1>8, <1>9, MovingIsSafe

-----------------------------------------------------------------------------
(* A rank that comes to a collective another has still to come to waits.   *)
LEMMA WaitingIsSafe ==
  ASSUME LockstepInv, NEW r \in Ranks, Enter(r), DOMAIN pending \cup {r} # Ranks
  PROVE  LockstepInv'
<1>1. /\ pending' = [q \in DOMAIN pending \cup {r} |->
                       IF q = r THEN [op |-> At(r).op, value |-> Brought(r)] ELSE pending[q]]
      /\ owed' = owed /\ result' = result
  BY DEF Enter
<1>2. /\ args' = args /\ program' = program /\ pc' = pc /\ params' = params
      /\ moments' = moments /\ grads' = grads /\ loss' = loss /\ finite' = finite
      /\ syncErr' = syncErr /\ verdict' = verdict
  BY DEF Enter
<1>3. TypeInv'
  BY <1>1, <1>2 DEF LockstepInv, TypeInv
<1>4. \A q \in Ranks : (Running(q)' <=> Running(q)) /\ At(q)' = At(q) /\ Brought(q)' = Brought(q)
  BY <1>2 DEF Running, At, Brought
<1>5. PendingInv'
  <2> SUFFICES ASSUME NEW q \in DOMAIN pending \cup {r}
               PROVE  /\ q \notin owed /\ Running(q)' /\ At(q)'.op \in Collectives
                      /\ pending'[q] = [op |-> At(q)'.op, value |-> Brought(q)']
    BY <1>1 DEF PendingInv
  <2>1. q \in Ranks
    BY DEF LockstepInv, TypeInv
  <2>2. CASE q = r
    BY <1>1, <1>4, <2>2 DEF Enter
  <2>3. CASE q # r
    BY <1>1, <1>4, <2>1, <2>3 DEF LockstepInv, PendingInv
  <2>4. QED
    BY <2>2, <2>3
<1>6. \A q \in Ranks :
        /\ Position(q)' = Position(q) /\ (Present(q)' <=> Present(q)) /\ Here(q)' = Here(q)
        /\ Gradients(q)' = Gradients(q)
  BY <1>1, <1>2 DEF Position, Present, Here, Gradients, At
<1>7. \A q \in Ranks :
        /\ (Averaging(q)' <=> Averaging(q)) /\ (Updating(q)' <=> Updating(q))
        /\ (Past(q)' <=> Past(q)) /\ (Judgement(q)' <=> Judgement(q))
  BY <1>2, <1>6 DEF Averaging, Synced, Updating, Past, Judged, Judgement
<1>8. \A q \in Ranks :
        Made(q)' = Made(q) /\ (Finite(q)' <=> Finite(q)) /\ Moments(q)' = Moments(q)
  BY <1>2, <1>6, <1>7 DEF Made, Finite, Moments
<1>9. ProgramInv' /\ OwedInv'
  BY <1>1, <1>2 DEF LockstepInv, ProgramInv, OwedInv, Running, At
<1>10. MeetInv'
  BY <1>2, <1>6 DEF LockstepInv, MeetInv
<1>11. VerdictInv'
  BY <1>2, <1>4, <1>6 DEF LockstepInv, VerdictInv, VerdictOf
<1>12. UpdatesInv'
  BY <1>7, <1>8 DEF LockstepInv, UpdatesInv
<1>13. LossInv'
  BY <1>2, <1>6, <1>8 DEF LockstepInv, LossInv, LossOf, Unjudged
<1>14. JudgementInv'
  BY <1>7 DEF LockstepInv, JudgementInv
<1>15. QED
  BY <1>3, <1>5, <1>9, <1>10, <1>11, <1>12, <1>13, <1>14 DEF LockstepInv

(* When the last comes, all are at the same collective.                    *)
LEMMA AllMeet ==
  ASSUME LockstepInv, NEW r \in Ranks, Enter(r), DOMAIN pending \cup {r} = Ranks
  PROVE  /\ owed = {}
         /\ \A q \in Ranks : /\ pc[q] = pc[r] /\ Running(q) /\ At(q) = At(r)
                             /\ verdict[q] # "abort"
         /\ At(r).op \in Collectives /\ At(r) \in Instructions /\ pc[r] \in Nat \ {0}
         /\ result' = [op    |-> At(r).op,
                       value |-> Combined(At(r).op, [q \in Ranks |-> Brought(q)])]
         /\ owed' = Ranks /\ pending' = << >>
<1>1. ASSUME NEW q \in Ranks
      PROVE  /\ q \notin owed /\ Running(q) /\ At(q).op \in Collectives
             /\ q # r => pending[q].value = Brought(q)
  <2>1. CASE q = r
    BY <2>1 DEF Enter
  <2>2. CASE q # r
    BY <2>2 DEF LockstepInv, PendingInv
  <2>3. QED
    BY <2>1, <2>2
<1>2. owed = {}
  BY <1>1 DEF LockstepInv, TypeInv
<1>3. \A q \in Ranks : verdict[q] # "abort" /\ Position(q) = pc[q] /\ pc[q] \in Nat \ {0}
  BY <1>1 DEF LockstepInv, VerdictInv, VerdictOf, Position, TypeInv
<1>4. Len(program) \in Nat
  BY DEF LockstepInv, ProgramInv, Chain
<1>5. ASSUME NEW a \in Ranks, NEW b \in Ranks
      PROVE  ~(pc[a] < pc[b])
  <2> SUFFICES ASSUME pc[a] < pc[b] PROVE FALSE
    OBVIOUS
  <2>1. pc[a] \in 1 .. Len(program) /\ program[pc[a]].op \in Collectives
    BY <1>1, <1>3, <1>4 DEF Running, At
  <2>2. MeetInv
    BY DEF LockstepInv
  <2>3. Position(a) <= pc[a] /\ pc[a] < Position(b)
    BY <1>3
  <2>4. QED
    BY <1>3, <2>1, <2>2, <2>3 DEF MeetInv
<1>6. \A q \in Ranks : pc[q] = pc[r] /\ At(q) = At(r)
  BY <1>3, <1>5 DEF At
<1>7. At(r) \in Instructions
  BY <1>1, <1>3, NextInstruction DEF LockstepInv, At, Running
<1> DEFINE here == [q \in DOMAIN pending \cup {r} |->
                      IF q = r THEN [op |-> At(r).op, value |-> Brought(r)] ELSE pending[q]]
           all  == [q \in DOMAIN here |-> here[q].value]
<1>8. /\ result' = [op |-> At(r).op, value |-> Combined(At(r).op, all)]
      /\ owed' = Ranks /\ pending' = << >>
  BY DEF Enter
<1>9. all = [q \in Ranks |-> Brought(q)]
  BY <1>1
<1>10. QED
  BY <1>1, <1>2, <1>3, <1>6, <1>7, <1>8, <1>9

(* What they take is of the type of what they brought.                     *)
LEMMA WhatIsTaken ==
  ASSUME LockstepInv, NEW r \in Ranks, Enter(r), DOMAIN pending \cup {r} = Ranks
  PROVE  /\ At(r).op \in {"reducer", "flat"} =>
              /\ result'.value \in [from : SUBSET Ranks, ok : BOOLEAN]
              /\ result'.value.ok <=> \A q \in Ranks : grads[q].ok
         /\ At(r).op = "broadcast" => \A q \in Ranks : result'.value = params[q]
         /\ At(r).op = "worst" => result'.value \in {"zero", "nan"}
         /\ At(r).op = "resync" => result'.value \in [made : Seq(SUBSET Ranks), ok : BOOLEAN]
<1> DEFINE all == [q \in Ranks |-> Brought(q)]
           op == At(r).op
<1>1. result'.value = Combined(op, all) /\ \A q \in Ranks : At(q) = At(r)
  BY AllMeet
<1>2. 0 \in Ranks
  BY WorldAssumption DEF Ranks
<1>3. CASE op \in {"reducer", "flat"}
  <2>1. \A q \in Ranks : all[q] = grads[q] /\ grads[q] \in [from : SUBSET Ranks, ok : BOOLEAN]
    BY <1>1, <1>3 DEF Brought, LockstepInv, TypeInv
  <2>2. Combined(op, all) = Average(all)
    BY <1>3 DEF Combined
  <2>3. UNION {all[q].from : q \in Ranks} \in SUBSET Ranks
    BY <2>1
  <2>4. (\A q \in Ranks : all[q].ok) <=> (\A q \in Ranks : grads[q].ok)
    BY <2>1
  <2> HIDE DEF all
  <2>5. /\ Average(all) = [from |-> UNION {all[q].from : q \in Ranks},
                           ok   |-> \A q \in Ranks : all[q].ok]
        /\ (\A q \in Ranks : all[q].ok) \in BOOLEAN
    BY DEF Average
  <2>6. QED
    BY <1>1, <1>3, <2>2, <2>3, <2>4, <2>5
<1>4. CASE op = "broadcast"
  <2>1. result'.value = params[0]
    BY <1>1, <1>2, <1>4 DEF Combined, Brought
  <2>2. ASSUME NEW q \in Ranks
        PROVE  /\ Averaging(q) /\ Made(q) = params[q].made
               /\ (Finite(q) <=> params[q].ok)
    <3>1. /\ Position(q) = pc[q] /\ Running(q) /\ At(q).op = "broadcast" /\ At(q).win = "check"
      BY <1>4, AllMeet DEF Position, Instructions
    <3>2. Present(q) /\ Here(q) = At(q)
      BY <3>1 DEF Present, Here, Running, At
    <3>3. QED
      BY <3>1, <3>2 DEF Averaging, Synced, Made, Finite, Updating
  <2>3. ASSUME NEW q \in Ranks
        PROVE  params[q].made = params[0].made /\ (params[q].ok <=> params[0].ok)
    BY <1>2, <2>2 DEF LockstepInv, UpdatesInv
  <2>4. \A q \in Ranks : params[q] \in [made : Seq(SUBSET Ranks), ok : BOOLEAN]
    BY DEF LockstepInv, TypeInv
  <2>5. \A q \in Ranks : params[q] = params[0]
    BY <1>2, <2>3, <2>4
  <2>6. QED
    BY <1>4, <2>1, <2>5
<1>5. CASE op = "worst"
  <2>1. \A q \in Ranks : all[q] = syncErr[q] /\ syncErr[q] \in {"zero", "nan"}
    BY <1>1, <1>5 DEF Brought, LockstepInv, TypeInv
  <2>2. QED
    BY <1>1, <1>5, <2>1 DEF Combined, Worst
<1>6. CASE op = "resync"
  <2>1. result'.value = params[0]
    BY <1>1, <1>2, <1>6 DEF Combined, Brought
  <2>2. QED
    BY <1>2, <1>6, <2>1 DEF LockstepInv, TypeInv
<1>7. QED
  BY <1>3, <1>4, <1>5, <1>6

(* And so all are past it, with the same in hand.                          *)
LEMMA MeetingIsSafe ==
  ASSUME LockstepInv, NEW r \in Ranks, Enter(r), DOMAIN pending \cup {r} = Ranks
  PROVE  LockstepInv'
<1> DEFINE a == At(r)
           b == program[pc[r] + 1]
<1>1. /\ args' = args /\ program' = program /\ pc' = pc /\ params' = params
      /\ moments' = moments /\ grads' = grads /\ loss' = loss /\ finite' = finite
      /\ syncErr' = syncErr /\ verdict' = verdict
  BY DEF Enter
<1>2. /\ owed = {} /\ owed' = Ranks /\ pending' = << >>
      /\ \A q \in Ranks : /\ pc[q] = pc[r] /\ Running(q) /\ At(q) = a
                          /\ verdict[q] # "abort"
      /\ a.op \in Collectives /\ a \in Instructions /\ pc[r] \in Nat \ {0}
  BY AllMeet
<1>3. pc[r] <= Len(program) /\ Len(program) \in Nat
  BY <1>2 DEF Running, LockstepInv, ProgramInv, Chain
<1>4. pc[r] + 1 <= Len(program) => b \in Instructions /\ Follows(a, b)
  BY <1>2, <1>3, NextInstruction DEF LockstepInv, At
<1>5. ASSUME NEW q \in Ranks
      PROVE  /\ Position(q) = pc[r] /\ Present(q) /\ Here(q) = a /\ Gradients(q) = grads[q]
             /\ Position(q)' = pc[r] + 1
             /\ (Present(q)' <=> pc[r] + 1 <= Len(program)) /\ Here(q)' = b
             /\ Running(q)' /\ At(q)' = a
             /\ Gradients(q)' = IF a.op \in {"reducer", "flat"} THEN result'.value ELSE grads[q]
  <2>1. Position(q) = pc[r] /\ Gradients(q) = grads[q] /\ Present(q) /\ Here(q) = a
    BY <1>2 DEF Position, Gradients, Present, Here, Running, At
  <2>2. Position(q)' = pc[r] + 1 /\ At(q)' = a /\ Running(q)'
    BY <1>1, <1>2 DEF Position, At, Running
  <2>3. (Present(q)' <=> pc[r] + 1 <= Len(program)) /\ Here(q)' = b
    BY <1>1, <2>2 DEF Present, Here
  <2>4. Gradients(q)' = IF a.op \in {"reducer", "flat"} THEN result'.value ELSE grads[q]
    BY <1>1, <1>2, <2>2 DEF Gradients
  <2>5. QED
    BY <2>1, <2>2, <2>3, <2>4
<1> HIDE DEF a, b
<1>6. ProgramInv' /\ TypeInv' /\ PendingInv' /\ MeetInv'
  <2>1. ProgramInv' /\ TypeInv' /\ PendingInv'
    <3>1. ProgramInv'
      BY <1>1 DEF LockstepInv, ProgramInv
    <3>2. DOMAIN pending' = {}
      BY <1>2
    <3>3. TypeInv'
      BY <1>1, <1>2, <3>2 DEF LockstepInv, TypeInv
    <3>4. QED
      BY <3>1, <3>2, <3>3 DEF PendingInv
  <2>2. \A q \in Ranks : Position(q)' = pc[r] + 1 /\ pc[r] + 1 \in Nat
    BY <1>2, <1>5
  <2>3. Len(program') \in Nat
    BY <1>1, <1>3
  <2>4. QED
    BY <2>1, <2>2, <2>3 DEF MeetInv
<1>7. OwedInv'
  BY <1>1, <1>2, <1>5, WhatIsTaken DEF OwedInv, a
<1>8. VerdictInv'
  <2> SUFFICES ASSUME NEW q \in Ranks PROVE VerdictOf(q)'
    BY DEF VerdictInv
  <2>1. verdict[q] = "go on" => finite[q] /\ a.win \in AfterJudgement
    BY <1>5 DEF LockstepInv, VerdictInv, VerdictOf
  <2>2. Present(q)' /\ a.win \in AfterJudgement => b.win \in AfterJudgement
    BY <1>2, <1>4, <1>5 DEF Follows, Unjudged, Instructions, BeforeJudgement, AfterJudgement
  <2>3. QED
    BY <1>1, <1>2, <1>5, <2>1, <2>2 DEF VerdictOf
<1>9. UpdatesInv'
  <2> SUFFICES ASSUME NEW q \in Ranks, NEW p \in Ranks, Averaging(q)', Averaging(p)'
               PROVE  /\ Made(q)' = Made(p)' /\ (Finite(q)' <=> Finite(p)')
                      /\ Moments(q)' = Moments(p)'
    BY DEF UpdatesInv
  <2>1. pc[r] + 1 <= Len(program) /\ Synced(b) /\ Synced(a)
    BY <1>4, <1>5 DEF Averaging, Synced, Follows
  <2>2. \A t \in {p, q} : /\ Averaging(t) /\ ~Updating(t)
                          /\ (Updating(t)' <=> b.op = "optimizer")
    BY <1>2, <1>5, <2>1 DEF Averaging, Updating, Collectives
  <2>3. /\ params[q].made = params[p].made /\ (params[q].ok <=> params[p].ok)
        /\ moments[q] = moments[p]
    BY <2>2 DEF LockstepInv, UpdatesInv, Made, Finite, Moments
  <2>4. CASE World = 1
    BY <2>4, Alone
  <2>5. CASE World # 1 /\ b.op = "optimizer"
    <3>1. Gradients(q)' = result'.value /\ Gradients(p)' = result'.value
      BY <1>4, <1>5, <2>1, <2>5 DEF Follows
    <3>2. Made(q)' = Made(p)' /\ Moments(q)' = Moments(p)'
      BY <1>1, <2>2, <2>3, <2>5, <3>1 DEF Made, Moments
    <3>3. Finite(q)' <=> Finite(p)'
      BY <1>1, <2>2, <2>3, <2>5, <3>1 DEF Finite
    <3>4. QED
      BY <3>2, <3>3
  <2>6. CASE b.op # "optimizer"
    BY <1>1, <2>2, <2>3, <2>6 DEF Made, Finite, Moments
  <2>7. QED
    BY <2>4, <2>5, <2>6
<1>10. LossInv'
  <2> SUFFICES ASSUME NEW q \in Ranks, Present(q)', Unjudged(b), ~loss[q]
               PROVE  /\ b.op \in {"reducer", "flat", "inspect", "optimizer"}
                      /\ ~Gradients(q)'.ok
                      /\ b.op = "optimizer" => ~Finite(q)'
    BY <1>1, <1>5 DEF LossInv, LossOf, Unjudged
  <2>1. Unjudged(a) /\ a.op \in {"reducer", "flat"}
    BY <1>2, <1>4, <1>5 DEF Follows, Collectives, Instructions, Unjudged, BeforeJudgement
  <2>2. b.op \in {"reducer", "flat", "inspect", "optimizer"}
    BY <1>4, <1>5, <2>1 DEF Follows
  <2>3. ~grads[q].ok
    BY <1>5, <2>1 DEF LockstepInv, LossInv, LossOf
  <2>4. ~Gradients(q)'.ok
    BY <1>5, <2>1, <2>3, WhatIsTaken DEF a
  <2>5. QED
    BY <1>5, <2>2, <2>4 DEF Finite, Updating
<1>11. JudgementInv'
  <2> SUFFICES ASSUME NEW q \in Ranks, NEW p \in Ranks, Past(q)', Past(p)'
               PROVE  Judgement(q)' <=> Judgement(p)'
    BY DEF JudgementInv
  <2>1. CASE World = 1
    BY <2>1, Alone
  <2>2. CASE World # 1 /\ pc[r] + 1 <= Len(program) /\ b.op = "inspect"
    <3>1. Gradients(q)' = result'.value /\ Gradients(p)' = result'.value
      BY <1>4, <1>5, <2>2 DEF Follows
    <3>2. QED
      BY <1>5, <2>2, <3>1 DEF Judgement
  <2>3. CASE ~(pc[r] + 1 <= Len(program) /\ b.op = "inspect")
    <3>1. ASSUME NEW t \in {p, q}
          PROVE  Past(t) /\ (Judgement(t)' <=> Judgement(t))
      <4>1. (Judgement(t)' <=> finite[t]) /\ (Judgement(t) <=> finite[t])
        BY <1>1, <1>2, <1>5, <2>3 DEF Judgement, Collectives
      <4>2. Past(t)' => verdict[t] # "undecided" \/ Judged(a)
        BY <1>1, <1>4, <1>5, <2>3 DEF Past, Judged, Follows
      <4>3. QED
        BY <1>5, <4>1, <4>2 DEF Past
    <3>2. QED
      BY <3>1 DEF LockstepInv, JudgementInv
  <2>4. QED
    BY <2>1, <2>2, <2>3
<1>12. QED
  BY <1>6, <1>7, <1>8, <1>9, <1>10, <1>11 DEF LockstepInv

(* A rank leaves a collective with what was its own already.               *)
Leaves(r) ==
  /\ r \in owed
  /\ owed' = owed \ {r}
  /\ Advance(r)
  /\ UNCHANGED <<args, program, moments, loss, finite, verdict, pending, result>>
  /\ \A q \in Ranks \ {r} :
       params'[q] = params[q] /\ grads'[q] = grads[q] /\ syncErr'[q] = syncErr[q]
  /\ grads'[r] = Gradients(r)
  /\ params'[r] = params[r] \/ At(r).op = "resync"

(* ... and that disturbs nobody.                                           *)
LEMMA LeavingIsSafe ==
  ASSUME LockstepInv, NEW r \in Ranks, Leaves(r), TypeInv'
  PROVE  LockstepInv'
<1>1. /\ program' = program /\ moments' = moments /\ loss' = loss /\ finite' = finite
      /\ verdict' = verdict /\ pending' = pending /\ result' = result /\ owed' = owed \ {r}
      /\ pc'[r] = pc[r] + 1
      /\ \A q \in Ranks \ {r} : pc'[q] = pc[q] /\ params'[q] = params[q] /\ grads'[q] = grads[q]
                                /\ syncErr'[q] = syncErr[q]
  BY DEF Leaves, Advance, LockstepInv, TypeInv
<1>2. r \in owed /\ Running(r) /\ At(r).op \in Collectives /\ pc[r] \in Nat \ {0}
  BY DEF Leaves, LockstepInv, OwedInv, TypeInv
<1>3. At(r) \in Instructions /\ (Present(r) => Here(r) \in Instructions /\ Follows(At(r), Here(r)))
  BY <1>2, NextInstruction DEF LockstepInv, At, Here, Present, Position, Running
<1>4. ASSUME NEW q \in Ranks, q # r
      PROVE  /\ (Running(q)' <=> Running(q)) /\ At(q)' = At(q) /\ Brought(q)' = Brought(q)
             /\ q \in owed' <=> q \in owed
  BY <1>1, <1>4 DEF Running, At, Brought
<1>5. ASSUME NEW q \in Ranks
      PROVE  /\ Position(q)' = Position(q) /\ (Present(q)' <=> Present(q)) /\ Here(q)' = Here(q)
             /\ Gradients(q)' = Gradients(q)
  <2>1. Position(q)' = Position(q)
    BY <1>1, <1>2, <1>4 DEF Position
  <2>2. (Present(q)' <=> Present(q)) /\ Here(q)' = Here(q)
    BY <1>1, <2>1 DEF Present, Here
  <2>3. Gradients(q)' = Gradients(q)
    <3>1. CASE q = r
      BY <1>1, <3>1 DEF Leaves, Gradients
    <3>2. CASE q # r
      BY <1>1, <1>4, <3>2 DEF Gradients
    <3>3. QED
      BY <3>1, <3>2
  <2>4. QED
    BY <2>1, <2>2, <2>3
<1>6. ASSUME NEW q \in Ranks, params'[q] # params[q]
      PROVE  Present(q) => ~Synced(Here(q)) /\ ~Unjudged(Here(q))
  <2>1. q = r /\ At(r).op = "resync"
    BY <1>1, <1>6 DEF Leaves
  <2>2. QED
    BY <1>3, <2>1 DEF Instructions, Follows, Synced, Unjudged, BeforeJudgement
<1>7. ASSUME NEW q \in Ranks
      PROVE  /\ (Averaging(q)' <=> Averaging(q)) /\ (Updating(q)' <=> Updating(q))
             /\ (Past(q)' <=> Past(q)) /\ (Judgement(q)' <=> Judgement(q))
  BY <1>1, <1>5 DEF Averaging, Synced, Updating, Past, Judged, Judgement
<1>8. ASSUME NEW q \in Ranks, params'[q] = params[q]
      PROVE  Made(q)' = Made(q) /\ (Finite(q)' <=> Finite(q)) /\ Moments(q)' = Moments(q)
  BY <1>1, <1>5, <1>7, <1>8 DEF Made, Finite, Moments
<1>9. ProgramInv'
  BY <1>1 DEF LockstepInv, ProgramInv
<1>10. PendingInv'
  <2>1. \A q \in DOMAIN pending : q \in Ranks /\ q # r
    BY <1>2 DEF LockstepInv, TypeInv, PendingInv
  <2>2. QED
    BY <1>1, <1>4, <2>1 DEF LockstepInv, PendingInv
<1>11. OwedInv'
  <2>1. \A q \in owed' : q \in owed /\ q \in Ranks /\ q # r
    BY <1>1 DEF LockstepInv, TypeInv
  <2>2. QED
    BY <1>1, <1>4, <2>1 DEF LockstepInv, OwedInv
<1>12. MeetInv'
  BY <1>1, <1>5 DEF LockstepInv, MeetInv
<1>13. VerdictInv'
  <2>1. verdict[r] # "abort"
    BY <1>2 DEF LockstepInv, VerdictInv, VerdictOf
  <2>2. QED
    BY <1>1, <1>4, <1>5, <2>1 DEF LockstepInv, VerdictInv, VerdictOf
<1>14. UpdatesInv'
  <2>1. \A q \in Ranks : Averaging(q)' =>
          /\ Averaging(q) /\ Made(q)' = Made(q) /\ (Finite(q)' <=> Finite(q))
          /\ Moments(q)' = Moments(q)
    BY <1>6, <1>7, <1>8 DEF Averaging
  <2>2. QED
    BY <2>1 DEF LockstepInv, UpdatesInv
<1>15. LossInv'
  <2> SUFFICES ASSUME NEW q \in Ranks, Present(q), Unjudged(Here(q)), ~loss[q]
               PROVE  LossOf(q)'
    BY <1>1, <1>5 DEF LossInv, LossOf, Unjudged
  <2>1. params'[q] = params[q]
    BY <1>6
  <2>2. grads'[q] = grads[q] \/ ~(Here(q).op = "backward" /\ Here(q).win # "probe")
    BY <1>1, <1>2, <1>3 DEF Follows, Collectives
  <2>3. QED
    BY <1>1, <1>5, <1>8, <2>1, <2>2 DEF LockstepInv, LossInv, LossOf, Unjudged
<1>16. JudgementInv'
  BY <1>7 DEF LockstepInv, JudgementInv
<1>17. QED
  BY <1>9, <1>10, <1>11, <1>12, <1>13, <1>14, <1>15, <1>16 DEF LockstepInv

(* The average of the gradients.                                           *)
LEMMA TakeAverageIsSafe ==
  ASSUME LockstepInv, NEW r \in Ranks, TakeAverage(r)
  PROVE  LockstepInv'
<1>1. r \in owed /\ At(r).op \in {"reducer", "flat"}
      /\ result.value \in [from : SUBSET Ranks, ok : BOOLEAN]
  BY DEF TakeAverage, Leaving, LockstepInv, OwedInv
<1>2. Leaves(r)
  BY <1>1 DEF TakeAverage, Leaving, Leaves, Gradients, LockstepInv, TypeInv
<1>3. TypeInv'
  <2>1. pc' \in [Ranks -> Nat \ {0}]
    BY AdvanceKeepsType DEF TakeAverage, Leaving
  <2>2. grads' \in [Ranks -> [from : SUBSET Ranks, ok : BOOLEAN]]
    BY <1>1 DEF LockstepInv, TypeInv, TakeAverage
  <2>3. QED
    BY <2>1, <2>2 DEF LockstepInv, TypeInv, TakeAverage, Leaving
<1>4. QED
  BY <1>2, <1>3, LeavingIsSafe

(* The difference to rank 0, which is none.                                *)
LEMMA CompareWithRank0IsSafe ==
  ASSUME LockstepInv, NEW r \in Ranks, CompareWithRank0(r)
  PROVE  LockstepInv'
<1>1. r \in owed /\ At(r).op = "broadcast" /\ result.value = params[r]
  BY DEF CompareWithRank0, Leaving, LockstepInv, OwedInv
<1>2. Leaves(r)
  BY <1>1 DEF CompareWithRank0, Leaving, Leaves, Gradients, LockstepInv, TypeInv
<1>3. TypeInv'
  <2>1. pc' \in [Ranks -> Nat \ {0}]
    BY AdvanceKeepsType DEF CompareWithRank0, Leaving
  <2>2. syncErr' \in [Ranks -> {"zero", "nan"}]
    BY <1>1 DEF LockstepInv, TypeInv, CompareWithRank0, Difference
  <2>3. QED
    BY <2>1, <2>2 DEF LockstepInv, TypeInv, CompareWithRank0, Leaving
<1>4. QED
  BY <1>2, <1>3, LeavingIsSafe

(* The worst of no differences.                                            *)
LEMMA TakeWorstIsSafe ==
  ASSUME LockstepInv, NEW r \in Ranks, TakeWorst(r)
  PROVE  LockstepInv'
<1>1. r \in owed /\ At(r).op = "worst" /\ result.value \in {"zero", "nan"}
  BY DEF TakeWorst, Leaving, LockstepInv, OwedInv
<1>2. Leaves(r)
  BY <1>1 DEF TakeWorst, Leaving, Leaves, Gradients, LockstepInv, TypeInv
<1>3. TypeInv'
  <2>1. pc' \in [Ranks -> Nat \ {0}]
    BY AdvanceKeepsType DEF TakeWorst, Leaving
  <2>2. syncErr' \in [Ranks -> {"zero", "nan"}]
    BY <1>1 DEF LockstepInv, TypeInv, TakeWorst
  <2>3. QED
    BY <2>1, <2>2 DEF LockstepInv, TypeInv, TakeWorst, Leaving
<1>4. QED
  BY <1>2, <1>3, LeavingIsSafe

(* The parameters of rank 0, after the probe without synchronisation.      *)
LEMMA ResyncParamsIsSafe ==
  ASSUME LockstepInv, NEW r \in Ranks, ResyncParams(r)
  PROVE  LockstepInv'
<1>1. r \in owed /\ At(r).op = "resync"
      /\ result.value \in [made : Seq(SUBSET Ranks), ok : BOOLEAN]
  BY DEF ResyncParams, Leaving, LockstepInv, OwedInv
<1>2. Leaves(r)
  BY <1>1 DEF ResyncParams, Leaving, Leaves, Gradients, LockstepInv, TypeInv
<1>3. TypeInv'
  <2>1. pc' \in [Ranks -> Nat \ {0}]
    BY AdvanceKeepsType DEF ResyncParams, Leaving
  <2>2. params' \in [Ranks -> [made : Seq(SUBSET Ranks), ok : BOOLEAN]]
    BY <1>1 DEF LockstepInv, TypeInv, ResyncParams
  <2>3. QED
    BY <2>1, <2>2 DEF LockstepInv, TypeInv, ResyncParams, Leaving
<1>4. QED
  BY <1>2, <1>3, LeavingIsSafe

(* The slowest rank's time.                                                *)
LEMMA ReportTimesIsSafe ==
  ASSUME LockstepInv, NEW r \in Ranks, ReportTimes(r)
  PROVE  LockstepInv'
<1>1. r \in owed /\ At(r).op = "slowest"
  BY DEF ReportTimes, Leaving
<1>2. Leaves(r)
  BY <1>1 DEF ReportTimes, Leaving, Leaves, Gradients
<1>3. TypeInv'
  <2>1. pc' \in [Ranks -> Nat \ {0}]
    BY AdvanceKeepsType DEF ReportTimes, Leaving
  <2>2. QED
    BY <2>1 DEF LockstepInv, TypeInv, ReportTimes, Leaving
<1>4. QED
  BY <1>2, <1>3, LeavingIsSafe

-----------------------------------------------------------------------------
(* Nothing the ranks do breaks the invariant.                              *)
LEMMA RankStepIsSafe ==
  ASSUME LockstepInv, NEW r \in Ranks, RankStep(r)
  PROVE  LockstepInv'
BY BeginWindowIsSafe, ForwardIsSafe, BackwardIsSafe, OptimizerIsSafe, InspectIsSafe, GoOnIsSafe,
   AbortIsSafe, WaitingIsSafe, MeetingIsSafe, TakeAverageIsSafe, CompareWithRank0IsSafe,
   TakeWorstIsSafe, ResyncParamsIsSafe, ReportTimesIsSafe
   DEF RankStep

(* Nor does a step of nobody.                                              *)
LEMMA StutterIsSafe == LockstepInv /\ UNCHANGED vars => LockstepInv'
<1> SUFFICES ASSUME LockstepInv, UNCHANGED vars PROVE LockstepInv'
  OBVIOUS
<1>1. /\ args' = args /\ program' = program /\ pc' = pc /\ params' = params
      /\ moments' = moments /\ grads' = grads /\ loss' = loss /\ finite' = finite
      /\ syncErr' = syncErr /\ verdict' = verdict /\ pending' = pending /\ owed' = owed
      /\ result' = result
  BY DEF vars, commVars
<1>2. ProgramInv' /\ TypeInv'
  BY <1>1 DEF LockstepInv, ProgramInv, TypeInv
<1>3. PendingInv' /\ OwedInv' /\ MeetInv'
  BY <1>1 DEF LockstepInv, PendingInv, OwedInv, MeetInv, Running, At, Brought, Position
<1>4. VerdictInv' /\ LossInv'
  BY <1>1 DEF LockstepInv, VerdictInv, VerdictOf, LossInv, LossOf, Finite, Unjudged, Running,
              At, Updating, Present, Here, Position, Gradients
<1>5. UpdatesInv'
  BY <1>1 DEF LockstepInv, UpdatesInv, Averaging, Synced, Made, Finite, Moments, At, Updating,
              Present, Here, Position, Gradients
<1>6. JudgementInv'
  BY <1>1 DEF LockstepInv, JudgementInv, Past, Judged, Judgement, At, Present, Here, Position,
              Gradients
<1>7. QED
  BY <1>2, <1>3, <1>4, <1>5, <1>6 DEF LockstepInv

(* The ranks stay in lockstep: a rank past a collective has left nobody    *)
(* behind it, and where gradients are averaged all have the same updates.  *)
THEOREM Lockstep == Spec => []LockstepInv
<1>1. LockstepInv /\ [Next]_vars => LockstepInv'
  BY RankStepIsSafe, StutterIsSafe DEF Next
<1>2. QED
  BY <1>1, InitLockstep, PTL DEF Spec, Safety

(* check_param_sync never finds a rank whose finite parameters are not     *)
(* those of rank 0, whatever the number of ranks.                          *)
THEOREM NoDrift == Spec => []ParametersNeverDrift
<1>1. LockstepInv => ParametersNeverDrift
  BY DEF LockstepInv, TypeInv, ParametersNeverDrift
<1>2. QED
  BY <1>1, Lockstep, PTL

(* The measured steps of train_ddp.py start from equal parameters and      *)
(* equal optimizer state on all ranks, --nosync-probe or not.              *)
THEOREM EqualStarts == Spec => []MeasuredStepsStartEqual
<1>1. LockstepInv => MeasuredStepsStartEqual
  <2> SUFFICES ASSUME LockstepInv, NEW r \in Ranks, NEW q \in Ranks,
                      Is(r, "forward"), At(r).win = "measured", pc[q] = pc[r]
               PROVE  params[r] = params[q] /\ moments[r] = moments[q]
    BY DEF MeasuredStepsStartEqual
  <2>1. ASSUME NEW t \in {r, q}
        PROVE  /\ Averaging(t) /\ Made(t) = params[t].made /\ (Finite(t) <=> params[t].ok)
               /\ Moments(t) = moments[t]
    <3>1. Running(t) /\ At(t).op = "forward" /\ At(t).win = "measured"
      BY DEF Is, Running, At
    <3>2. t \notin owed
      BY <3>1 DEF LockstepInv, OwedInv, Collectives
    <3>3. Present(t) /\ Here(t) = At(t)
      BY <3>1, <3>2 DEF Present, Here, Position, Running, At
    <3>4. QED
      BY <3>1, <3>3 DEF Averaging, Synced, Made, Finite, Moments, Updating
  <2>2. /\ params[r].made = params[q].made /\ (params[r].ok <=> params[q].ok)
        /\ moments[r] = moments[q]
    BY <2>1 DEF LockstepInv, UpdatesInv
  <2>3. params \in [Ranks -> [made : Seq(SUBSET Ranks), ok : BOOLEAN]]
    BY DEF LockstepInv, TypeInv
  <2>4. QED
    BY <2>2, <2>3
<1>2. QED
  BY <1>1, Lockstep, PTL

(* A rank is somewhere.                                                    *)
LEMMA SomePosition ==
  ASSUME LockstepInv, NEW q \in Ranks
  PROVE  Position(q) \in Nat \ {0}
<1>1. pc[q] \in Nat \ {0}
  BY DEF LockstepInv, TypeInv
<1>2. pc[q] + 1 \in Nat \ {0}
  BY <1>1
<1>3. QED
  BY <1>1, <1>2 DEF Position

(* No rank leaves the group after the correctness check of train_ddp.py    *)
(* while another goes on to the measurements.                              *)
THEOREM UnanimousAbort == Spec => []AbortIsUnanimous
<1>1. LockstepInv => AbortIsUnanimous
  <2> SUFFICES ASSUME LockstepInv, NEW r \in Ranks, NEW q \in Ranks,
                      verdict[r] = "abort", verdict[q] = "go on"
               PROVE  FALSE
    BY DEF AbortIsUnanimous
  <2>1. Past(r) /\ Past(q)
    BY DEF Past
  <2>2. ~finite[r] /\ ~Running(r) /\ finite[q] /\ (Present(q) => Here(q).win \in AfterJudgement)
    BY DEF LockstepInv, VerdictInv, VerdictOf
  <2>3. r \notin owed /\ ~Present(r)
    BY <2>2 DEF LockstepInv, OwedInv, Present, Position, Running
  <2>4. ~Judgement(r)
    BY <2>2, <2>3 DEF Judgement
  <2>5. Judgement(q)
    <3>1. Present(q) => Here(q).op # "inspect"
      <4>1. Position(q) \in Nat \ {0}
        BY SomePosition
      <4>2. Present(q) => Here(q) \in Instructions
        BY <4>1, NextInstruction DEF LockstepInv, Present, Here
      <4>3. QED
        BY <2>2, <4>2 DEF Instructions, AfterJudgement
    <3>2. QED
      BY <2>2, <3>1 DEF Judgement
  <2>6. QED
    BY <2>1, <2>4, <2>5 DEF LockstepInv, JudgementInv
<1>2. QED
  BY <1>1, Lockstep, PTL
=============================================================================
