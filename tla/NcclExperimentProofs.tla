------------------------ MODULE NcclExperimentProofs ------------------------
(***************************************************************************)
(* Proofs about NcclExperiment, for any list of collectives, any set of    *)
(* configurations, any number of invocations on the directory, wherever    *)
(* they are terminated, and of commits in between.                         *)
(*                                                                         *)
(* A collective may be named twice in -c: nothing refuses it, and the      *)
(* second run then writes over the output of the first.  What depends on   *)
(* that is proved of lists that name none twice (Distinct), the default    *)
(* among them; what depends on the full tier not being empty, of           *)
(* FULL_REPEATS other than 0.                                              *)
(***************************************************************************)
EXTENDS NcclExperiment, SequenceTheorems, TLAPS

Distinct ==
  \A i, j \in 1 .. Len(Collectives) : Collectives[i] = Collectives[j] => i = j

-----------------------------------------------------------------------------
Names   == ToSet(Labels)
Ids     == [coll : STRING, label : Names, tier : Tiers, rep : Nat]
Outs    == [points : {"none", "right", "wrong"}, trailer : {"absent", "OK", "FAILED"}]
Entries == [id : Ids, exit : {"zero", "nonzero"}, gate : BOOLEAN]
Progress ==
  [phase : {"env", "smoke", "full", "manifest"}, label : Names,
   tier : {"smoke", "full", "both"}, open : BOOLEAN, todo : Seq(Ids), failed : Nat,
   entries : SUBSET Entries]

TypeInv ==
  /\ head \in Nat /\ there \in BOOLEAN
  /\ DOMAIN files \subseteq Ids
  /\ \A id \in DOMAIN files : files[id] \in [out : Outs, at : Nat]
  /\ DOMAIN manifests \subseteq Names
  /\ \A l \in DOMAIN manifests : manifests[l] \in [commit : Nat, runs : SUBSET Entries]
  /\ inv = Idle \/ inv \in Progress

Of(label) == {id \in DOMAIN files : id.label = label}
Recorded(id, entries) == \E e \in entries : e.id = id

(* An invocation writes outputs of its own configuration only, which had   *)
(* none when it began, and records them.                                   *)
TodoInv ==
  /\ inv.phase \in {"env", "manifest"} => inv.todo = << >>
  /\ \A k \in 1 .. Len(inv.todo) :
       inv.todo[k].label = inv.label /\ inv.todo[k].tier = inv.phase
  /\ inv.open => inv.todo # << >> /\ Head(inv.todo) \in DOMAIN files
EntriesInv ==
  /\ inv.phase = "env" => Of(inv.label) = {} /\ inv.entries = {}
  /\ inv.phase = "smoke" => \A id \in Of(inv.label) : id.tier = "smoke"
  /\ \A e \in inv.entries : e.id \in Of(inv.label)
  /\ \A id \in Of(inv.label) :
       Recorded(id, inv.entries) \/ (inv.open /\ id = Head(inv.todo))
OwnInv ==
  /\ InProgress \/ DOMAIN files # {} => there
  /\ InProgress => TodoInv /\ EntriesInv

(* What a manifest lists is there, and is not written any more.            *)
ManifestInv ==
  \A l \in DOMAIN manifests : \A e \in manifests[l].runs :
    e.id \in Of(l) /\ (InProgress => inv.label # l)

(* The smoke runs of an invocation: those not to be done any more have     *)
(* passed, unless a failure has been counted.                              *)
SmokePassed(run) == run \in DOMAIN files /\ files[run].out = Passed
SmokeInv ==
  InProgress /\ inv.tier = "both" =>
    /\ inv.phase = "smoke" /\ inv.failed = 0 =>
         \A run \in ToSet(SmokeRuns(inv.label)) : run \in ToSet(inv.todo) \/ SmokePassed(run)
    /\ inv.phase = "full" => \A run \in ToSet(SmokeRuns(inv.label)) : SmokePassed(run)

(* No run of an invocation is done twice.                                  *)
FreshInv ==
  InProgress =>
    /\ \A j, k \in 1 .. Len(inv.todo) : inv.todo[j] = inv.todo[k] => j = k
    /\ \A k \in 1 .. Len(inv.todo) : inv.todo[k] \in DOMAIN files => k = 1 /\ inv.open
    /\ \A e \in inv.entries : \A k \in 1 .. Len(inv.todo) : inv.todo[k] # e.id

(* What the gate has passed, the parser calls correct as it is now.  (The  *)
(* converse is false: a run whose trailer is lost fails the gate and has   *)
(* correct rows.)                                                          *)
Agreed(run) == run.gate => CorrectnessOk(run)
AgreeInv ==
  /\ InProgress => \A e \in inv.entries : Agreed(e)
  /\ \A l \in DOMAIN manifests : \A e \in manifests[l].runs : Agreed(e)

(* A manifest lists all there is of its configuration, and something.      *)
ListedInv ==
  /\ InProgress =>
       /\ inv.phase \in Tiers => inv.todo # << >> \/ inv.entries # {}
       /\ inv.phase = "manifest" => inv.entries # {}
  /\ \A l \in DOMAIN manifests :
       /\ manifests[l].runs # {}
       /\ \A id \in Of(l) : Recorded(id, manifests[l].runs)

-----------------------------------------------------------------------------
(* The types of what collectives leave behind.                             *)
LEMMA OutsTyped ==
  /\ Empty \in Outs /\ CutOff \subseteq Outs
  /\ Endings \subseteq [exit : {"zero", "nonzero"}, out : Outs]
  BY DEF Empty, Passed, CutOff, Endings, Outs

(* Quotient and remainder, of which the number is made.                    *)
LEMMA PlaceInRepeat ==
  ASSUME NEW L \in Nat \ {0}, NEW k \in Nat
  PROVE  k % L \in 0 .. L - 1 /\ k \div L \in Nat /\ k = L * (k \div L) + (k % L)
  OBVIOUS

(* The runs of the two tiers, one per index.                               *)
LEMMA SmokeRunsTyped ==
  ASSUME NEW label \in Names
  PROVE  /\ SmokeRuns(label) \in Seq(Ids) /\ SmokeRuns(label) # << >>
         /\ \A k \in 1 .. Len(SmokeRuns(label)) :
              SmokeRuns(label)[k].label = label /\ SmokeRuns(label)[k].tier = "smoke"
         /\ Distinct => \A j, k \in 1 .. Len(SmokeRuns(label)) :
              SmokeRuns(label)[j] = SmokeRuns(label)[k] => j = k
<1>1. Collectives \in Seq(STRING) /\ Len(Collectives) \in Nat \ {0}
  BY LabelAssumption
<1>2. \A i \in 1 .. Len(Collectives) :
        [coll |-> Collectives[i], label |-> label, tier |-> "smoke", rep |-> 0] \in Ids
  BY <1>1 DEF Ids, Tiers
<1>3. /\ SmokeRuns(label) \in Seq(Ids) /\ Len(SmokeRuns(label)) = Len(Collectives)
      /\ \A i \in 1 .. Len(Collectives) :
           SmokeRuns(label)[i] =
             [coll |-> Collectives[i], label |-> label, tier |-> "smoke", rep |-> 0]
  BY <1>1, <1>2 DEF SmokeRuns
<1>4. SmokeRuns(label) # << >>
  BY <1>1, <1>3
<1>5. ASSUME NEW k \in 1 .. Len(Collectives)
      PROVE  /\ SmokeRuns(label)[k].label = label /\ SmokeRuns(label)[k].tier = "smoke"
             /\ SmokeRuns(label)[k].coll = Collectives[k]
  <2>1. SmokeRuns(label)[k] =
          [coll |-> Collectives[k], label |-> label, tier |-> "smoke", rep |-> 0]
    BY <1>3
  <2>2. QED
    BY <2>1
<1>6. QED
  BY <1>3, <1>4, <1>5 DEF Distinct

(* The full tier of a configuration: runs of its own, at least one if there *)
(* are repeats, and none twice.                                            *)
LEMMA FullRunsTyped ==
  ASSUME NEW label \in Names
  PROVE  /\ FullRuns(label) \in Seq(Ids)
         /\ FullRepeats # 0 => FullRuns(label) # << >>
         /\ \A k \in 1 .. Len(FullRuns(label)) :
              FullRuns(label)[k].label = label /\ FullRuns(label)[k].tier = "full"
         /\ Distinct => \A j, k \in 1 .. Len(FullRuns(label)) :
              FullRuns(label)[j] = FullRuns(label)[k] => j = k
<1> DEFINE L == Len(Collectives)
           n == FullRepeats * L
           run(i) == [coll |-> Collectives[((i - 1) % L) + 1], label |-> label,
                      tier |-> "full", rep |-> (i - 1) \div L]
<1>1. Collectives \in Seq(STRING) /\ L \in Nat \ {0} /\ FullRepeats \in Nat
  BY LabelAssumption
<1>2. n \in Nat /\ (FullRepeats # 0 => n # 0)
  BY <1>1
<1>3. FullRuns(label) = [i \in 1 .. n |-> run(i)]
  BY DEF FullRuns
<1>4. ASSUME NEW i \in 1 .. n
      PROVE  /\ ((i - 1) % L) + 1 \in 1 .. L /\ (i - 1) \div L \in Nat
             /\ i = L * ((i - 1) \div L) + ((i - 1) % L) + 1
  <2> DEFINE k == i - 1
  <2>1. k \in Nat /\ i = k + 1
    BY <1>2
  <2>2. k % L \in 0 .. L - 1 /\ k \div L \in Nat /\ k = L * (k \div L) + (k % L)
    BY <1>1, <2>1, PlaceInRepeat
  <2> DEFINE m == k % L
             d == k \div L
             p == L * d
  <2>3. p \in Nat
    BY <1>1, <2>2
  <2>4. m \in 0 .. L - 1 /\ d \in Nat /\ k = p + m
    BY <2>2
  <2> HIDE DEF L, k, m, d, p
  <2>5. m + 1 \in 1 .. L /\ i = p + m + 1
    BY <1>1, <2>1, <2>3, <2>4
  <2>6. QED
    BY <2>4, <2>5 DEF m, d, p, k
<1> HIDE DEF L, n
<1>5. ASSUME NEW i \in 1 .. n PROVE run(i) \in Ids
  <2>1. Collectives[((i - 1) % L) + 1] \in STRING
    BY <1>1, <1>4 DEF L
  <2>2. (i - 1) \div L \in Nat
    BY <1>4
  <2>3. QED
    BY <2>1, <2>2 DEF Ids, Tiers
<1>6. /\ FullRuns(label) \in Seq(Ids) /\ Len(FullRuns(label)) = n
      /\ \A i \in 1 .. n : FullRuns(label)[i] = run(i)
  BY <1>2, <1>3, <1>5
<1>7. ASSUME Distinct, NEW j \in 1 .. n, NEW k \in 1 .. n, run(j) = run(k)
      PROVE  j = k
  <2>1. Collectives[((j - 1) % L) + 1] = Collectives[((k - 1) % L) + 1]
        /\ (j - 1) \div L = (k - 1) \div L
    BY <1>7
  <2>2. ((j - 1) % L) + 1 = ((k - 1) % L) + 1
    BY <1>4, <1>7, <2>1 DEF Distinct, L
  <2> DEFINE q(i) == (i - 1) \div L
             m(i) == ((i - 1) % L) + 1
  <2>3. j = L * q(j) + m(j) /\ k = L * q(k) + m(k)
    <3>1. \A i \in 1 .. n : i = L * q(i) + m(i)
      <4> SUFFICES ASSUME NEW i \in 1 .. n PROVE i = L * q(i) + m(i)
        OBVIOUS
      <4>1. i = L * ((i - 1) \div L) + ((i - 1) % L) + 1
        BY <1>4
      <4> DEFINE p == L * ((i - 1) \div L)
                 r == (i - 1) % L
      <4>2. i = p + r + 1 /\ m(i) = r + 1 /\ p \in Int /\ r \in Int
        BY <1>1, <1>4, <4>1
      <4> HIDE DEF p, r, m
      <4>3. i = p + m(i)
        BY <4>2
      <4>4. QED
        BY <4>3 DEF p
    <3>2. QED
      BY <3>1
  <2>4. q(j) = q(k) /\ m(j) = m(k)
    BY <2>1, <2>2
  <2> HIDE DEF q, m
  <2>5. QED
    BY <2>3, <2>4
<1>8. \A k \in 1 .. n : run(k).label = label /\ run(k).tier = "full"
  OBVIOUS
<1> HIDE DEF run
<1>9. QED
  BY <1>2, <1>6, <1>7, <1>8

(* The next run and the rest.                                              *)
LEMMA NextRun ==
  ASSUME NEW s \in Seq(Ids), s # << >>
  PROVE  /\ Head(s) \in Ids /\ Head(s) = s[1] /\ Tail(s) \in Seq(Ids)
         /\ Len(s) \in Nat \ {0} /\ Len(Tail(s)) = Len(s) - 1
         /\ \A k \in 1 .. Len(Tail(s)) : k + 1 \in 1 .. Len(s) /\ Tail(s)[k] = s[k + 1]
         /\ ToSet(s) = {Head(s)} \cup ToSet(Tail(s))
<1>1. /\ Len(s) \in Nat \ {0} /\ Len(Tail(s)) = Len(s) - 1
      /\ \A i \in 1 .. Len(s) - 1 : Tail(s)[i] = s[i + 1]
      /\ Head(s) = s[1] /\ Tail(s) \in Seq(Ids) /\ Head(s) \in Ids
  OBVIOUS
<1>2. ToSet(s) = {s[i] : i \in 1 .. Len(s)}
      /\ ToSet(Tail(s)) = {Tail(s)[i] : i \in 1 .. Len(s) - 1}
  <2>1. DOMAIN s = 1 .. Len(s) /\ DOMAIN Tail(s) = 1 .. Len(Tail(s))
    BY <1>1
  <2>2. QED
    BY <1>1, <2>1 DEF ToSet
<1>3. ASSUME NEW i \in 1 .. Len(s), i # 1
      PROVE  s[i] \in ToSet(Tail(s))
  <2>1. i - 1 \in 1 .. Len(s) - 1 /\ (i - 1) + 1 = i
    BY <1>1, <1>3
  <2>2. QED
    BY <1>1, <1>2, <2>1
<1>4. ASSUME NEW i \in 1 .. Len(s) - 1
      PROVE  Tail(s)[i] \in ToSet(s) /\ i + 1 \in 1 .. Len(s)
  BY <1>1, <1>2
<1>5. ToSet(s) \subseteq {Head(s)} \cup ToSet(Tail(s))
  BY <1>1, <1>2, <1>3
<1>6. {Head(s)} \cup ToSet(Tail(s)) \subseteq ToSet(s)
  BY <1>1, <1>2, <1>4
<1>7. QED
  BY <1>1, <1>4, <1>5, <1>6

(* Types.                                                                  *)
LEMMA TypeStep == TypeInv /\ OwnInv /\ [Next]_vars => TypeInv'
<1> SUFFICES ASSUME TypeInv, OwnInv, [Next]_vars PROVE TypeInv'
  OBVIOUS
<1> USE DEF TypeInv
<1>1. ASSUME NEW label \in ToSet(Labels), NEW tier \in {"smoke", "full", "both"},
             Invoke(label, tier)
      PROVE  TypeInv'
  <2>1. inv' \in Progress
    BY <1>1 DEF Invoke, Progress, Names
  <2>2. QED
    BY <1>1, <2>1 DEF Invoke
<1>2. CASE CaptureEnv
  <2>1. inv \in Progress
    BY <1>2 DEF CaptureEnv, Idle
  <2>2. inv' \in Progress
    BY <1>2, <2>1, SmokeRunsTyped, FullRunsTyped DEF CaptureEnv, Progress
  <2>3. QED
    BY <1>2, <2>2 DEF CaptureEnv
<1>3. CASE StartRun
  <2>1. inv \in Progress /\ Head(inv.todo) \in Ids
    BY <1>3, NextRun DEF StartRun, Idle, Tiers, Progress
  <2>2. inv' \in Progress
    BY <1>3, <2>1 DEF StartRun, Progress
  <2>3. [out |-> Empty, at |-> head] \in [out : Outs, at : Nat]
    BY OutsTyped
  <2>4. DOMAIN files' \subseteq Ids /\ \A id \in DOMAIN files' : files'[id] \in [out : Outs, at : Nat]
    BY <1>3, <2>1, <2>3 DEF StartRun
  <2>5. QED
    BY <1>3, <2>2, <2>4 DEF StartRun
<1>4. CASE EndRun
  <2>1. inv \in Progress
    BY <1>4 DEF EndRun, Idle, Tiers
  <2>2. Head(inv.todo) \in Ids /\ Tail(inv.todo) \in Seq(Ids)
    <3>1. inv.todo # << >> /\ inv.todo \in Seq(Ids)
      BY <1>4, <2>1 DEF EndRun, OwnInv, TodoInv, InProgress, Progress, Tiers
    <3>2. QED
      BY <3>1, NextRun
  <2>3. PICK e \in Endings :
          /\ files' = [files EXCEPT ![Head(inv.todo)].out = e.out]
          /\ inv' = [inv EXCEPT !.open = FALSE, !.todo = Tail(@),
                                !.failed = @ + (IF Gate(e) THEN 0 ELSE 1),
                                !.entries = @ \cup {[id |-> Head(inv.todo), exit |-> e.exit,
                                                     gate |-> Gate(e)]}]
    BY <1>4 DEF EndRun
  <2>4. e.exit \in {"zero", "nonzero"} /\ e.out \in Outs
    BY OutsTyped
  <2>5. [id |-> Head(inv.todo), exit |-> e.exit, gate |-> Gate(e)] \in Entries
    BY <2>2, <2>4 DEF Entries, Gate
  <2> DEFINE n == inv.failed + (IF Gate(e) THEN 0 ELSE 1)
             all == inv.entries \cup {[id |-> Head(inv.todo), exit |-> e.exit, gate |-> Gate(e)]}
  <2>6. inv' \in Progress
    <3>1. n \in Nat /\ all \in SUBSET Entries
      BY <2>1, <2>5 DEF Progress
    <3>2. inv' = [inv EXCEPT !.open = FALSE, !.todo = Tail(inv.todo), !.failed = n, !.entries = all]
      BY <2>3
    <3> HIDE DEF n, all
    <3>3. QED
      BY <2>1, <2>2, <3>1, <3>2 DEF Progress
  <2>7. DOMAIN files' = DOMAIN files
        /\ \A id \in DOMAIN files : files'[id] \in [out : Outs, at : Nat]
    BY <2>3, <2>4
  <2>8. QED
    BY <1>4, <2>6, <2>7 DEF EndRun
<1>5. CASE EndSmoke
  <2>1. inv \in Progress
    BY <1>5 DEF EndSmoke, Idle
  <2>2. inv' \in Progress
    BY <1>5, <2>1, FullRunsTyped DEF EndSmoke, Progress
  <2>3. QED
    BY <1>5, <2>2 DEF EndSmoke, dirVars
<1>6. CASE EndFull
  <2>1. inv \in Progress
    BY <1>6 DEF EndFull, Idle
  <2>2. inv' \in Progress
    BY <1>6, <2>1 DEF EndFull, Progress
  <2>3. QED
    BY <1>6, <2>2 DEF EndFull, dirVars
<1>7. CASE WriteManifest
  <2>1. inv \in Progress
    BY <1>7 DEF WriteManifest, Idle
  <2>2. inv.label \in Names
        /\ [commit |-> head, runs |-> inv.entries] \in [commit : Nat, runs : SUBSET Entries]
    BY <2>1 DEF Progress
  <2>3. QED
    BY <1>7, <2>2 DEF WriteManifest
<1>8. CASE Terminated
  <2>1. DOMAIN files' = DOMAIN files
        /\ \A id \in DOMAIN files : files'[id] \in [out : Outs, at : Nat]
    <3>1. CASE inv.phase \in Tiers /\ inv.open
      <4>1. PICK out \in CutOff : files' = [files EXCEPT ![Head(inv.todo)].out = out]
        BY <1>8, <3>1 DEF Terminated
      <4>2. out \in Outs
        BY OutsTyped
      <4>3. QED
        BY <4>1, <4>2
    <3>2. CASE ~(inv.phase \in Tiers /\ inv.open)
      BY <1>8, <3>2 DEF Terminated
    <3>3. QED
      BY <3>1, <3>2
  <2>2. QED
    BY <1>8, <2>1 DEF Terminated
<1>9. CASE Commit
  BY <1>9 DEF Commit, dirVars
<1>10. CASE UNCHANGED vars
  BY <1>10 DEF vars, dirVars
<1>11. QED
  BY <1>1, <1>2, <1>3, <1>4, <1>5, <1>6, <1>7, <1>8, <1>9, <1>10 DEF Next

-----------------------------------------------------------------------------
(* An invocation in progress, from which nothing but the phase, the runs   *)
(* to be done, and what is counted of them ever changes.                   *)
SameInvocation ==
  /\ inv \in Progress /\ inv' \in Progress /\ InProgress /\ InProgress'
  /\ inv'.label = inv.label /\ inv'.tier = inv.tier

(* A run starts: an output more, with nothing in it.                       *)
LEMMA RunStarts ==
  ASSUME TypeInv, OwnInv, StartRun
  PROVE  /\ SameInvocation /\ inv.phase \in Tiers /\ inv'.phase = inv.phase
         /\ inv.todo # << >> /\ inv'.todo = inv.todo /\ inv.open = FALSE /\ inv'.open = TRUE
         /\ inv'.failed = inv.failed /\ inv'.entries = inv.entries
         /\ DOMAIN files' = DOMAIN files \cup {Head(inv.todo)}
         /\ files'[Head(inv.todo)].out = Empty
         /\ \A id \in DOMAIN files : id # Head(inv.todo) => files'[id] = files[id]
         /\ there' = there /\ manifests' = manifests
<1>1. inv \in Progress /\ inv.phase \in Tiers /\ inv.todo # << >> /\ inv.open = FALSE
  BY DEF StartRun, Idle, Tiers, TypeInv, Progress
<1>2. inv' = [inv EXCEPT !.open = TRUE] /\ there' = there /\ manifests' = manifests
  BY DEF StartRun
<1>3. inv' \in Progress /\ InProgress /\ InProgress'
  BY <1>1, <1>2 DEF Progress, InProgress
<1>4. /\ inv'.phase = inv.phase /\ inv'.todo = inv.todo /\ inv'.open = TRUE
      /\ inv'.failed = inv.failed /\ inv'.entries = inv.entries
      /\ inv'.label = inv.label /\ inv'.tier = inv.tier
  BY <1>1, <1>2 DEF Progress
<1>5. /\ DOMAIN files' = DOMAIN files \cup {Head(inv.todo)}
      /\ files'[Head(inv.todo)].out = Empty
      /\ \A id \in DOMAIN files : id # Head(inv.todo) => files'[id] = files[id]
  BY DEF StartRun
<1>6. QED
  BY <1>1, <1>2, <1>3, <1>4, <1>5 DEF SameInvocation

(* A run ends: its output is what it printed, and it is recorded.          *)
Entry(e) == [id |-> Head(inv.todo), exit |-> e.exit, gate |-> Gate(e)]
(* What the end of a run does to the invocation and to the directory.      *)
LEMMA RunEnds ==
  ASSUME TypeInv, OwnInv, EndRun
  PROVE  /\ SameInvocation /\ inv.phase \in Tiers /\ inv'.phase = inv.phase
         /\ inv.todo # << >> /\ inv'.todo = Tail(inv.todo)
         /\ inv.open = TRUE /\ inv'.open = FALSE
         /\ Head(inv.todo) \in DOMAIN files /\ DOMAIN files' = DOMAIN files
         /\ \A id \in DOMAIN files : id # Head(inv.todo) => files'[id] = files[id]
         /\ \E e \in Endings :
              /\ files'[Head(inv.todo)].out = e.out
              /\ inv'.failed = inv.failed + (IF Gate(e) THEN 0 ELSE 1)
              /\ inv'.entries = inv.entries \cup {Entry(e)}
         /\ there' = there /\ manifests' = manifests
<1>1. inv \in Progress /\ inv.phase \in Tiers /\ inv.open = TRUE /\ InProgress
  BY DEF EndRun, Idle, Tiers, TypeInv, Progress, InProgress
<1>2. inv.todo # << >> /\ Head(inv.todo) \in DOMAIN files
  BY <1>1 DEF OwnInv, TodoInv
<1>3. PICK e \in Endings :
        /\ files' = [files EXCEPT ![Head(inv.todo)].out = e.out]
        /\ inv' = [inv EXCEPT !.open = FALSE, !.todo = Tail(@),
                              !.failed = @ + (IF Gate(e) THEN 0 ELSE 1),
                              !.entries = @ \cup {Entry(e)}]
  BY DEF EndRun, Entry
<1>4. there' = there /\ manifests' = manifests
  BY DEF EndRun
<1>5. /\ inv'.phase = inv.phase /\ inv'.todo = Tail(inv.todo) /\ inv'.open = FALSE
      /\ inv'.label = inv.label /\ inv'.tier = inv.tier
      /\ inv'.failed = inv.failed + (IF Gate(e) THEN 0 ELSE 1)
      /\ inv'.entries = inv.entries \cup {Entry(e)}
  BY <1>1, <1>3 DEF Progress
<1>6. inv' \in Progress /\ InProgress'
  <2>1. TypeInv'
    BY TypeStep DEF Next
  <2>2. inv'.phase # "idle"
    BY <1>1, <1>5 DEF Tiers
  <2>3. QED
    BY <2>1, <2>2 DEF TypeInv, Idle, InProgress
<1>7. /\ DOMAIN files' = DOMAIN files /\ files'[Head(inv.todo)].out = e.out
      /\ \A id \in DOMAIN files : id # Head(inv.todo) => files'[id] = files[id]
  <2>1. files[Head(inv.todo)] \in [out : Outs, at : Nat]
    BY <1>2 DEF TypeInv
  <2>2. QED
    BY <1>2, <1>3, <2>1
<1>8. QED
  BY <1>1, <1>2, <1>3, <1>4, <1>5, <1>6, <1>7 DEF SameInvocation

(* The pod is gone: what the open output holds is anybody's guess.         *)
LEMMA PodIsGone ==
  ASSUME TypeInv, OwnInv, Terminated
  PROVE  /\ InProgress /\ inv' = Idle /\ ~InProgress'
         /\ DOMAIN files' = DOMAIN files
         /\ \A id \in DOMAIN files :
              files'[id] # files[id] => inv.open = TRUE /\ inv.todo # << >> /\ id = Head(inv.todo)
         /\ there' = there /\ manifests' = manifests
<1>1. inv \in Progress /\ InProgress /\ inv' = Idle /\ ~InProgress'
      /\ there' = there /\ manifests' = manifests
  BY DEF Terminated, TypeInv, InProgress, Idle
<1>2. CASE inv.phase \in Tiers /\ inv.open
  <2>1. inv.open = TRUE /\ inv.todo # << >>
    BY <1>1, <1>2 DEF OwnInv, TodoInv, Progress
  <2>2. PICK out \in CutOff : files' = [files EXCEPT ![Head(inv.todo)].out = out]
    BY <1>2 DEF Terminated
  <2>3. QED
    BY <1>1, <2>1, <2>2
<1>3. CASE ~(inv.phase \in Tiers /\ inv.open)
  BY <1>1, <1>3 DEF Terminated
<1>4. QED
  BY <1>2, <1>3

(* The steps of an invocation between its runs.                            *)
Between == CaptureEnv \/ EndSmoke \/ EndFull
(* What an invocation does when the runs of a phase are up.                *)
LEMMA RunsAreUp ==
  ASSUME TypeInv, OwnInv, Between
  PROVE  /\ SameInvocation /\ files' = files /\ manifests' = manifests /\ there' = there
         /\ inv.todo = << >> /\ inv.open = FALSE /\ inv'.open = FALSE
         /\ inv'.failed = inv.failed /\ inv'.entries = inv.entries
         /\ \/ inv.phase = "env" /\ inv'.phase = "smoke" /\ inv'.todo = SmokeRuns(inv.label)
               /\ inv.tier # "full"
            \/ inv.phase = "env" /\ inv'.phase = "full" /\ inv'.todo = FullRuns(inv.label)
               /\ inv.tier = "full"
            \/ inv.phase = "smoke" /\ inv'.phase = "full" /\ inv'.todo = FullRuns(inv.label)
               /\ inv.failed = 0
            \/ inv.phase \in Tiers /\ inv'.phase = "manifest" /\ inv'.todo = << >>
<1>1. inv \in Progress /\ InProgress /\ InProgress' /\ inv.todo = << >>
      /\ files' = files /\ manifests' = manifests /\ there' = there
  <2>1. inv \in Progress /\ InProgress
    BY DEF Between, CaptureEnv, EndSmoke, EndFull, Idle, TypeInv, InProgress
  <2>2. files' = files /\ manifests' = manifests /\ there' = there
    BY DEF Between, CaptureEnv, EndSmoke, EndFull, dirVars
  <2>3. inv.todo = << >>
    BY <2>1 DEF Between, CaptureEnv, EndSmoke, EndFull, OwnInv, TodoInv
  <2>4. inv'.phase \in {"smoke", "full", "manifest"}
    BY <2>1 DEF Between, CaptureEnv, EndSmoke, EndFull, Progress
  <2>5. QED
    BY <2>1, <2>2, <2>3, <2>4 DEF InProgress
<1>2. inv.open = FALSE
  BY <1>1 DEF OwnInv, TodoInv, Progress
<1>3. /\ inv'.label = inv.label /\ inv'.tier = inv.tier /\ inv'.open = FALSE
      /\ inv'.failed = inv.failed /\ inv'.entries = inv.entries
  BY <1>1, <1>2 DEF Between, CaptureEnv, EndSmoke, EndFull, Progress
<1>4. inv' \in Progress
  <2>1. TypeInv'
    BY TypeStep DEF Next, Between
  <2>2. QED
    BY <1>1, <2>1 DEF TypeInv, Idle, InProgress
<1>5. CASE CaptureEnv
  BY <1>1, <1>2, <1>3, <1>4, <1>5 DEF CaptureEnv, SameInvocation, Progress
<1>6. CASE EndSmoke
  BY <1>1, <1>2, <1>3, <1>4, <1>6 DEF EndSmoke, SameInvocation, Progress, SmokeOK, Tiers
<1>7. CASE EndFull
  BY <1>1, <1>2, <1>3, <1>4, <1>7 DEF EndFull, SameInvocation, Progress, Tiers
<1>8. QED
  BY <1>5, <1>6, <1>7 DEF Between

(* An invocation begins: its configuration has no outputs.                 *)
LEMMA InvocationBegins ==
  ASSUME TypeInv, OwnInv, NEW label \in ToSet(Labels), NEW tier \in {"smoke", "full", "both"},
         Invoke(label, tier)
  PROVE  /\ ~InProgress /\ InProgress' /\ inv' \in Progress
         /\ Of(label) = {} /\ files' = files /\ manifests' = manifests /\ there' = TRUE
         /\ inv'.phase = "env" /\ inv'.label = label /\ inv'.tier = tier /\ inv'.open = FALSE
         /\ inv'.todo = << >> /\ inv'.failed = 0 /\ inv'.entries = {}
<1>1. /\ ~InProgress /\ files' = files /\ manifests' = manifests /\ there' = TRUE
      /\ inv' = [phase |-> "env", label |-> label, tier |-> tier, open |-> FALSE,
                 todo |-> << >>, failed |-> 0, entries |-> {}]
  BY DEF Invoke
<1>2. inv' \in Progress /\ InProgress'
  BY <1>1 DEF Progress, Names, InProgress
<1>3. Of(label) = {}
  BY DEF Invoke, MayNotStart, OwnInv, Of
<1>4. QED
  BY <1>1, <1>2, <1>3

(* It ends with its manifest.                                              *)
LEMMA ManifestIsWritten ==
  ASSUME TypeInv, OwnInv, WriteManifest
  PROVE  /\ inv \in Progress /\ InProgress /\ ~InProgress' /\ files' = files /\ there' = there
         /\ inv.phase = "manifest" /\ inv.open = FALSE /\ inv.todo = << >>
         /\ DOMAIN manifests' = DOMAIN manifests \cup {inv.label}
         /\ manifests'[inv.label].runs = inv.entries
         /\ \A l \in DOMAIN manifests : l # inv.label => manifests'[l] = manifests[l]
<1>1. /\ inv \in Progress /\ InProgress /\ files' = files /\ there' = there
      /\ inv.phase = "manifest" /\ inv' = Idle
  BY DEF WriteManifest, TypeInv, Idle, InProgress
<1>2. ~InProgress' /\ inv.todo = << >> /\ inv.open = FALSE
  BY <1>1 DEF OwnInv, TodoInv, Progress, InProgress, Idle
<1>3. /\ DOMAIN manifests' = DOMAIN manifests \cup {inv.label}
      /\ manifests'[inv.label].runs = inv.entries
      /\ \A l \in DOMAIN manifests : l # inv.label => manifests'[l] = manifests[l]
  BY DEF WriteManifest
<1>4. QED
  BY <1>1, <1>2, <1>3

(* Each invocation keeps to its own configuration.                         *)
LEMMA OwnStep == TypeInv /\ OwnInv /\ [Next]_vars => OwnInv'
<1> SUFFICES ASSUME TypeInv, OwnInv, [Next]_vars PROVE OwnInv'
  OBVIOUS
<1>1. ASSUME NEW label \in ToSet(Labels), NEW tier \in {"smoke", "full", "both"},
             Invoke(label, tier)
      PROVE  OwnInv'
  <2>1. Of(inv.label)' = {}
    BY <1>1, InvocationBegins DEF Of
  <2>2. inv'.todo = << >> /\ inv'.open = FALSE /\ inv'.phase = "env" /\ inv'.entries = {}
    BY <1>1, InvocationBegins
  <2>3. TodoInv'
    BY <2>2 DEF TodoInv
  <2>4. EntriesInv'
    BY <2>1, <2>2 DEF EntriesInv
  <2>5. QED
    BY <1>1, <2>3, <2>4, InvocationBegins DEF OwnInv
<1>2. CASE Between
  <2>1. inv.label \in Names /\ inv'.label = inv.label /\ Of(inv.label)' = Of(inv.label)
    BY <1>2, RunsAreUp DEF SameInvocation, Progress, Of
  <2>2. inv'.open = FALSE /\ TodoInv /\ EntriesInv /\ there
    BY <1>2, RunsAreUp DEF OwnInv, SameInvocation
  <2>3. TodoInv'
    <3>1. CASE inv'.phase = "smoke" /\ inv'.todo = SmokeRuns(inv.label)
      BY <2>1, <2>2, <3>1, SmokeRunsTyped DEF TodoInv
    <3>2. CASE inv'.phase = "full" /\ inv'.todo = FullRuns(inv.label)
      BY <2>1, <2>2, <3>2, FullRunsTyped DEF TodoInv
    <3>3. CASE inv'.phase = "manifest" /\ inv'.todo = << >>
      BY <2>1, <2>2, <3>3 DEF TodoInv
    <3>4. QED
      BY <1>2, <3>1, <3>2, <3>3, RunsAreUp
  <2>4. EntriesInv'
    BY <1>2, <2>1, <2>2, RunsAreUp DEF EntriesInv
  <2>5. QED
    BY <1>2, <2>2, <2>3, <2>4, RunsAreUp DEF OwnInv, SameInvocation
<1>3. CASE StartRun
  <2> DEFINE h == Head(inv.todo)
  <2>1. TodoInv /\ EntriesInv /\ there /\ inv'.label = inv.label
    BY <1>3, RunStarts DEF OwnInv, SameInvocation
  <2>2. h \in Ids /\ h.label = inv.label /\ h.tier = inv.phase
    <3>1. inv.todo \in Seq(Ids) /\ inv.todo # << >>
      BY <1>3, RunStarts DEF SameInvocation, Progress
    <3>2. h = inv.todo[1] /\ 1 \in 1 .. Len(inv.todo) /\ h \in Ids
      BY <3>1, NextRun
    <3>3. QED
      BY <2>1, <3>2 DEF TodoInv
  <2>3. Of(inv.label)' = Of(inv.label) \cup {h}
    BY <1>3, <2>1, <2>2, RunStarts DEF Of
  <2>4. TodoInv'
    BY <1>3, <2>1, RunStarts DEF TodoInv
  <2>5. EntriesInv'
    BY <1>3, <2>1, <2>2, <2>3, RunStarts DEF EntriesInv, Tiers
  <2>6. QED
    BY <1>3, <2>1, <2>4, <2>5, RunStarts DEF OwnInv
<1>4. CASE EndRun
  <2> DEFINE h == Head(inv.todo)
  <2>1. TodoInv /\ EntriesInv /\ there /\ inv'.label = inv.label
    BY <1>4, RunEnds DEF OwnInv, SameInvocation
  <2>2. inv.todo \in Seq(Ids) /\ inv.todo # << >>
    BY <1>4, RunEnds DEF SameInvocation, Progress
  <2>3. h = inv.todo[1] /\ 1 \in 1 .. Len(inv.todo) /\ h \in Ids
    BY <2>2, NextRun
  <2>4. h \in Of(inv.label)
    BY <1>4, <2>1, <2>3, RunEnds DEF TodoInv, Of
  <2>5. Of(inv.label)' = Of(inv.label)
    BY <1>4, <2>1, RunEnds DEF Of
  <2>6. TodoInv'
    <3>1. \A k \in 1 .. Len(Tail(inv.todo)) :
            Tail(inv.todo)[k].label = inv.label /\ Tail(inv.todo)[k].tier = inv.phase
      BY <2>1, <2>2, NextRun DEF TodoInv
    <3>2. QED
      BY <1>4, <2>1, <3>1, RunEnds DEF TodoInv, Tiers
  <2>7. EntriesInv'
    <3>1. PICK e \in Endings : inv'.entries = inv.entries \cup {Entry(e)}
      BY <1>4, RunEnds
    <3>2. Entry(e).id = h /\ Entry(e) \in inv'.entries
      BY <3>1 DEF Entry
    <3>3. \A id : Recorded(id, inv.entries) => Recorded(id, inv'.entries)
      BY <3>1 DEF Recorded
    <3>4. Recorded(h, inv'.entries)
      BY <3>2 DEF Recorded
    <3>5. \A x \in inv'.entries : x.id \in Of(inv.label)
      BY <2>1, <2>4, <3>1, <3>2 DEF EntriesInv
    <3>6. inv'.phase = inv.phase /\ inv.phase \in Tiers
      BY <1>4, RunEnds
    <3>7. QED
      BY <2>1, <2>5, <3>3, <3>4, <3>5, <3>6 DEF EntriesInv, Tiers
  <2>8. QED
    BY <1>4, <2>1, <2>6, <2>7, RunEnds DEF OwnInv
<1>5. CASE WriteManifest
  BY <1>5, ManifestIsWritten DEF OwnInv
<1>6. CASE Terminated
  BY <1>6, PodIsGone DEF OwnInv
<1>7. CASE Commit \/ UNCHANGED vars
  BY <1>7 DEF Commit, vars, dirVars, OwnInv, InProgress, TodoInv, EntriesInv, Of
<1>8. QED
  BY <1>1, <1>2, <1>3, <1>4, <1>5, <1>6, <1>7 DEF Next, Between

(* Nothing takes an output away, and a configuration with a manifest has   *)
(* no further invocation once a run is listed.                             *)
LEMMA ManifestStep == TypeInv /\ OwnInv /\ ManifestInv /\ [Next]_vars => ManifestInv'
<1> SUFFICES ASSUME TypeInv, OwnInv, ManifestInv, [Next]_vars PROVE ManifestInv'
  OBVIOUS
<1>1. ASSUME NEW label \in ToSet(Labels), NEW tier \in {"smoke", "full", "both"},
             Invoke(label, tier)
      PROVE  ManifestInv'
  <2>1. Of(label) = {} /\ inv'.label = label /\ files' = files /\ manifests' = manifests
    BY <1>1, InvocationBegins
  <2>2. QED
    BY <2>1 DEF ManifestInv, Of
<1>2. ASSUME \A l : Of(l) \subseteq Of(l)', manifests' = manifests,
             InProgress' => InProgress /\ inv'.label = inv.label
      PROVE  ManifestInv'
  BY <1>2 DEF ManifestInv
<1>3. CASE Between
  BY <1>2, <1>3, RunsAreUp DEF SameInvocation, Of
<1>4. CASE StartRun
  BY <1>2, <1>4, RunStarts DEF SameInvocation, Of
<1>5. CASE EndRun
  BY <1>2, <1>5, RunEnds DEF SameInvocation, Of
<1>6. CASE WriteManifest
  <2>1. EntriesInv /\ \A l : Of(l)' = Of(l)
    BY <1>6, ManifestIsWritten DEF OwnInv, Of
  <2>2. \A e \in inv.entries : e.id \in Of(inv.label)
    BY <2>1 DEF EntriesInv
  <2>3. QED
    BY <1>6, <2>1, <2>2, ManifestIsWritten DEF ManifestInv
<1>7. CASE Terminated
  BY <1>2, <1>7, PodIsGone DEF Of
<1>8. CASE Commit \/ UNCHANGED vars
  BY <1>2, <1>8 DEF Commit, vars, dirVars, InProgress, Of
<1>9. QED
  BY <1>1, <1>3, <1>4, <1>5, <1>6, <1>7, <1>8 DEF Next, Between

(* The gate lets nothing pass but the sums and the trailer.                *)
LEMMA GatePasses == \A e \in Endings : Gate(e) => e.out = Passed
  BY DEF Endings, Gate, Passed

(* The smoke tier is passed run by run, and kept by the full tier.         *)
LEMMA SmokeStep == TypeInv /\ OwnInv /\ SmokeInv /\ [Next]_vars => SmokeInv'
<1> SUFFICES ASSUME TypeInv, OwnInv, SmokeInv, [Next]_vars PROVE SmokeInv'
  OBVIOUS
<1> DEFINE Smoke == ToSet(SmokeRuns(inv.label))
<1>1. ASSUME inv.label \in Names, NEW run \in Smoke
      PROVE  run.tier = "smoke"
  <2>1. SmokeRuns(inv.label) \in Seq(Ids)
    BY <1>1, SmokeRunsTyped
  <2>2. PICK k \in 1 .. Len(SmokeRuns(inv.label)) : run = SmokeRuns(inv.label)[k]
    BY <1>1, <2>1 DEF ToSet
  <2>3. QED
    BY <1>1, <2>2, SmokeRunsTyped
<1>2. ASSUME SameInvocation
      PROVE  inv.label \in Names /\ ToSet(SmokeRuns(inv.label))' = Smoke /\ inv'.tier = inv.tier
             /\ InProgress /\ inv.todo \in Seq(Ids) /\ inv.failed \in Nat
  BY <1>2 DEF SameInvocation, SmokeRuns, ToSet, Progress
<1>3. ASSUME NEW label \in ToSet(Labels), NEW tier \in {"smoke", "full", "both"},
             Invoke(label, tier)
      PROVE  SmokeInv'
  BY <1>3, InvocationBegins DEF SmokeInv
<1>4. CASE Between
  <2>1. SameInvocation /\ files' = files /\ inv.todo = << >> /\ inv'.failed = inv.failed
    BY <1>4, RunsAreUp
  <2>2. ToSet(inv.todo) = {} /\ \A run : SmokePassed(run)' = SmokePassed(run)
    BY <2>1 DEF ToSet, SmokePassed
  <2>3. CASE inv.phase = "env" /\ inv'.phase = "smoke" /\ inv'.todo = SmokeRuns(inv.label)
    BY <1>2, <2>1, <2>3 DEF SmokeInv
  <2>4. CASE inv.phase = "env" /\ inv'.phase = "full" /\ inv.tier = "full"
    BY <1>2, <2>1, <2>4 DEF SmokeInv
  <2>5. CASE inv.phase = "smoke" /\ inv'.phase = "full" /\ inv.failed = 0
    BY <1>2, <2>1, <2>2, <2>5 DEF SmokeInv
  <2>6. CASE inv'.phase = "manifest"
    BY <1>2, <2>1, <2>6 DEF SmokeInv
  <2>7. QED
    BY <1>4, <2>3, <2>4, <2>5, <2>6, RunsAreUp
<1>5. CASE StartRun
  <2> DEFINE h == Head(inv.todo)
  <2>1. /\ SameInvocation /\ TodoInv /\ inv.todo # << >> /\ inv'.todo = inv.todo
        /\ inv'.phase = inv.phase /\ inv'.failed = inv.failed
    BY <1>5, RunStarts DEF OwnInv, SameInvocation
  <2>2. h \in ToSet(inv.todo) /\ h = inv.todo[1] /\ 1 \in 1 .. Len(inv.todo)
    BY <1>2, <2>1, NextRun
  <2>3. h.tier = inv.phase
    BY <2>1, <2>2 DEF TodoInv
  <2>4. \A run : run # h /\ SmokePassed(run) => SmokePassed(run)'
    BY <1>5, RunStarts DEF SmokePassed
  <2>5. inv.phase = "full" => \A run \in Smoke : run # h
    BY <1>1, <1>2, <2>1, <2>3
  <2>6. QED
    BY <1>2, <2>1, <2>2, <2>4, <2>5 DEF SmokeInv
<1>6. CASE EndRun
  <2> DEFINE h == Head(inv.todo)
  <2>1. /\ SameInvocation /\ TodoInv /\ inv.todo # << >> /\ inv'.todo = Tail(inv.todo)
        /\ inv'.phase = inv.phase
    BY <1>6, RunEnds DEF OwnInv, SameInvocation
  <2>2. ToSet(inv.todo) = {h} \cup ToSet(inv'.todo) /\ h = inv.todo[1] /\ 1 \in 1 .. Len(inv.todo)
    BY <1>2, <2>1, NextRun
  <2>3. h.tier = inv.phase
    BY <2>1, <2>2 DEF TodoInv
  <2>4. \A run : run # h /\ SmokePassed(run) => SmokePassed(run)'
    BY <1>6, RunEnds DEF SmokePassed
  <2>5. inv.phase = "full" => \A run \in Smoke : run # h
    BY <1>1, <1>2, <2>1, <2>3
  <2>6. inv'.failed = 0 => inv.failed = 0 /\ h \in DOMAIN files' /\ files'[h].out = Passed
    <3>1. PICK e \in Endings : /\ files'[h].out = e.out
                               /\ inv'.failed = inv.failed + (IF Gate(e) THEN 0 ELSE 1)
      BY <1>6, RunEnds
    <3>2. h \in DOMAIN files'
      BY <1>6, RunEnds
    <3>3. inv'.failed = 0 => inv.failed = 0 /\ Gate(e)
      BY <1>2, <2>1, <3>1
    <3>4. QED
      BY <3>1, <3>2, <3>3, GatePasses
  <2>7. \A run : run = h /\ inv'.failed = 0 => SmokePassed(run)'
    BY <2>6 DEF SmokePassed
  <2> HIDE DEF h
  <2>8. CASE inv.phase = "smoke"
    <3>1. inv'.failed = 0 /\ inv.tier = "both" =>
            \A run \in Smoke : run \in ToSet(inv.todo) \/ SmokePassed(run)
      BY <1>2, <2>1, <2>6, <2>8 DEF SmokeInv
    <3>2. inv'.failed = 0 /\ inv.tier = "both" =>
            \A run \in Smoke : run \in ToSet(inv'.todo) \/ SmokePassed(run)'
      BY <2>2, <2>4, <2>7, <3>1
    <3>3. QED
      BY <1>2, <2>1, <2>8, <3>2 DEF SmokeInv
  <2>9. CASE inv.phase # "smoke"
    BY <1>2, <2>1, <2>4, <2>5, <2>9 DEF SmokeInv
  <2>10. QED
    BY <2>8, <2>9
<1>7. CASE WriteManifest
  BY <1>7, ManifestIsWritten DEF SmokeInv
<1>8. CASE Terminated
  BY <1>8, PodIsGone DEF SmokeInv
<1>9. CASE Commit \/ UNCHANGED vars
  BY <1>9 DEF Commit, vars, dirVars, InProgress, SmokeInv, SmokePassed, SmokeRuns, ToSet
<1>10. QED
  BY <1>3, <1>4, <1>5, <1>6, <1>7, <1>8, <1>9 DEF Next, Between

(* The full tier starts behind the smoke tier, and not without it.         *)
LEMMA GatesStep ==
  TypeInv /\ OwnInv /\ SmokeInv /\ SmokeGatesFull /\ [Next]_vars => SmokeGatesFull'
<1> SUFFICES ASSUME TypeInv, OwnInv, SmokeInv, SmokeGatesFull, [Next]_vars PROVE SmokeGatesFull'
  OBVIOUS
<1> DEFINE AFullRun == \E id \in DOMAIN files : id.label = inv.label /\ id.tier = "full"
           AllPassed == \A i \in 1 .. Len(Collectives) : SmokePassed(SmokeRuns(inv.label)[i])
<1>1. SmokeGatesFull <=> (InProgress /\ inv.tier = "both" /\ AFullRun => AllPassed)
      /\ (SmokeGatesFull' <=> (InProgress /\ inv.tier = "both" /\ AFullRun => AllPassed)')
  BY DEF SmokeGatesFull, SmokePassed
<1>2. OwnInv' /\ SmokeInv' /\ TypeInv'
  BY TypeStep, OwnStep, SmokeStep
<1>3. InProgress /\ OwnInv /\ inv.phase \in {"env", "smoke"} => ~AFullRun
  BY DEF OwnInv, EntriesInv, Of
<1>4. InProgress /\ inv.tier = "both" /\ inv.phase = "full" /\ SmokeInv => AllPassed
  <2>1. DOMAIN SmokeRuns(inv.label) = 1 .. Len(Collectives)
    BY DEF SmokeRuns
  <2>2. QED
    BY <2>1 DEF SmokeInv, ToSet
<1>5. (InProgress /\ OwnInv /\ inv.phase \in {"env", "smoke"} => ~AFullRun)'
  BY DEF OwnInv, EntriesInv, Of
<1>6. (InProgress /\ inv.tier = "both" /\ inv.phase = "full" /\ SmokeInv => AllPassed)'
  <2>1. DOMAIN SmokeRuns(inv.label)' = 1 .. Len(Collectives)
    BY DEF SmokeRuns
  <2>2. QED
    BY <2>1 DEF SmokeInv, ToSet
<1>7. CASE InProgress' /\ inv'.phase # "manifest"
  <2>1. inv'.phase \in {"env", "smoke", "full"}
    BY <1>2, <1>7 DEF TypeInv, InProgress, Idle, Progress
  <2>2. QED
    BY <1>1, <1>2, <1>5, <1>6, <1>7, <2>1
<1>8. CASE ~InProgress'
  BY <1>1, <1>8
<1>9. CASE InProgress' /\ inv'.phase = "manifest"
  <2>1. CASE Between
    <3>1. SameInvocation /\ files' = files /\ inv.phase \in Tiers
      BY <1>9, <2>1, RunsAreUp
    <3>2. inv.tier = "both" /\ AFullRun => AllPassed
      BY <1>3, <1>4, <3>1 DEF Tiers, SameInvocation
    <3>3. (AFullRun' <=> AFullRun) /\ (AllPassed' <=> AllPassed) /\ inv'.tier = inv.tier
      BY <3>1 DEF SameInvocation, SmokePassed, SmokeRuns
    <3>4. QED
      BY <1>1, <3>2, <3>3
  <2>2. CASE ~Between
    <3>1. ~(\E label \in ToSet(Labels), tier \in {"smoke", "full", "both"} : Invoke(label, tier))
      BY <1>9, InvocationBegins
    <3>2. ~StartRun
      BY <1>9, RunStarts DEF Tiers
    <3>3. ~EndRun
      BY <1>9, RunEnds DEF Tiers
    <3>4. ~WriteManifest /\ ~Terminated
      BY <1>9, ManifestIsWritten, PodIsGone
    <3>5. Commit \/ UNCHANGED vars
      BY <2>2, <3>1, <3>2, <3>3, <3>4 DEF Next, Between
    <3>6. inv' = inv /\ files' = files
      BY <3>5 DEF Commit, vars, dirVars
    <3>7. QED
      BY <3>6 DEF SmokeGatesFull, InProgress, SmokeRuns
  <2>3. QED
    BY <2>1, <2>2
<1>10. QED
  BY <1>7, <1>8, <1>9

-----------------------------------------------------------------------------
(* Of collectives named once, no run has an output before its turn.        *)
LEMMA FreshStep ==
  ASSUME Distinct
  PROVE  TypeInv /\ OwnInv /\ FreshInv /\ [Next]_vars => FreshInv'
<1> SUFFICES ASSUME TypeInv, OwnInv, FreshInv, [Next]_vars PROVE FreshInv'
  OBVIOUS
<1>1. ASSUME NEW label \in ToSet(Labels), NEW tier \in {"smoke", "full", "both"},
             Invoke(label, tier)
      PROVE  FreshInv'
  <2>1. inv'.todo = << >> /\ inv'.entries = {}
    BY <1>1, InvocationBegins
  <2>2. QED
    BY <2>1 DEF FreshInv
<1>2. CASE Between
  <2>1. /\ SameInvocation /\ files' = files /\ inv'.entries = inv.entries /\ inv.open = FALSE
        /\ EntriesInv /\ inv.label \in Names
    BY <1>2, RunsAreUp DEF OwnInv, SameInvocation, Progress
  <2>2. ASSUME NEW tier, inv'.todo \in Seq(Ids),
               \A k \in 1 .. Len(inv'.todo) :
                 inv'.todo[k].label = inv.label /\ inv'.todo[k].tier = tier,
               \A j, k \in 1 .. Len(inv'.todo) : inv'.todo[j] = inv'.todo[k] => j = k,
               \A id \in Of(inv.label) : id.tier # tier
        PROVE  FreshInv'
    <3>1. \A k \in 1 .. Len(inv'.todo) : inv'.todo[k] \notin DOMAIN files
      BY <2>2 DEF Of
    <3>2. \A e \in inv.entries : e.id \in DOMAIN files
      BY <2>1 DEF EntriesInv, Of
    <3>3. QED
      BY <2>1, <2>2, <3>1, <3>2 DEF FreshInv
  <2>3. CASE inv.phase = "env" /\ inv'.phase = "smoke" /\ inv'.todo = SmokeRuns(inv.label)
    BY <2>1, <2>2, <2>3, SmokeRunsTyped DEF EntriesInv
  <2>4. CASE inv.phase \in {"env", "smoke"} /\ inv'.phase = "full" /\ inv'.todo = FullRuns(inv.label)
    <3>1. \A id \in Of(inv.label) : id.tier # "full"
      BY <2>1, <2>4 DEF EntriesInv
    <3>2. QED
      BY <2>1, <2>2, <2>4, <3>1, FullRunsTyped
  <2>5. CASE inv'.todo = << >>
    BY <2>5 DEF FreshInv
  <2>6. QED
    BY <1>2, <2>3, <2>4, <2>5, RunsAreUp
<1>3. CASE StartRun
  <2> DEFINE h == Head(inv.todo)
  <2>1. /\ InProgress /\ inv.open = FALSE /\ inv'.open = TRUE /\ inv'.todo = inv.todo
        /\ inv'.entries = inv.entries /\ DOMAIN files' = DOMAIN files \cup {h}
        /\ inv.todo \in Seq(Ids) /\ inv.todo # << >>
    BY <1>3, RunStarts DEF SameInvocation, Progress
  <2>2. h = inv.todo[1] /\ 1 \in 1 .. Len(inv.todo)
    BY <2>1, NextRun
  <2> HIDE DEF h
  <2>3. QED
    BY <2>1, <2>2 DEF FreshInv
<1>4. CASE EndRun
  <2> DEFINE h == Head(inv.todo)
             rest == Tail(inv.todo)
  <2>1. /\ InProgress /\ inv'.todo = rest /\ DOMAIN files' = DOMAIN files
        /\ inv.todo \in Seq(Ids) /\ inv.todo # << >>
    BY <1>4, RunEnds DEF SameInvocation, Progress
  <2>2. /\ h = inv.todo[1] /\ 1 \in 1 .. Len(inv.todo)
        /\ \A k \in 1 .. Len(rest) : k + 1 \in 1 .. Len(inv.todo) /\ rest[k] = inv.todo[k + 1]
        /\ rest \in Seq(Ids)
    BY <2>1, NextRun
  <2>3. PICK e \in Endings : inv'.entries = inv.entries \cup {Entry(e)}
    BY <1>4, RunEnds
  <2>4. Entry(e).id = h
    BY DEF Entry
  <2>9. /\ \A j, k \in 1 .. Len(inv.todo) : inv.todo[j] = inv.todo[k] => j = k
        /\ \A k \in 1 .. Len(inv.todo) : inv.todo[k] \in DOMAIN files => k = 1
        /\ \A x \in inv.entries : \A k \in 1 .. Len(inv.todo) : inv.todo[k] # x.id
    BY <2>1 DEF FreshInv
  <2> HIDE DEF h, rest
  <2>5. \A j, k \in 1 .. Len(rest) : rest[j] = rest[k] => j = k
    <3> SUFFICES ASSUME NEW j \in 1 .. Len(rest), NEW k \in 1 .. Len(rest), rest[j] = rest[k]
                 PROVE  j = k
      OBVIOUS
    <3>1. j + 1 \in 1 .. Len(inv.todo) /\ k + 1 \in 1 .. Len(inv.todo)
          /\ inv.todo[j + 1] = inv.todo[k + 1]
      BY <2>2
    <3>2. j + 1 = k + 1
      BY <2>9, <3>1
    <3>3. QED
      BY <3>2
  <2>6. \A k \in 1 .. Len(rest) : rest[k] \notin DOMAIN files /\ rest[k] # h
    <3> SUFFICES ASSUME NEW k \in 1 .. Len(rest)
                 PROVE  rest[k] \notin DOMAIN files /\ rest[k] # h
      OBVIOUS
    <3>1. k + 1 \in 1 .. Len(inv.todo) /\ k + 1 # 1
      BY <2>2
    <3>2. QED
      BY <2>2, <2>9, <3>1
  <2>7. \A x \in inv'.entries : \A k \in 1 .. Len(rest) : rest[k] # x.id
    BY <2>2, <2>3, <2>4, <2>6, <2>9
  <2>8. QED
    BY <2>1, <2>5, <2>6, <2>7 DEF FreshInv
<1>5. CASE WriteManifest
  BY <1>5, ManifestIsWritten DEF FreshInv
<1>6. CASE Terminated
  BY <1>6, PodIsGone DEF FreshInv
<1>7. CASE Commit \/ UNCHANGED vars
  BY <1>7 DEF Commit, vars, dirVars, FreshInv, InProgress
<1>8. QED
  BY <1>1, <1>2, <1>3, <1>4, <1>5, <1>6, <1>7 DEF Next, Between

(* Only the open run's output is written.                                  *)
LEMMA OnlyTheOpenRun ==
  ASSUME TypeInv, OwnInv, FreshInv, [Next]_vars, NEW id \in DOMAIN files
  PROVE  /\ id \in DOMAIN files'
         /\ files'[id] # files[id] =>
              InProgress /\ inv.open /\ inv.todo # << >> /\ id = Head(inv.todo)
<1>1. ASSUME NEW label \in ToSet(Labels), NEW tier \in {"smoke", "full", "both"},
             Invoke(label, tier)
      PROVE  files' = files
  BY <1>1, InvocationBegins
<1>2. CASE StartRun
  <2>1. inv.todo \in Seq(Ids) /\ inv.todo # << >> /\ inv.open = FALSE /\ InProgress
    BY <1>2, RunStarts DEF SameInvocation, Progress
  <2>2. Head(inv.todo) = inv.todo[1] /\ 1 \in 1 .. Len(inv.todo)
    BY <2>1, NextRun
  <2>3. Head(inv.todo) \notin DOMAIN files
    BY <2>1, <2>2 DEF FreshInv
  <2>4. QED
    BY <1>2, <2>3, RunStarts
<1>3. CASE EndRun
  BY <1>3, RunEnds DEF SameInvocation
<1>4. CASE Terminated
  BY <1>4, PodIsGone
<1>5. CASE Between \/ WriteManifest \/ Commit \/ UNCHANGED vars
  <2>1. files' = files
    BY <1>5, RunsAreUp, ManifestIsWritten DEF Commit, vars, dirVars
  <2>2. QED
    BY <2>1
<1>6. QED
  BY <1>1, <1>2, <1>3, <1>4, <1>5 DEF Next, Between

(* Whatever a run leaves behind, if it passes the gate the parser calls it *)
(* correct.                                                                *)
LEMMA EndingsAgree ==
  ASSUME NEW e \in Endings, Gate(e)
  PROVE  e.exit \in {"zero", "unrecorded"} /\ e.out.trailer # "FAILED" /\ e.out.points = "right"
  BY DEF Endings, Gate, Passed

(* What is recorded stays agreed upon, as its output is not touched.       *)
LEMMA AgreeStep ==
  TypeInv /\ OwnInv /\ ManifestInv /\ FreshInv /\ AgreeInv /\ [Next]_vars => AgreeInv'
<1> SUFFICES ASSUME TypeInv, OwnInv, ManifestInv, FreshInv, AgreeInv, [Next]_vars
             PROVE  AgreeInv'
  OBVIOUS
<1>1. ASSUME NEW run, files'[run.id] = files[run.id]
      PROVE  Agreed(run)' <=> Agreed(run)
  BY <1>1 DEF Agreed, CorrectnessOk
<1>2. ASSUME InProgress, NEW e \in inv.entries, inv.open
      PROVE  e.id \in DOMAIN files /\ e.id # Head(inv.todo)
  <2>1. inv.todo \in Seq(Ids) /\ inv.todo # << >>
    BY <1>2 DEF OwnInv, TodoInv, TypeInv, InProgress, Idle, Progress
  <2>2. Head(inv.todo) = inv.todo[1] /\ 1 \in 1 .. Len(inv.todo)
    BY <2>1, NextRun
  <2>3. QED
    BY <1>2, <2>2 DEF FreshInv, OwnInv, EntriesInv, Of
<1>3. ASSUME NEW l \in DOMAIN manifests, NEW e \in manifests[l].runs
      PROVE  e.id \in DOMAIN files /\ files'[e.id] = files[e.id]
  <2>1. e.id \in Of(l) /\ (InProgress => inv.label # l)
    BY <1>3 DEF ManifestInv
  <2>2. e.id \in DOMAIN files /\ e.id.label = l
    BY <2>1 DEF Of
  <2>3. ASSUME InProgress, inv.open, inv.todo # << >>, e.id = Head(inv.todo)
        PROVE  FALSE
    <3>1. inv.todo \in Seq(Ids) /\ TodoInv
      BY <2>3 DEF OwnInv, TypeInv, InProgress, Idle, Progress
    <3>2. e.id = inv.todo[1] /\ 1 \in 1 .. Len(inv.todo)
      BY <2>3, <3>1, NextRun
    <3>3. QED
      BY <2>1, <2>2, <2>3, <3>1, <3>2 DEF TodoInv
  <2>4. QED
    BY <2>2, <2>3, OnlyTheOpenRun
<1>4. \A l \in DOMAIN manifests : \A e \in manifests[l].runs : Agreed(e)'
  BY <1>1, <1>3 DEF AgreeInv
<1>5. ASSUME InProgress, NEW e \in inv.entries
      PROVE  Agreed(e)'
  <2>1. e.id \in DOMAIN files
    BY <1>5 DEF OwnInv, EntriesInv, Of
  <2>2. files'[e.id] = files[e.id]
    BY <1>2, <1>5, <2>1, OnlyTheOpenRun
  <2>3. QED
    BY <1>1, <1>5, <2>2 DEF AgreeInv
<1>6. ASSUME manifests' = manifests, InProgress' => InProgress /\ inv'.entries = inv.entries
      PROVE  AgreeInv'
  BY <1>4, <1>5, <1>6 DEF AgreeInv
<1>7. ASSUME NEW label \in ToSet(Labels), NEW tier \in {"smoke", "full", "both"},
             Invoke(label, tier)
      PROVE  AgreeInv'
  BY <1>4, <1>7, InvocationBegins DEF AgreeInv
<1>8. CASE Between
  BY <1>6, <1>8, RunsAreUp DEF SameInvocation
<1>9. CASE StartRun
  BY <1>6, <1>9, RunStarts DEF SameInvocation
<1>10. CASE EndRun
  <2>1. InProgress /\ manifests' = manifests
    BY <1>10, RunEnds DEF SameInvocation
  <2>2. PICK e \in Endings : /\ files'[Head(inv.todo)].out = e.out
                             /\ inv'.entries = inv.entries \cup {Entry(e)}
    BY <1>10, RunEnds
  <2> DEFINE run == Entry(e)
  <2>3. run.id = Head(inv.todo) /\ run.gate = Gate(e) /\ run.exit = e.exit
    BY DEF Entry
  <2>4. \A x : x = run => Agreed(x)'
    <3> SUFFICES ASSUME NEW x, x = run PROVE Agreed(x)'
      OBVIOUS
    <3>1. files'[x.id].out = e.out /\ x.gate = Gate(e) /\ x.exit = e.exit
      BY <2>2, <2>3
    <3>2. QED
      BY <3>1, EndingsAgree DEF Agreed, CorrectnessOk
  <2> HIDE DEF run
  <2>5. QED
    BY <1>4, <1>5, <2>1, <2>2, <2>4 DEF AgreeInv, run
<1>11. CASE WriteManifest
  BY <1>4, <1>5, <1>11, ManifestIsWritten DEF AgreeInv
<1>12. CASE Terminated
  BY <1>6, <1>12, PodIsGone
<1>13. CASE Commit \/ UNCHANGED vars
  BY <1>6, <1>13 DEF Commit, vars, dirVars, InProgress
<1>14. QED
  BY <1>7, <1>8, <1>9, <1>10, <1>11, <1>12, <1>13 DEF Next, Between

(* With a full tier that has runs, no manifest is empty.                   *)
LEMMA ListedStep ==
  ASSUME FullRepeats # 0
  PROVE  TypeInv /\ OwnInv /\ ManifestInv /\ ListedInv /\ [Next]_vars => ListedInv'
<1> SUFFICES ASSUME TypeInv, OwnInv, ManifestInv, ListedInv, [Next]_vars PROVE ListedInv'
  OBVIOUS
<1> DEFINE Busy == InProgress =>
             /\ inv.phase \in Tiers => inv.todo # << >> \/ inv.entries # {}
             /\ inv.phase = "manifest" => inv.entries # {}
           Listed == \A l \in DOMAIN manifests :
             /\ manifests[l].runs # {}
             /\ \A id \in Of(l) : Recorded(id, manifests[l].runs)
<1>1. Busy /\ Listed /\ (Busy' /\ Listed' => ListedInv')
  BY DEF ListedInv
<1>2. ASSUME InProgress PROVE inv.label \notin DOMAIN manifests
  BY <1>1, <1>2 DEF ManifestInv
<1>3. ASSUME manifests' = manifests, \A l \in DOMAIN manifests : Of(l)' \subseteq Of(l)
      PROVE  Listed'
  BY <1>1, <1>3
<1>4. ASSUME NEW label \in ToSet(Labels), NEW tier \in {"smoke", "full", "both"},
             Invoke(label, tier)
      PROVE  Busy' /\ Listed'
  <2>1. Listed'
    BY <1>3, <1>4, InvocationBegins DEF Of
  <2>2. Busy'
    BY <1>4, InvocationBegins DEF Tiers
  <2>3. QED
    BY <2>1, <2>2
<1>5. CASE Between
  <2>1. Listed'
    BY <1>3, <1>5, RunsAreUp DEF Of
  <2>2. inv.label \in Names /\ inv'.entries = inv.entries /\ inv.todo = << >> /\ InProgress
    BY <1>5, RunsAreUp DEF SameInvocation, Progress
  <2>3. Busy'
    <3>1. CASE inv'.phase \in Tiers
      BY <1>5, <2>2, <3>1, RunsAreUp, SmokeRunsTyped, FullRunsTyped DEF Tiers
    <3>2. CASE inv'.phase \notin Tiers
      BY <1>1, <1>5, <2>2, <3>2, RunsAreUp DEF Tiers
    <3>3. QED
      BY <3>1, <3>2
  <2>4. QED
    BY <1>1, <2>1, <2>3
<1>6. CASE StartRun
  <2>1. Busy'
    BY <1>6, RunStarts DEF Tiers
  <2>2. inv.todo \in Seq(Ids) /\ inv.todo # << >> /\ TodoInv /\ InProgress
    BY <1>6, RunStarts DEF SameInvocation, Progress, OwnInv
  <2>3. Head(inv.todo).label = inv.label
    <3>1. Head(inv.todo) = inv.todo[1] /\ 1 \in 1 .. Len(inv.todo)
      BY <2>2, NextRun
    <3>2. QED
      BY <2>2, <3>1 DEF TodoInv
  <2>4. \A l \in DOMAIN manifests : Of(l)' \subseteq Of(l)
    BY <1>2, <1>6, <2>2, <2>3, RunStarts DEF Of
  <2>5. QED
    BY <1>1, <1>3, <1>6, <2>1, <2>4, RunStarts
<1>7. CASE EndRun
  <2>1. PICK e \in Endings : inv'.entries = inv.entries \cup {Entry(e)}
    BY <1>7, RunEnds
  <2>2. Busy'
    BY <2>1
  <2>3. QED
    BY <1>1, <1>3, <1>7, <2>2, RunEnds DEF Of
<1>8. CASE WriteManifest
  <2>1. EntriesInv /\ inv.entries # {}
    BY <1>1, <1>8, ManifestIsWritten DEF OwnInv
  <2>2. \A id \in Of(inv.label) : Recorded(id, inv.entries)
    BY <1>8, <2>1, ManifestIsWritten DEF EntriesInv
  <2>3. \A l : Of(l)' = Of(l)
    BY <1>8, ManifestIsWritten DEF Of
  <2>4. Listed'
    BY <1>1, <1>8, <2>1, <2>2, <2>3, ManifestIsWritten
  <2>5. QED
    BY <1>1, <1>8, <2>4, ManifestIsWritten
<1>9. CASE Terminated
  BY <1>1, <1>3, <1>9, PodIsGone DEF Of
<1>10. CASE Commit \/ UNCHANGED vars
  <2>1. inv' = inv /\ files' = files /\ manifests' = manifests
    BY <1>10 DEF Commit, vars, dirVars
  <2>2. QED
    BY <1>1, <1>3, <2>1 DEF Of, InProgress
<1>11. QED
  BY <1>1, <1>4, <1>5, <1>6, <1>7, <1>8, <1>9, <1>10 DEF Next, Between

-----------------------------------------------------------------------------
(* What every invocation keeps to: types, its own configuration, and the   *)
(* order of its tiers.                                                     *)
THEOREM InvocationsKeepApart ==
  Spec => [](TypeInv /\ OwnInv /\ ManifestInv /\ SmokeInv /\ SmokeGatesFull)
<1>1. Init => TypeInv /\ OwnInv /\ ManifestInv /\ SmokeInv /\ SmokeGatesFull
  <2> SUFFICES ASSUME Init PROVE TypeInv /\ OwnInv /\ ManifestInv /\ SmokeInv /\ SmokeGatesFull
    OBVIOUS
  <2>1. ~InProgress /\ DOMAIN files = {} /\ DOMAIN manifests = {}
    BY DEF Init, InProgress, Idle
  <2>2. TypeInv
    BY <2>1 DEF Init, TypeInv
  <2>3. QED
    BY <2>1, <2>2 DEF OwnInv, ManifestInv, SmokeInv, SmokeGatesFull
<1>2. QED
  BY <1>1, TypeStep, OwnStep, ManifestStep, SmokeStep, GatesStep, PTL DEF Spec

(* "The smoke tier gates the full tier", in every invocation on a          *)
(* directory, for any number of collectives, terminated wherever it may be.*)
THEOREM SmokeFirst == Spec => []SmokeGatesFull
  BY InvocationsKeepApart, PTL

(* What depends on every collective being named once.                      *)
THEOREM RunsAreNotRepeated ==
  ASSUME Distinct
  PROVE  Spec => [](FreshInv /\ AgreeInv)
<1>1. Init => FreshInv /\ AgreeInv
  <2>1. Init => ~InProgress /\ DOMAIN manifests = {}
    BY DEF Init, InProgress, Idle
  <2>2. QED
    BY <2>1 DEF FreshInv, AgreeInv
<1>2. TypeInv /\ OwnInv /\ FreshInv /\ [Next]_vars => FreshInv'
  BY FreshStep
<1>3. QED
  BY <1>1, <1>2, InvocationsKeepApart, AgreeStep, PTL DEF Spec

(* "results/raw is append-only": no step of any invocation, nor the        *)
(* termination of one, changes or removes an output but the one that is    *)
(* being written.                                                          *)
THEOREM OutputsAreKept ==
  ASSUME Distinct
  PROVE  Spec => OutputsAreNeverRewritten
<1> DEFINE Kept == \A id \in DOMAIN files :
             /\ id \in DOMAIN files'
             /\ files'[id] # files[id] => InProgress /\ inv.open /\ id = Head(inv.todo)
<1>1. TypeInv /\ OwnInv /\ FreshInv /\ [Next]_vars => [Kept]_vars
  BY OnlyTheOpenRun
<1> HIDE DEF Kept
<1>2. Spec => [][Kept]_vars
  BY <1>1, InvocationsKeepApart, RunsAreNotRepeated, PTL DEF Spec
<1>3. QED
  BY <1>2 DEF Kept, OutputsAreNeverRewritten

(* Every run that a manifest records as passed has correct rows, whatever  *)
(* later invocations did or were terminated in.                            *)
THEOREM PassedRunsAreParsed ==
  ASSUME Distinct
  PROVE  Spec => []PassedRunsHaveCorrectRows
<1>1. AgreeInv => PassedRunsHaveCorrectRows
  <2> SUFFICES ASSUME AgreeInv, NEW l \in DOMAIN manifests, NEW run \in manifests[l].runs,
                      run.gate
               PROVE  \E row \in Rows : row.id = run.id /\ row.correctness_ok
    BY DEF PassedRunsHaveCorrectRows
  <2> DEFINE row == [id |-> run.id, git_commit |-> CommitOfRows,
                     correctness_ok |-> CorrectnessOk(run)]
  <2>1. run \in ManifestRuns
    BY DEF ManifestRuns
  <2>2. run \in DiscoveredRuns
    BY <2>1 DEF DiscoveredRuns
  <2>3. CorrectnessOk(run)
    BY DEF AgreeInv, Agreed
  <2>4. files[run.id].out.points # "none"
    BY <2>3 DEF CorrectnessOk
  <2>5. row \in Rows
    BY <2>2, <2>4 DEF Rows
  <2>6. row.id = run.id /\ row.correctness_ok
    BY <2>3
  <2>7. QED
    BY <2>5, <2>6
<1>2. QED
  BY <1>1, RunsAreNotRepeated, PTL

(* In a finished experiment, the rows come from all outputs there are and  *)
(* from nothing else, in however many configurations.                      *)
THEOREM OutputsAreParsed ==
  ASSUME FullRepeats # 0
  PROVE  Spec => []EveryOutputIsParsed
<1>1. Init => ListedInv
  BY DEF Init, ListedInv, InProgress, Idle
<1>2. TypeInv /\ OwnInv /\ ManifestInv /\ ListedInv /\ [Next]_vars => ListedInv'
  BY ListedStep
<1>3. ManifestInv /\ ListedInv => EveryOutputIsParsed
  <2> SUFFICES ASSUME ManifestInv, ListedInv, Finished
               PROVE  {row.id : row \in Rows} = {id \in DOMAIN files : files[id].out.points # "none"}
    BY DEF EveryOutputIsParsed
  <2>1. {row.id : row \in Rows} =
          {run.id : run \in {run \in DiscoveredRuns : files[run.id].out.points # "none"}}
    <3> DEFINE S == {run \in DiscoveredRuns : files[run.id].out.points # "none"}
               made(run) == [id |-> run.id, git_commit |-> CommitOfRows,
                             correctness_ok |-> CorrectnessOk(run)]
    <3>1. Rows = {made(run) : run \in S}
      BY DEF Rows
    <3>2. \A run : made(run).id = run.id
      OBVIOUS
    <3> HIDE DEF S, made
    <3>3. {row.id : row \in Rows} = {run.id : run \in S}
      BY <3>1, <3>2
    <3>4. QED
      BY <3>3 DEF S
  <2>2. {run.id : run \in DiscoveredRuns} = DOMAIN files
    <3>1. CASE ManifestRuns = {}
      <4> DEFINE r(id) == [id |-> id, exit |-> "unrecorded"]
      <4>1. DiscoveredRuns = {r(id) : id \in DOMAIN files}
        BY <3>1 DEF DiscoveredRuns, Recovered
      <4>2. \A id : r(id).id = id
        OBVIOUS
      <4> HIDE DEF r
      <4>3. QED
        BY <4>1, <4>2
    <3>2. CASE ManifestRuns # {}
      <4>1. \A run \in ManifestRuns : run.id \in DOMAIN files
        BY DEF ManifestRuns, ManifestInv, Of
      <4>2. \A id \in DOMAIN files : \E run \in ManifestRuns : run.id = id
        BY DEF Finished, ManifestRuns, ListedInv, Of, Recorded
      <4>3. QED
        BY <3>2, <4>1, <4>2 DEF DiscoveredRuns
    <3>3. QED
      BY <3>1, <3>2
  <2>3. QED
    BY <2>1, <2>2
<1>4. QED
  BY <1>1, <1>2, <1>3, InvocationsKeepApart, PTL DEF Spec
=============================================================================
