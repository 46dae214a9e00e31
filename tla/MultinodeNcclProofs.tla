------------------------ MODULE MultinodeNcclProofs ------------------------
(***************************************************************************)
(* For any number of hosts and any request: run_nccl_multinode.sh measures *)
(* TCP baselines only, refuses none on account of its log, and reports     *)
(* success when everything asked for has passed.                           *)
(*                                                                         *)
(* The gate sees a log only.  What makes it see enough is that every line  *)
(* of the log is a line of some process, and that after a diagnostic run   *)
(* that has not failed all lines of all processes are there; what is left  *)
(* is a pigeonhole argument on hosts.                                      *)
(***************************************************************************)
EXTENDS MultinodeNccl, FiniteSetTheorems, SequenceTheorems, TLAPS

-----------------------------------------------------------------------------
(* Every line a process may print.                                         *)
LineSet ==
  [kind : {"rank"}, rank : Procs, host : Hosts] \cup
  [kind : {"using"}, net : Nets, iface : Interfaces] \cup
  [kind : {"via"}, net : Nets]
Has(s, line) == \E k \in 1 .. Len(s) : s[k] = line
Says(p, line) == Has(Lines(p), line)

Runs == [coll : STRING, tier : {"smoke", "full"}, rep : Nat]
Passed(run) == run \in DOMAIN outputs /\ outputs[run] = "passed"

TypeInv ==
  /\ launch \in Launches
  /\ phase \in {"new", "diag", "verify", "smoke", "full", "manifest", "over"}
  /\ tier \in {"smoke", "full", "both"}
  /\ asked \in Requests
  /\ printed \in [Procs -> Nat]
  /\ todo \in Seq(Runs)
  /\ failed \in Nat
  /\ DOMAIN outputs \subseteq Runs

(* The log is what has been printed, and nothing else.                     *)
LogInv ==
  /\ log \in Seq(LineSet)
  /\ \A p \in Procs : printed[p] <= Len(Lines(p))
  /\ \A i \in 1 .. Len(log) : \E p \in Procs : Says(p, log[i])
  /\ \A p \in Procs : \A k \in 1 .. printed[p] : \E i \in 1 .. Len(log) : log[i] = Lines(p)[k]
AllPrinted == \A p \in Procs : printed[p] = Len(Lines(p))

(* The gate has seen everything, and nothing passes it without its word.   *)
Welcome ==
  /\ Baseline(launch) /\ launch.reached # {}
  /\ \A p \in Procs : launch.iface[p] = Chosen
Timeable == BaselineInSight(launch) /\ (Connected(launch) => Baseline(launch))
GateInv ==
  /\ phase = "verify" => AllPrinted
  /\ phase \in {"new", "diag", "verify"} => verdict = "none"
  /\ verdict = "pass" => Timeable
  /\ verdict = "fail" => ~Welcome
  /\ phase \in {"smoke", "full", "manifest"} => verdict = "pass"
  /\ outputs # << >> => verdict = "pass"

(* The tiers follow each other, and what is not to be done any more has    *)
(* passed, or is counted as failed.                                        *)
TierInv ==
  /\ phase = "smoke" => tier \in {"smoke", "both"} /\ \A run \in ToSet(todo) : run.tier = "smoke"
  /\ phase = "full" => tier \in {"full", "both"} /\ \A run \in ToSet(todo) : run.tier = "full"
  /\ phase \in {"new", "diag", "verify", "smoke"} => \A run \in DOMAIN outputs : run.tier = "smoke"
  /\ phase = "full" /\ tier = "both" => \A run \in ToSet(SmokeRuns) : Passed(run)
CompleteInv ==
  failed = 0 =>
    /\ phase = "smoke" => \A run \in ToSet(SmokeRuns) : run \in ToSet(todo) \/ Passed(run)
    /\ phase = "full" => \A run \in ToSet(FullRuns) : run \in ToSet(todo) \/ Passed(run)
    /\ phase = "manifest" => \A run \in AllRuns : tier \in {run.tier, "both"} => Passed(run)
StatusInv ==
  status = "ok" => phase = "over"

-----------------------------------------------------------------------------
(* A set of natural numbers that is not empty has a least element.         *)
LEMMA Least ==
  ASSUME NEW T, T \subseteq Nat, T # {}
  PROVE  \E x \in T : \A y \in T : x <= y
<1> DEFINE R == OpToRel(<, Nat)
<1>1. IsWellFoundedOn(R, Nat)
  BY NatLessThanWellFounded
<1>2. PICK x \in T : \A y \in T : ~(<<y, x>> \in R)
  <2> HIDE DEF R
  <2>1. QED
    BY <1>1, WFMin
<1>3. \A y \in T : ~(y < x)
  <2>1. ASSUME NEW y \in T, y < x
        PROVE  <<y, x>> \in R
    <3>1. <<y, x>> \in Nat \X Nat
      OBVIOUS
    <3>2. QED
      BY <2>1, <3>1 DEF OpToRel
  <2>2. QED
    BY <1>2, <2>1
<1>4. QED
  BY <1>3

(* ... and one that is bounded has a maximum.                              *)
LEMMA MaxIsThere ==
  ASSUME NEW n \in Nat, NEW S, S \subseteq 0 .. n, S # {}
  PROVE  Max(S) \in S
<1> DEFINE T == {n - i : i \in S}
<1>1. T \subseteq Nat
  OBVIOUS
<1>2. T # {}
  OBVIOUS
<1>3. PICK x \in T : \A y \in T : x <= y
  <2> HIDE DEF T
  <2> QED
    BY <1>1, <1>2, Least
<1>4. PICK m \in S : x = n - m
  OBVIOUS
<1>5. \A i \in S : m >= i
  <2>1. \A i \in S : x <= n - i
    BY <1>3
  <2>2. QED
    BY <1>4, <2>1
<1>6. QED
  BY <1>5 DEF Max

(* What two sequences say, one after the other.                            *)
LEMMA SaidInTurn ==
  ASSUME NEW S, NEW s \in Seq(S), NEW t \in Seq(S), NEW x
  PROVE  Has(s \o t, x) <=> Has(s, x) \/ Has(t, x)
<1>1. /\ Len(s \o t) = Len(s) + Len(t) /\ Len(s) \in Nat /\ Len(t) \in Nat
      /\ \A k \in 1 .. Len(s) + Len(t) :
           (s \o t)[k] = IF k <= Len(s) THEN s[k] ELSE t[k - Len(s)]
  OBVIOUS
<1>2. ASSUME NEW k \in 1 .. Len(s), s[k] = x
      PROVE  \E j \in 1 .. Len(s \o t) : (s \o t)[j] = x
  BY <1>1, <1>2
<1>3. ASSUME NEW k \in 1 .. Len(t), t[k] = x
      PROVE  \E j \in 1 .. Len(s \o t) : (s \o t)[j] = x
  <2>1. Len(s) + k \in 1 .. Len(s \o t) /\ ~(Len(s) + k <= Len(s)) /\ (Len(s) + k) - Len(s) = k
    BY <1>1
  <2>2. QED
    BY <1>1, <1>3, <2>1
<1>4. ASSUME NEW k \in 1 .. Len(s \o t), (s \o t)[k] = x
      PROVE  (\E j \in 1 .. Len(s) : s[j] = x) \/ (\E j \in 1 .. Len(t) : t[j] = x)
  <2>1. CASE k <= Len(s)
    BY <1>1, <1>4, <2>1
  <2>2. CASE ~(k <= Len(s))
    <3>1. k - Len(s) \in 1 .. Len(t)
      BY <1>1, <2>2
    <3>2. QED
      BY <1>1, <1>4, <2>2, <3>1
  <2>3. QED
    BY <2>1, <2>2
<1>5. QED
  BY <1>2, <1>3, <1>4 DEF Has

-----------------------------------------------------------------------------
(* What the processes print, by kind of line: of networks only those speak *)
(* that the variables have reached.                                        *)
LEMMA WhatIsSaid ==
  ASSUME launch \in Launches, NEW p \in Procs
  PROVE  /\ Lines(p) \in Seq(LineSet)
         /\ \A x : Says(p, x) =>
              /\ x.kind \in {"rank", "using", "via"}
              /\ x.kind \in {"using", "via"} =>
                   p \in launch.reached /\ x.net = launch.net[p]
              /\ x.kind = "using" => x.iface = launch.iface[p]
              /\ x.kind = "rank" /\ launch.oneJob =>
                   x.rank \in Procs /\ x.host = launch.host[x.rank]
              /\ x.kind = "rank" /\ ~launch.oneJob => x.rank = 0
         /\ p \in launch.reached =>
              Says(p, [kind |-> "using", net |-> launch.net[p], iface |-> launch.iface[p]])
         /\ launch.oneJob /\ p = 0 => \A r \in Procs : Says(p, RankLine(r, launch.host[r]))
<1> DEFINE T == RankTable(p)
           B == Banner(p)
           C == Channels(p)
           u == [kind |-> "using", net |-> launch.net[p], iface |-> launch.iface[p]]
           v == [kind |-> "via", net |-> launch.net[p]]
<1>1. /\ NNodes \in Nat /\ 0 \in Procs
      /\ \A r \in Procs : launch.host[r] \in Hosts /\ launch.net[r] \in Nets
                          /\ launch.iface[r] \in Interfaces
  BY MultinodeAssumption DEF Procs, Launches
<1>2. \A r \in Procs : RankLine(r, launch.host[r]) \in LineSet
  BY <1>1 DEF RankLine, LineSet
<1>3. u \in LineSet /\ v \in LineSet
  BY <1>1 DEF LineSet
<1>4. T \in Seq(LineSet)
  <2>1. \A i \in 1 .. NNodes : i - 1 \in Procs
    BY <1>1 DEF Procs
  <2>2. [i \in 1 .. NNodes |-> RankLine(i - 1, launch.host[i - 1])] \in Seq(LineSet)
    BY <1>1, <1>2, <2>1
  <2>3. RankLine(0, launch.host[p]) \in LineSet
    BY <1>1 DEF RankLine, LineSet
  <2>4. QED
    BY <2>2, <2>3 DEF RankTable
<1>5. /\ B = IF p \in launch.reached THEN <<u>> ELSE << >>
      /\ B \in Seq(LineSet)
      /\ C = << >> \/ (p \in launch.reached /\ C = <<v>>)
      /\ C \in Seq(LineSet)
  BY <1>3 DEF Banner, Channels
<1>6. ASSUME NEW x
      PROVE  Says(p, x) <=> \/ Has(T, x)
                            \/ p \in launch.reached /\ x = u
                            \/ C = <<v>> /\ x = v
  <2>1. Has(B, x) <=> p \in launch.reached /\ x = u
    <3>1. CASE p \in launch.reached
      BY <1>5, <3>1 DEF Has
    <3>2. CASE p \notin launch.reached
      BY <1>5, <3>2 DEF Has
    <3> QED
      BY <3>1, <3>2
  <2>2. Has(C, x) <=> C = <<v>> /\ x = v
    <3>1. CASE C = << >>
      <4> HIDE DEF C
      <4> QED
        BY <3>1 DEF Has
    <3>2. CASE C = <<v>>
      <4> HIDE DEF C
      <4> QED
        BY <3>2 DEF Has
    <3> QED
      BY <1>5, <3>1, <3>2
  <2> HIDE DEF T, B, C, u, v
  <2>3. Has(T \o B, x) <=> Has(T, x) \/ Has(B, x)
    BY <1>4, <1>5, SaidInTurn
  <2>4. T \o B \in Seq(LineSet)
    BY <1>4, <1>5
  <2>5. Has((T \o B) \o C, x) <=> Has(T \o B, x) \/ Has(C, x)
    BY <1>5, <2>4, SaidInTurn
  <2>6. Says(p, x) <=> Has((T \o B) \o C, x)
    BY DEF Says, Lines, T, B, C
  <2>7. QED
    BY <2>1, <2>2, <2>3, <2>5, <2>6
<1>7. Lines(p) \in Seq(LineSet)
  BY <1>4, <1>5 DEF Lines
<1>8. ASSUME NEW k \in 1 .. Len(T)
      PROVE  /\ T[k].kind = "rank"
             /\ launch.oneJob => T[k].rank \in Procs /\ T[k].host = launch.host[T[k].rank]
             /\ ~launch.oneJob => T[k].rank = 0
  <2>1. CASE ~launch.oneJob
    BY <2>1 DEF RankTable, RankLine
  <2>2. CASE launch.oneJob
    <3>1. T = [i \in 1 .. NNodes |-> RankLine(i - 1, launch.host[i - 1])] /\ Len(T) = NNodes
      BY <1>1, <2>2 DEF RankTable
    <3>2. k - 1 \in Procs
      BY <1>1, <3>1 DEF Procs
    <3>3. T[k] = RankLine(k - 1, launch.host[k - 1])
      <4>1. k \in 1 .. NNodes
        BY <3>1
      <4> HIDE DEF T
      <4>2. QED
        BY <3>1, <4>1
    <3> HIDE DEF T
    <3>4. QED
      BY <2>2, <3>2, <3>3 DEF RankLine
  <2>3. QED
    BY <2>1, <2>2
<1>9. ASSUME launch.oneJob, p = 0, NEW r \in Procs
      PROVE  Says(p, RankLine(r, launch.host[r]))
  <2>1. T = [i \in 1 .. NNodes |-> RankLine(i - 1, launch.host[i - 1])] /\ Len(T) = NNodes
    BY <1>1, <1>9 DEF RankTable
  <2>2. r + 1 \in 1 .. NNodes /\ (r + 1) - 1 = r
    BY <1>1 DEF Procs
  <2>3. T[r + 1] = RankLine(r, launch.host[r])
    BY <2>1, <2>2
  <2>4. Has(T, RankLine(r, launch.host[r]))
    BY <2>1, <2>2, <2>3 DEF Has
  <2>5. QED
    BY <1>6, <2>4
<1>10. C = <<v>> => p \in launch.reached
  BY <1>5
<1>11. QED
  <2> HIDE DEF T, B, C
  <2>1. QED
    BY <1>6, <1>7, <1>8, <1>9, <1>10 DEF Has

(* After the diagnostic the log is what the processes say.                 *)
LEMMA LogIsComplete ==
  ASSUME LogInv, AllPrinted, NEW x
  PROVE  (\E i \in 1 .. Len(log) : log[i] = x) <=> \E p \in Procs : Says(p, x)
BY DEF LogInv, AllPrinted, Says, Has

(* One job names each rank, on its host.                                   *)
LEMMA OneJobIsSeen ==
  ASSUME launch \in Launches, LogInv, AllPrinted, launch.oneJob
  PROVE  HostsSeen = {launch.host[r] : r \in Procs}
<1> DEFINE J(r) == {i \in LinesOf("rank") : log[i].rank = r}
<1>1. Len(log) \in Nat /\ 0 \in Procs
  BY MultinodeAssumption DEF LogInv, Procs
<1>2. \A i \in LinesOf("rank") :
        log[i].rank \in Procs /\ log[i].host = launch.host[log[i].rank]
  <2>1. \A i \in LinesOf("rank") : i \in 1 .. Len(log) /\ log[i].kind = "rank"
    BY DEF LinesOf
  <2>2. \A i \in 1 .. Len(log) : \E p \in Procs : Says(p, log[i])
    BY DEF LogInv
  <2>3. QED
    BY <2>1, <2>2, WhatIsSaid
<1>3. ASSUME NEW r \in Procs
      PROVE  J(r) # {} /\ J(r) \subseteq 0 .. Len(log)
  <2>1. Says(0, RankLine(r, launch.host[r]))
    BY <1>1, WhatIsSaid
  <2>2. PICK i \in 1 .. Len(log) : log[i] = RankLine(r, launch.host[r])
    BY <1>1, <2>1, LogIsComplete
  <2>3. i \in J(r)
    BY <2>2 DEF LinesOf, RankLine
  <2>4. QED
    BY <1>1, <2>3 DEF LinesOf
<1>4. {log[i].rank : i \in LinesOf("rank")} = Procs
  <2>1. \A r \in Procs : \E i \in LinesOf("rank") : log[i].rank = r
    BY <1>3
  <2>2. QED
    BY <1>2, <2>1
<1>5. ASSUME NEW r \in Procs
      PROVE  RankToHost[r] = launch.host[r]
  <2>1. Max(J(r)) \in J(r)
    <3> HIDE DEF J
    <3>1. QED
      BY <1>1, <1>3, MaxIsThere
  <2>2. RankToHost[r] = log[Max(J(r))].host
    BY <1>4 DEF RankToHost
  <2>3. Max(J(r)) \in LinesOf("rank") /\ log[Max(J(r))].rank = r
    BY <2>1
  <2>4. QED
    BY <1>2, <2>2, <2>3
<1>6. DOMAIN RankToHost = Procs
  BY <1>4 DEF RankToHost
<1>7. QED
  BY <1>5, <1>6 DEF HostsSeen

(* There are as many hosts as ranks exactly when no two ranks share one.   *)
LEMMA HostsOfRanks ==
  ASSUME launch \in Launches
  PROVE  /\ Cardinality({launch.host[r] : r \in Procs}) <= NNodes
         /\ Cardinality({launch.host[r] : r \in Procs}) = NNodes <=>
              \A p, q \in Procs : launch.host[p] = launch.host[q] => p = q
         /\ Cardinality({launch.host[r] : r \in Procs}) \in Nat
<1> DEFINE f == launch.host
           H == {f[r] : r \in Procs}
<1>1. f \in [Procs -> Hosts]
  BY DEF Launches
<1>2. IsFiniteSet(Procs) /\ Cardinality(Procs) = NNodes
  <2>1. NNodes \in Nat /\ NNodes >= 2
    BY MultinodeAssumption
  <2>2. IsFiniteSet(0 .. NNodes - 1)
        /\ Cardinality(0 .. NNodes - 1) =
             IF 0 > NNodes - 1 THEN 0 ELSE (NNodes - 1) - 0 + 1
    BY <2>1, FS_Interval
  <2>3. QED
    BY <2>1, <2>2 DEF Procs
<1>3. f \in Surjection(Procs, H)
  BY <1>1 DEF Surjection
<1>4. /\ IsFiniteSet(H) /\ Cardinality(H) <= Cardinality(Procs)
      /\ Cardinality(H) = Cardinality(Procs) <=> f \in Injection(Procs, H)
  <2> HIDE DEF f, H
  <2>1. QED
    BY <1>2, <1>3, FS_Surjection
<1>5. f \in Injection(Procs, H) <=> \A p, q \in Procs : f[p] = f[q] => p = q
  BY <1>1 DEF Injection, IsInjective
<1>6. Cardinality(H) \in Nat
  <2> HIDE DEF H
  <2>1. QED
    BY <1>4, FS_CardinalityType
<1> HIDE DEF H
<1>7. QED
  BY <1>2, <1>4, <1>5, <1>6 DEF H

(* The gate lets baselines pass only: those who speak are on sockets, and  *)
(* so is a silent one that shares a network with them ...                  *)
LEMMA VerifiedIsBaseline ==
  ASSUME launch \in Launches, LogInv, AllPrinted, Verified
  PROVE  Timeable
<1>1. NNodes \in Nat /\ NNodes >= 2
  BY MultinodeAssumption
<1>2. Seen \subseteq {"Socket"} /\ Cardinality(HostsSeen) >= NNodes
  BY DEF Verified, NoCompetingNet, SpansNodes
<1>3. launch.oneJob
  <2> SUFFICES ASSUME ~launch.oneJob PROVE FALSE
    OBVIOUS
  <2>1. \A i \in LinesOf("rank") : log[i].rank = 0
    <3>1. \A i \in LinesOf("rank") : i \in 1 .. Len(log) /\ log[i].kind = "rank"
      BY DEF LinesOf
    <3>2. \A i \in 1 .. Len(log) : \E p \in Procs : Says(p, log[i])
      BY DEF LogInv
    <3>3. QED
      BY <3>1, <3>2, WhatIsSaid
  <2>2. HostsSeen \subseteq {RankToHost[0]}
    BY <2>1 DEF HostsSeen, RankToHost
  <2>3. IsFiniteSet({RankToHost[0]}) /\ Cardinality({RankToHost[0]}) = 1
    BY FS_Singleton
  <2>4. Cardinality(HostsSeen) <= 1 /\ IsFiniteSet(HostsSeen)
    BY <2>2, <2>3, FS_Subset
  <2>5. Cardinality(HostsSeen) \in Nat
    BY <2>4, FS_CardinalityType
  <2>6. QED
    BY <1>1, <1>2, <2>4, <2>5
<1>4. \A p, q \in Procs : launch.host[p] = launch.host[q] => p = q
  <2>1. Cardinality(HostsSeen) <= NNodes /\ Cardinality(HostsSeen) \in Nat
    BY <1>3, OneJobIsSeen, HostsOfRanks
  <2>2. Cardinality(HostsSeen) = NNodes
    BY <1>1, <1>2, <2>1
  <2>3. QED
    BY <1>3, <2>2, OneJobIsSeen, HostsOfRanks
<1>5. ASSUME NEW p \in launch.reached
      PROVE  p \in Procs /\ launch.net[p] = "Socket"
  <2> DEFINE u == [kind |-> "using", net |-> launch.net[p], iface |-> launch.iface[p]]
  <2>1. p \in Procs
    BY DEF Launches
  <2>2. PICK i \in 1 .. Len(log) : log[i] = u
    <3>1. Says(p, u)
      BY <2>1, WhatIsSaid
    <3> HIDE DEF u
    <3>2. QED
      BY <2>1, <3>1, LogIsComplete
  <2>3. launch.net[p] \in Seen
    BY <2>2 DEF Seen, LinesOf
  <2>4. QED
    BY <1>2, <2>1, <2>3
<1>6. launch.reached # {}
  <2>1. PICK i \in LinesOf("via") \cup LinesOf("using") : log[i].net = "Socket"
    BY DEF Verified, WantedPresent, Seen
  <2>2. i \in 1 .. Len(log) /\ log[i].kind \in {"using", "via"}
    BY <2>1 DEF LinesOf
  <2>3. PICK p \in Procs : Says(p, log[i])
    BY <2>2 DEF LogInv
  <2>4. QED
    BY <2>2, <2>3, WhatIsSaid
<1>7. ASSUME Connected(launch), NEW q \in Procs
      PROVE  launch.net[q] = "Socket"
  <2>1. PICK p \in launch.reached : p \in Procs /\ launch.net[p] = "Socket"
    BY <1>5, <1>6
  <2>2. QED
    BY <1>4, <1>7, <2>1 DEF Connected
<1>8. QED
  BY <1>3, <1>4, <1>5, <1>7 DEF Timeable, BaselineInSight, Baseline

(* ... and every one on the chosen interface.                              *)
LEMMA WelcomeIsVerified ==
  ASSUME launch \in Launches, LogInv, AllPrinted, Welcome
  PROVE  Verified
<1>1. Baseline(launch) /\ \A p \in Procs : launch.iface[p] = Chosen
  BY DEF Welcome
<1>2. PICK q \in launch.reached : q \in Procs
  BY DEF Welcome, Launches
<1>3. PICK i \in 1 .. Len(log) :
        log[i] = [kind |-> "using", net |-> launch.net[q], iface |-> launch.iface[q]]
  <2> DEFINE u == [kind |-> "using", net |-> launch.net[q], iface |-> launch.iface[q]]
  <2>1. Says(q, u)
    BY <1>2, WhatIsSaid
  <2> HIDE DEF u
  <2>2. \E i \in 1 .. Len(log) : log[i] = u
    BY <1>2, <2>1, LogIsComplete
  <2>3. QED
    BY <2>2 DEF u
<1>4. i \in LinesOf("using") /\ log[i].net = "Socket" /\ log[i].iface = Chosen
  BY <1>1, <1>2, <1>3 DEF LinesOf, Baseline
<1>5. WantedPresent /\ InterfaceConfirmed
  BY <1>4 DEF WantedPresent, Seen, InterfaceConfirmed, SocketInterfaces
<1>6. NoCompetingNet
  <2>1. \A j \in LinesOf("via") \cup LinesOf("using") :
          j \in 1 .. Len(log) /\ log[j].kind \in {"via", "using"}
    BY DEF LinesOf
  <2>2. \A j \in 1 .. Len(log) : \E p \in Procs : Says(p, log[j])
    BY DEF LogInv
  <2>3. ASSUME NEW j \in LinesOf("via") \cup LinesOf("using")
        PROVE  \E p \in Procs : log[j].net = launch.net[p]
    <3>1. PICK p \in Procs : Says(p, log[j])
      BY <2>1, <2>2
    <3>2. log[j].kind \in {"using", "via"}
      BY <2>1
    <3>3. QED
      BY <3>1, <3>2, WhatIsSaid
  <2>4. QED
    BY <1>1, <2>3 DEF NoCompetingNet, Seen, Baseline
<1>7. SpansNodes
  <2>1. HostsSeen = {launch.host[r] : r \in Procs}
    BY <1>1, OneJobIsSeen DEF Baseline
  <2>2. Cardinality(HostsSeen) = NNodes
    BY <1>1, <2>1, HostsOfRanks DEF Baseline
  <2>3. QED
    BY <2>2, MultinodeAssumption DEF SpansNodes
<1>8. QED
  BY <1>5, <1>6, <1>7 DEF Verified

-----------------------------------------------------------------------------
(* The tiers: what is asked for, and how often.                            *)
LEMMA TiersOfTheRequest ==
  ASSUME asked \in Requests
  PROVE  /\ SmokeRuns \in Seq(Runs) /\ \A run \in ToSet(SmokeRuns) : run.tier = "smoke"
         /\ FullRuns \in Seq(Runs) /\ \A run \in ToSet(FullRuns) : run.tier = "full"
<1> DEFINE L == Len(asked)
<1>1. asked \in Seq(STRING) /\ L \in Nat \ {0} /\ FullRepeats \in Nat
  BY MultinodeAssumption
<1>2. SmokeRuns \in Seq(Runs) /\ \A run \in ToSet(SmokeRuns) : run.tier = "smoke"
  <2>1. \A i \in 1 .. L : Run(asked[i], "smoke", 0) \in Runs
    BY <1>1 DEF Run, Runs
  <2>2. SmokeRuns \in Seq(Runs)
    BY <1>1, <2>1 DEF SmokeRuns
  <2>3. QED
    BY <2>2 DEF SmokeRuns, ToSet, Run
<1>3. FullRuns \in Seq(Runs) /\ \A run \in ToSet(FullRuns) : run.tier = "full"
  <2>1. FullRepeats * L \in Nat
    BY <1>1
  <2>2. \A k \in Nat : k % L \in 0 .. L - 1 /\ k \div L \in Nat
    BY <1>1
  <2>3. ASSUME NEW i \in 1 .. FullRepeats * L
        PROVE  Run(asked[((i - 1) % L) + 1], "full", (i - 1) \div L) \in Runs
    <3>1. i - 1 \in Nat
      BY <2>1
    <3>2. ((i - 1) % L) + 1 \in 1 .. L /\ (i - 1) \div L \in Nat
      <4> DEFINE k == i - 1
      <4>1. k % L \in 0 .. L - 1 /\ k \div L \in Nat
        BY <2>2, <3>1
      <4> DEFINE m == k % L
                 d == k \div L
      <4> HIDE DEF L, k, m
      <4>2. m \in 0 .. L - 1
        BY <4>1 DEF m
      <4>3. m + 1 \in 1 .. L
        BY <1>1, <4>2
      <4>4. QED
        BY <4>1, <4>3 DEF m, k
    <3>3. QED
      BY <1>1, <3>2 DEF Run, Runs
  <2> HIDE DEF L
  <2>4. FullRuns = [i \in 1 .. FullRepeats * L |->
                      Run(asked[((i - 1) % L) + 1], "full", (i - 1) \div L)]
    BY DEF FullRuns, L
  <2>5. FullRuns \in Seq(Runs)
    BY <2>1, <2>3, <2>4
  <2>6. QED
    BY <2>4, <2>5 DEF ToSet, Run
<1>4. QED
  BY <1>2, <1>3

(* A run that is done is no longer to be done; the others are.             *)
LEMMA NextRun ==
  ASSUME todo \in Seq(Runs), todo # << >>
  PROVE  /\ Head(todo) \in Runs /\ Tail(todo) \in Seq(Runs)
         /\ ToSet(todo) = {Head(todo)} \cup ToSet(Tail(todo))
<1>1. /\ Len(todo) \in Nat \ {0} /\ Len(Tail(todo)) = Len(todo) - 1
      /\ \A i \in 1 .. Len(todo) - 1 : Tail(todo)[i] = todo[i + 1]
      /\ Head(todo) = todo[1] /\ Tail(todo) \in Seq(Runs) /\ Head(todo) \in Runs
  OBVIOUS
<1>2. ToSet(todo) = {todo[i] : i \in 1 .. Len(todo)}
      /\ ToSet(Tail(todo)) = {Tail(todo)[i] : i \in 1 .. Len(todo) - 1}
  <2>1. DOMAIN todo = 1 .. Len(todo) /\ DOMAIN Tail(todo) = 1 .. Len(Tail(todo))
    BY <1>1
  <2>2. QED
    BY <1>1, <2>1 DEF ToSet
<1>3. ASSUME NEW i \in 1 .. Len(todo), i # 1
      PROVE  todo[i] \in ToSet(Tail(todo))
  <2>1. i - 1 \in 1 .. Len(todo) - 1 /\ (i - 1) + 1 = i
    BY <1>1, <1>3
  <2>2. QED
    BY <1>1, <1>2, <2>1
<1>4. ASSUME NEW i \in 1 .. Len(todo) - 1
      PROVE  Tail(todo)[i] \in ToSet(todo)
  BY <1>1, <1>2
<1>5. ToSet(todo) \subseteq {Head(todo)} \cup ToSet(Tail(todo))
  BY <1>1, <1>2, <1>3
<1>6. {Head(todo)} \cup ToSet(Tail(todo)) \subseteq ToSet(todo)
  BY <1>1, <1>2, <1>4
<1>7. QED
  BY <1>1, <1>5, <1>6

(* Types.                                                                  *)
LEMMA TypeStep == TypeInv /\ [Next]_vars => TypeInv'
<1> SUFFICES ASSUME TypeInv, [Next]_vars PROVE TypeInv'
  OBVIOUS
<1> USE DEF TypeInv, argVars, diagVars, runVars
<1>1. CASE Invoke
  BY <1>1 DEF Invoke
<1>2. ASSUME NEW p \in Procs, PrintLine(p)
      PROVE  TypeInv'
  <2>1. printed' \in [Procs -> Nat]
    BY <1>2 DEF PrintLine
  <2>2. QED
    BY <1>2, <2>1 DEF PrintLine
<1>3. ASSUME NEW p \in Procs, Die(p)
      PROVE  TypeInv'
  BY <1>3 DEF Die
<1>4. CASE DiagnosticFails
  BY <1>4 DEF DiagnosticFails, Abort
<1>5. CASE DiagnosticEnds
  BY <1>5 DEF DiagnosticEnds
<1>6. CASE Verify
  BY <1>6, TiersOfTheRequest DEF Verify, Abort
<1>7. CASE NoBinary
  BY <1>7, NextRun DEF NoBinary, InTier
<1>8. CASE StartRun
  BY <1>8, NextRun DEF StartRun, InTier
<1>9. CASE EndRun
  <2>1. DOMAIN outputs' = DOMAIN outputs /\ failed' \in Nat
    BY <1>9 DEF EndRun
  <2>2. QED
    BY <1>9, <2>1, NextRun DEF EndRun, InTier
<1>10. CASE EndSmoke
  BY <1>10, TiersOfTheRequest DEF EndSmoke
<1>11. CASE EndFull
  BY <1>11 DEF EndFull
<1>12. CASE WriteManifest
  BY <1>12 DEF WriteManifest
<1>13. CASE Terminated
  BY <1>13 DEF Terminated
<1>14. CASE UNCHANGED vars
  BY <1>14 DEF vars
<1>15. QED
  BY <1>1, <1>2, <1>3, <1>4, <1>5, <1>6, <1>7, <1>8, <1>9, <1>10, <1>11, <1>12, <1>13, <1>14
     DEF Next

(* The log is printed line by line.                                        *)
LEMMA LogStep == TypeInv /\ LogInv /\ [Next]_vars => LogInv'
<1> SUFFICES ASSUME TypeInv, LogInv, [Next]_vars PROVE LogInv'
  OBVIOUS
<1>1. CASE UNCHANGED <<launch, printed, log>>
  <2>1. \A p \in Procs : Lines(p)' = Lines(p)
    BY <1>1 DEF Lines, RankTable, Banner, Channels
  <2>2. QED
    BY <1>1, <2>1 DEF LogInv, Says
<1>2. ASSUME NEW p \in Procs, PrintLine(p)
      PROVE  LogInv'
  <2> DEFINE line == Lines(p)[printed[p] + 1]
  <2>1. \A q \in Procs : Lines(q)' = Lines(q)
    BY <1>2 DEF PrintLine, Lines, RankTable, Banner, Channels
  <2>2. Lines(p) \in Seq(LineSet) /\ printed \in [Procs -> Nat]
    BY WhatIsSaid DEF TypeInv
  <2>3. printed[p] + 1 \in 1 .. Len(Lines(p)) /\ line \in LineSet
    BY <1>2, <2>2 DEF PrintLine
  <2>4. log' = Append(log, line) /\ printed' = [printed EXCEPT ![p] = @ + 1]
    BY <1>2 DEF PrintLine
  <2>5. /\ log \in Seq(LineSet) /\ log' \in Seq(LineSet)
        /\ Len(log) \in Nat /\ Len(log') = Len(log) + 1 /\ log'[Len(log) + 1] = line
        /\ \A i \in 1 .. Len(log) : log'[i] = log[i]
    BY <2>3, <2>4 DEF LogInv
  <2>6. \A q \in Procs : printed'[q] <= Len(Lines(q))
    BY <2>2, <2>3, <2>4 DEF LogInv
  <2>7. \A i \in 1 .. Len(log') : \E q \in Procs : Says(q, log'[i])
    <3>1. Says(p, line)
      BY <2>3 DEF Says, Has
    <3>2. \A i \in 1 .. Len(log) : \E q \in Procs : Says(q, log[i])
      BY DEF LogInv
    <3> HIDE DEF line
    <3>3. QED
      BY <2>5, <3>1, <3>2
  <2>8. \A q \in Procs : \A k \in 1 .. printed'[q] : \E i \in 1 .. Len(log') : log'[i] = Lines(q)[k]
    <3> SUFFICES ASSUME NEW q \in Procs, NEW k \in 1 .. printed'[q]
                 PROVE  \E i \in 1 .. Len(log') : log'[i] = Lines(q)[k]
      OBVIOUS
    <3>1. CASE k \in 1 .. printed[q]
      <4>1. PICK i \in 1 .. Len(log) : log[i] = Lines(q)[k]
        BY <3>1 DEF LogInv
      <4>2. QED
        BY <2>5, <4>1
    <3>2. CASE k \notin 1 .. printed[q]
      <4>1. q = p /\ k = printed[p] + 1
        BY <2>2, <2>4, <3>2
      <4>2. Len(log) + 1 \in 1 .. Len(log')
        BY <2>5
      <4>3. QED
        BY <2>5, <4>1, <4>2
    <3>3. QED
      BY <3>1, <3>2
  <2>9. QED
    BY <2>1, <2>5, <2>6, <2>7, <2>8 DEF LogInv, Says
<1>3. QED
  BY <1>1, <1>2
     DEF Next, vars, argVars, diagVars, Invoke, Die, DiagnosticFails, DiagnosticEnds, Verify,
         NoBinary, StartRun, EndRun, EndSmoke, EndFull, WriteManifest, Terminated

(* Nothing passes the gate without its word, which is true.                *)
LEMMA GateStep == TypeInv /\ LogInv /\ GateInv /\ [Next]_vars => GateInv'
<1> SUFFICES ASSUME TypeInv, LogInv, GateInv, [Next]_vars PROVE GateInv'
  OBVIOUS
<1>1. launch' = launch /\ (Timeable' <=> Timeable) /\ (Welcome' <=> Welcome)
  <2>1. launch' = launch
    BY DEF Next, vars, Invoke, PrintLine, Die, DiagnosticFails, DiagnosticEnds, Verify,
           NoBinary, StartRun, EndRun, EndSmoke, EndFull, WriteManifest, Terminated
  <2>2. QED
    BY <2>1 DEF Timeable, BaselineInSight, Connected, Baseline, Welcome
<1>2. CASE DiagnosticEnds
  <2>1. AllPrinted /\ printed' = printed
    BY <1>2 DEF DiagnosticEnds, AllPrinted, diagVars
  <2>2. AllPrinted'
    BY <1>1, <2>1 DEF AllPrinted, Lines, RankTable, Banner, Channels
  <2>3. QED
    BY <1>1, <1>2, <2>2 DEF GateInv, DiagnosticEnds, runVars
<1>3. CASE Verify
  <2>1. AllPrinted /\ launch \in Launches
    BY <1>3 DEF Verify, GateInv, TypeInv
  <2>2. Verified => Timeable
    BY <2>1, VerifiedIsBaseline
  <2>3. Welcome => Verified
    BY <2>1, WelcomeIsVerified
  <2>4. CASE Verified
    <3>1. verdict' = "pass" /\ phase' \in {"smoke", "full"} /\ outputs' = outputs
      BY <1>3, <2>4 DEF Verify
    <3>2. QED
      BY <1>1, <2>2, <2>4, <3>1 DEF GateInv
  <2>5. CASE ~Verified
    <3>1. verdict' = "fail" /\ phase' = "over" /\ outputs' = outputs
      BY <1>3, <2>5 DEF Verify, Abort, runVars
    <3>2. outputs = << >>
      BY <2>1, <2>5, <1>3 DEF GateInv, Verify
    <3>3. QED
      BY <1>1, <2>3, <2>5, <3>1, <3>2 DEF GateInv
  <2>6. QED
    BY <2>4, <2>5
<1>4. CASE NoBinary \/ StartRun \/ EndRun
  BY <1>1, <1>4 DEF NoBinary, StartRun, EndRun, InTier, GateInv
<1>5. CASE Invoke \/ DiagnosticFails
  BY <1>1, <1>5 DEF Invoke, DiagnosticFails, Abort, GateInv, runVars
<1>6. ASSUME NEW p \in Procs, PrintLine(p) \/ Die(p)
      PROVE  GateInv'
  BY <1>1, <1>6 DEF PrintLine, Die, GateInv, runVars
<1>7. CASE EndSmoke \/ EndFull \/ WriteManifest \/ Terminated
  BY <1>1, <1>7 DEF EndSmoke, EndFull, WriteManifest, Terminated, GateInv, runVars
<1>8. CASE UNCHANGED vars
  BY <1>1, <1>8
     DEF vars, diagVars, runVars, GateInv, AllPrinted, Lines, RankTable, Banner, Channels
<1>9. QED
  BY <1>2, <1>3, <1>4, <1>5, <1>6, <1>7, <1>8 DEF Next

(* A run of the tier in progress ends, and nothing else of what has passed *)
(* is touched.                                                             *)
LEMMA OneRunAtATime ==
  ASSUME TypeInv, NoBinary \/ StartRun \/ EndRun
  PROVE  /\ phase \in {"smoke", "full"} /\ todo # << >> /\ phase' = phase /\ status' = status
         /\ tier' = tier /\ asked' = asked
         /\ DOMAIN outputs \subseteq DOMAIN outputs'
         /\ DOMAIN outputs' \subseteq DOMAIN outputs \cup {Head(todo)}
         /\ Head(todo) \in ToSet(todo) /\ ToSet(todo') \subseteq ToSet(todo)
         /\ \A run : run # Head(todo) => (Passed(run)' <=> Passed(run))
         /\ failed' = 0 => failed = 0
         /\ \A run \in ToSet(todo) : failed' = 0 => run \in ToSet(todo') \/ Passed(run)'
<1>1. /\ phase \in {"smoke", "full"} /\ todo # << >> /\ todo \in Seq(Runs) /\ failed \in Nat
      /\ phase' = phase /\ status' = status /\ tier' = tier /\ asked' = asked
  BY DEF NoBinary, StartRun, EndRun, InTier, TypeInv, argVars
<1>2. ToSet(todo) = {Head(todo)} \cup ToSet(Tail(todo))
  BY <1>1, NextRun
<1>3. CASE NoBinary
  <2>1. todo' = Tail(todo) /\ failed' = failed + 1 /\ outputs' = outputs
    BY <1>3 DEF NoBinary
  <2>2. failed' # 0
    BY <1>1, <2>1
  <2>3. QED
    BY <1>1, <1>2, <2>1, <2>2 DEF Passed
<1>4. CASE StartRun
  <2>1. /\ todo' = todo /\ failed' = failed
        /\ outputs' = [run \in DOMAIN outputs \cup {Head(todo)} |->
                         IF run = Head(todo) THEN "running" ELSE outputs[run]]
    BY <1>4 DEF StartRun
  <2>2. QED
    BY <1>1, <1>2, <2>1 DEF Passed
<1>5. CASE EndRun
  <2>1. PICK end \in {"passed", "failed"} :
          /\ outputs' = [outputs EXCEPT ![Head(todo)] = end]
          /\ failed' = failed + (IF end = "failed" THEN 1 ELSE 0)
    BY <1>5 DEF EndRun
  <2>2. todo' = Tail(todo) /\ Head(todo) \in DOMAIN outputs
    BY <1>5 DEF EndRun
  <2>3. DOMAIN outputs' = DOMAIN outputs /\ outputs'[Head(todo)] = end
        /\ \A run \in DOMAIN outputs : run # Head(todo) => outputs'[run] = outputs[run]
    BY <2>1, <2>2
  <2>4. failed' = 0 => failed = 0 /\ end = "passed"
    BY <1>1, <2>1
  <2>5. QED
    BY <1>1, <1>2, <2>2, <2>3, <2>4 DEF Passed
<1>6. QED
  BY <1>3, <1>4, <1>5

(* The tiers as a whole.                                                   *)
TiersInv == TierInv /\ CompleteInv /\ StatusInv /\ SmokeGatesFull /\ SuccessIsComplete

(* A run of a tier keeps it.                                               *)
LEMMA RunKeepsTiers ==
  ASSUME TypeInv, TiersInv, NoBinary \/ StartRun \/ EndRun
  PROVE  TiersInv'
<1>1. /\ \A run \in ToSet(SmokeRuns) : run.tier = "smoke"
      /\ \A run \in ToSet(FullRuns) : run.tier = "full"
      /\ SmokeRuns' = SmokeRuns /\ FullRuns' = FullRuns /\ AllRuns' = AllRuns
  BY OneRunAtATime, TiersOfTheRequest DEF TypeInv, SmokeRuns, FullRuns, AllRuns
<1>2. status # "ok" /\ status' # "ok" /\ StatusInv'
  BY OneRunAtATime DEF TiersInv, StatusInv
<1>3. TierInv'
  <2>1. CASE phase = "smoke"
    BY <1>1, <2>1, OneRunAtATime DEF TiersInv, TierInv
  <2>2. CASE phase = "full"
    <3>1. \A run \in ToSet(SmokeRuns) : run # Head(todo)
      BY <1>1, <2>2, OneRunAtATime DEF TiersInv, TierInv
    <3>2. QED
      BY <1>1, <2>2, <3>1, OneRunAtATime DEF TiersInv, TierInv
  <2>3. QED
    BY <2>1, <2>2, OneRunAtATime
<1>4. CompleteInv'
  <2> SUFFICES ASSUME failed' = 0 PROVE CompleteInv'
    BY DEF CompleteInv
  <2>1. failed = 0
    BY OneRunAtATime
  <2>2. ASSUME NEW S, \A run \in S : run \in ToSet(todo) \/ Passed(run)
        PROVE  \A run \in S : run \in ToSet(todo') \/ Passed(run)'
    BY <2>2, OneRunAtATime
  <2>3. CASE phase = "smoke"
    <3>1. \A run \in ToSet(SmokeRuns) : run \in ToSet(todo) \/ Passed(run)
      BY <2>1, <2>3 DEF TiersInv, CompleteInv
    <3>2. \A run \in ToSet(SmokeRuns) : run \in ToSet(todo') \/ Passed(run)'
      BY <2>2, <3>1
    <3>3. QED
      BY <1>1, <2>3, <3>2, OneRunAtATime DEF CompleteInv
  <2>4. CASE phase = "full"
    <3>1. \A run \in ToSet(FullRuns) : run \in ToSet(todo) \/ Passed(run)
      BY <2>1, <2>4 DEF TiersInv, CompleteInv
    <3>2. \A run \in ToSet(FullRuns) : run \in ToSet(todo') \/ Passed(run)'
      BY <2>2, <3>1
    <3>3. QED
      BY <1>1, <2>4, <3>2, OneRunAtATime DEF CompleteInv
  <2>5. QED
    BY <2>3, <2>4, OneRunAtATime
<1>5. SmokeGatesFull'
  <2> SUFFICES ASSUME tier = "both", NEW run \in DOMAIN outputs', run.tier = "full",
                      NEW s \in ToSet(SmokeRuns)
               PROVE  Passed(s)'
    BY <1>1, OneRunAtATime DEF SmokeGatesFull, Passed
  <2>1. phase = "full"
    BY <1>3, OneRunAtATime DEF TierInv
  <2>2. QED
    BY <1>1, <1>3, <2>1, OneRunAtATime DEF TierInv
<1>6. SuccessIsComplete'
  BY <1>2 DEF SuccessIsComplete
<1>7. QED
  BY <1>2, <1>3, <1>4, <1>5, <1>6 DEF TiersInv

(* ... and so does all else.                                               *)
LEMMA TiersStep == TypeInv /\ TiersInv /\ [Next]_vars => TiersInv'
<1> SUFFICES ASSUME TypeInv, TiersInv, [Next]_vars PROVE TiersInv'
  OBVIOUS
<1>1. CASE NoBinary \/ StartRun \/ EndRun
  BY <1>1, RunKeepsTiers
<1> SUFFICES ASSUME ~(NoBinary \/ StartRun \/ EndRun) PROVE TiersInv'
  BY <1>1
<1>2. /\ tier' = tier /\ asked' = asked /\ outputs' = outputs /\ failed' = failed
  BY DEF Next, vars, argVars, runVars, Invoke, PrintLine, Die, DiagnosticFails, DiagnosticEnds,
         Verify, Abort, EndSmoke, EndFull, WriteManifest, Terminated
<1>3. /\ \A run \in ToSet(SmokeRuns) : run.tier = "smoke"
      /\ \A run \in ToSet(FullRuns) : run.tier = "full"
      /\ SmokeRuns' = SmokeRuns /\ FullRuns' = FullRuns /\ AllRuns' = AllRuns
  BY <1>2, TiersOfTheRequest DEF TypeInv, SmokeRuns, FullRuns, AllRuns
<1>4. \A run : Passed(run)' <=> Passed(run)
  BY <1>2 DEF Passed
<1>5. SmokeGatesFull'
  BY <1>2, <1>3 DEF TiersInv, SmokeGatesFull
<1> DEFINE Done(t) == \A run \in AllRuns : t \in {run.tier, "both"} => Passed(run)
<1>6. CASE Invoke \/ DiagnosticFails \/ DiagnosticEnds \/ Terminated
           \/ \E p \in Procs : PrintLine(p) \/ Die(p)
  <2>1. /\ phase' \in {"diag", "verify", "over"}
        /\ phase' # "over" => phase \in {"new", "diag"}
        /\ status' # "ok"
    BY <1>6 DEF Invoke, DiagnosticFails, DiagnosticEnds, Terminated, PrintLine, Die, Abort,
                TiersInv, StatusInv
  <2>2. TierInv'
    <3>1. phase \in {"new", "diag"} => \A run \in DOMAIN outputs : run.tier = "smoke"
      BY DEF TiersInv, TierInv
    <3>2. phase' # "smoke" /\ phase' # "full" /\ phase' \in {"diag", "verify", "over"}
      BY <2>1
    <3>3. phase' # "over" => \A run \in DOMAIN outputs' : run.tier = "smoke"
      BY <1>2, <2>1, <3>1
    <3>4. phase' \in {"new", "diag", "verify", "smoke"} =>
            \A run \in DOMAIN outputs' : run.tier = "smoke"
      BY <3>2, <3>3
    <3>5. QED
      BY <3>2, <3>4 DEF TierInv
  <2>3. CompleteInv'
    BY <2>1 DEF CompleteInv
  <2>4. StatusInv' /\ SuccessIsComplete'
    BY <2>1 DEF StatusInv, SuccessIsComplete
  <2>5. QED
    BY <1>5, <2>2, <2>3, <2>4 DEF TiersInv
<1>7. CASE Verify
  <2>1. phase = "verify" /\ status # "ok" /\ status' # "ok"
    BY <1>7 DEF Verify, Abort, TiersInv, StatusInv
  <2>2. \/ phase' = "over"
        \/ phase' = "full" /\ tier = "full" /\ todo' = FullRuns
        \/ phase' = "smoke" /\ tier \in {"smoke", "both"} /\ todo' = SmokeRuns
    BY <1>7 DEF Verify, Abort, TypeInv
  <2>3. TierInv'
    BY <1>2, <1>3, <2>1, <2>2 DEF TiersInv, TierInv
  <2>4. CompleteInv' /\ StatusInv' /\ SuccessIsComplete'
    BY <1>2, <1>3, <2>1, <2>2 DEF CompleteInv, StatusInv, SuccessIsComplete
  <2>5. QED
    BY <1>5, <2>3, <2>4 DEF TiersInv
<1>8. CASE EndSmoke
  <2>1. phase = "smoke" /\ todo = << >> /\ status # "ok" /\ status' # "ok"
        /\ ToSet(todo) = {}
    BY <1>8 DEF EndSmoke, TiersInv, StatusInv, ToSet
  <2>2. failed = 0 => \A run \in ToSet(SmokeRuns) : Passed(run)
    BY <2>1 DEF TiersInv, CompleteInv
  <2>3. CASE tier = "both" /\ SmokeOK
    <3>1. phase' = "full" /\ todo' = FullRuns /\ failed = 0
      BY <1>8, <2>3 DEF EndSmoke, SmokeOK
    <3>2. TierInv' /\ CompleteInv'
      BY <1>2, <1>3, <1>4, <2>2, <2>3, <3>1 DEF TierInv, CompleteInv
    <3>3. QED
      BY <1>5, <2>1, <3>2 DEF TiersInv, StatusInv, SuccessIsComplete
  <2>4. CASE ~(tier = "both" /\ SmokeOK)
    <3>1. phase' = "manifest"
      BY <1>8, <2>4 DEF EndSmoke
    <3>2. tier = "smoke" \/ failed # 0
      BY <2>1, <2>4 DEF SmokeOK, TiersInv, TierInv
    <3>3. CompleteInv'
      BY <1>2, <1>3, <1>4, <2>2, <3>1, <3>2 DEF CompleteInv, AllRuns
    <3>4. QED
      BY <1>5, <2>1, <3>1, <3>3 DEF TiersInv, TierInv, StatusInv, SuccessIsComplete
  <2>5. QED
    BY <2>3, <2>4
<1>9. CASE EndFull
  <2>1. phase = "full" /\ todo = << >> /\ status # "ok" /\ status' # "ok" /\ ToSet(todo) = {}
        /\ phase' = "manifest"
    BY <1>9 DEF EndFull, TiersInv, StatusInv, ToSet
  <2>2. failed = 0 => \A run \in ToSet(FullRuns) : Passed(run)
    BY <2>1 DEF TiersInv, CompleteInv
  <2>3. tier \in {"full", "both"} /\ (tier = "both" => \A run \in ToSet(SmokeRuns) : Passed(run))
    BY <2>1 DEF TiersInv, TierInv
  <2>4. CompleteInv'
    BY <1>2, <1>3, <1>4, <2>1, <2>2, <2>3 DEF CompleteInv, AllRuns
  <2>5. QED
    BY <1>5, <2>1, <2>4 DEF TiersInv, TierInv, StatusInv, SuccessIsComplete
<1>10. CASE WriteManifest
  <2>1. phase = "manifest" /\ phase' = "over" /\ (status' = "ok" => failed = 0)
    BY <1>10 DEF WriteManifest
  <2>2. SuccessIsComplete'
    BY <1>2, <1>3, <2>1 DEF TiersInv, CompleteInv, SuccessIsComplete, Passed
  <2>3. QED
    BY <1>5, <2>1, <2>2 DEF TiersInv, TierInv, CompleteInv, StatusInv
<1>11. CASE UNCHANGED vars
  BY <1>3, <1>4, <1>11
     DEF vars, argVars, runVars, TiersInv, TierInv, CompleteInv, StatusInv, SmokeGatesFull,
         SuccessIsComplete
<1>12. QED
  BY <1>6, <1>7, <1>8, <1>9, <1>10, <1>11 DEF Next

-----------------------------------------------------------------------------
(* What the runner keeps to.                                               *)
THEOREM RunnerInvariant == Spec => [](TypeInv /\ LogInv /\ GateInv /\ TiersInv)
<1>1. Init => TypeInv /\ LogInv /\ GateInv /\ TiersInv
  <2> SUFFICES ASSUME Init PROVE TypeInv /\ LogInv /\ GateInv /\ TiersInv
    OBVIOUS
  <2>1. TypeInv
    BY DEF Init, TypeInv
  <2>2. LogInv
    <3>1. \A p \in Procs : Len(Lines(p)) \in Nat /\ printed[p] = 0
      BY WhatIsSaid DEF Init
    <3>2. QED
      BY <3>1 DEF Init, LogInv
  <2>3. GateInv
    BY DEF Init, GateInv
  <2>4. TiersInv
    BY DEF Init, TiersInv, TierInv, CompleteInv, StatusInv, SmokeGatesFull, SuccessIsComplete
  <2>5. QED
    BY <2>1, <2>2, <2>3, <2>4
<1>2. QED
  BY <1>1, TypeStep, LogStep, GateStep, TiersStep, PTL DEF Spec

(* run_nccl_multinode.sh times nothing but TCP baselines: one job, a host  *)
(* per rank, sockets wherever a process speaks or shares the network of    *)
(* one that does, for any number of hosts.                                 *)
THEOREM OnlyBaselines == Spec => []OnlyBaselinesAreTimed
<1>1. GateInv => OnlyBaselinesAreTimed
  BY DEF GateInv, Timeable, OnlyBaselinesAreTimed
<1>2. QED
  BY <1>1, RunnerInvariant, PTL

(* verify_nccl_transport.py refuses no baseline on the chosen interface.   *)
THEOREM AllBaselines == Spec => []BaselinesAreVerified
<1>1. GateInv => BaselinesAreVerified
  BY DEF GateInv, Welcome, BaselinesAreVerified
<1>2. QED
  BY <1>1, RunnerInvariant, PTL

(* The exit status of run_nccl_multinode.sh is 0 only when all collectives *)
(* asked for have passed all tiers asked for.                              *)
THEOREM CompleteSuccess == Spec => []SuccessIsComplete
  BY RunnerInvariant, PTL DEF TiersInv

(* Nothing of the full tier runs before the smoke tier has passed.         *)
THEOREM SmokeFirst == Spec => []SmokeGatesFull
  BY RunnerInvariant, PTL DEF TiersInv
=============================================================================
