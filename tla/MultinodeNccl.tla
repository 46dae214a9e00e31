---------------------------- MODULE MultinodeNccl ----------------------------
(***************************************************************************)
(* run_nccl_multinode.sh: collectives over TCP sockets between hosts, and  *)
(* the gate in front of them, verify_nccl_transport.py, that has to tell   *)
(* from the log of one small diagnostic run whether the processes mpirun   *)
(* started are one job, on the hosts asked for, on sockets only.           *)
(*                                                                         *)
(* What the processes really do is `launch`, which no program sees: the    *)
(* log is all there is.  It is what the processes print, in any            *)
(* interleaving of their lines.  The timed runs are started with the same  *)
(* hosts and environment and are taken to come out as the diagnostic.      *)
(*                                                                         *)
(* Left out: the environment captured on every node, whose outcome nothing *)
(* checks; the order of interfaces in a banner, of which the first counts; *)
(* and the parts of a manifest that repeat the arguments.                  *)
(***************************************************************************)
EXTENDS Naturals, FiniteSets, SequencesExt

CONSTANTS
  NNodes,       \* the hosts of -H; one rank on each
  Requests,     \* the sequences of collectives -c is looked at with
  Known,        \* the collectives there is a binary for
  FullRepeats

ASSUME MultinodeAssumption ==
  /\ NNodes \in Nat /\ NNodes >= 2
  /\ Requests \subseteq Seq(STRING) \ {<< >>} /\ FullRepeats \in Nat

Procs == 0 .. NNodes - 1
Hosts == 1 .. NNodes
Nets  == {"Socket", "IB"}
Chosen == "chosen"
Interfaces == {Chosen, "other"}

VARIABLES
  launch,   \* how mpirun's processes come out: never changes
  phase,    \* where the runner is
  tier,     \* -t: never changes
  asked,    \* -c: never changes
  printed,  \* printed[p]: how many lines p has printed
  died,     \* the processes that have failed
  log,      \* nccl_debug_info.txt
  verdict,  \* of transport_verification.json, "none" before
  todo,     \* the runs of the tier in progress still to be done
  failed,   \* FAILED_RUNS
  outputs,  \* per run: "running", "passed", "failed"
  status    \* exit status of the runner, "none" until it has ended

argVars  == <<tier, asked>>
diagVars == <<printed, died, log>>
runVars  == <<todo, failed, outputs>>
vars == <<launch, phase, argVars, diagVars, verdict, runVars, status>>

-----------------------------------------------------------------------------
(* The processes (external: MPI and NCCL).  They may be one job or, with a *)
(* binary built without MPI, one job each; on any of the hosts; and each   *)
(* chooses its network and interface by the variables that reach it.       *)
(* NCCL_DEBUG travels with them: a process they miss chooses in silence.   *)
Launches ==
  [oneJob : BOOLEAN, host : [Procs -> Hosts], net : [Procs -> Nets],
   iface : [Procs -> Interfaces], reached : SUBSET Procs]

RankLine(rank, host) == [kind |-> "rank", rank |-> rank, host |-> host]

(* nccl-tests' list of ranks, printed by the first rank of a job; and of a *)
(* process told to, NCCL's banner and a line per channel between hosts.    *)
RankTable(p) ==
  IF ~launch.oneJob THEN <<RankLine(0, launch.host[p])>>
  ELSE IF p = 0 THEN [i \in 1 .. NNodes |-> RankLine(i - 1, launch.host[i - 1])]
  ELSE << >>
Banner(p) ==
  IF p \in launch.reached
  THEN <<[kind |-> "using", net |-> launch.net[p], iface |-> launch.iface[p]]>> ELSE << >>
Channels(p) ==
  IF /\ p \in launch.reached /\ launch.oneJob
     /\ launch.host[p] # launch.host[(p + 1) % NNodes]
  THEN <<[kind |-> "via", net |-> launch.net[p]]>> ELSE << >>
Lines(p) == RankTable(p) \o Banner(p) \o Channels(p)

-----------------------------------------------------------------------------
(* analyse: what the log says.                                             *)
LinesOf(kind) == {i \in 1 .. Len(log) : log[i].kind = kind}
(* The networks named in channel lines and in banners.                     *)
Seen == {log[i].net : i \in LinesOf("via") \cup LinesOf("using")}
SocketInterfaces == {log[i].iface : i \in LinesOf("using")}
(* The host of a rank is the one in the last line about it.                *)
RankToHost ==
  [r \in {log[i].rank : i \in LinesOf("rank")} |->
     log[Max({i \in LinesOf("rank") : log[i].rank = r})].host]
HostsOfLines == {log[i].host : i \in LinesOf("rank")}
HostsSeen == {RankToHost[r] : r \in DOMAIN RankToHost}

(* verify, with --expect-transport socket, --expect-iface and --min-hosts. *)
WantedPresent == "Socket" \in Seen
NoCompetingNet == Seen \subseteq {"Socket"}
SpansMoreThanNodes == Cardinality(HostsSeen) > NNodes
SpansNodes == Cardinality(HostsSeen) >= NNodes
InterfaceConfirmed == Chosen \in SocketInterfaces
Verified == WantedPresent /\ NoCompetingNet /\ SpansNodes /\ InterfaceConfirmed

-----------------------------------------------------------------------------
Run(c, t, rep) == [coll |-> c, tier |-> t, rep |-> rep]
SmokeRuns == [i \in 1 .. Len(asked) |-> Run(asked[i], "smoke", 0)]
FullRuns ==
  [i \in 1 .. FullRepeats * Len(asked) |->
     Run(asked[((i - 1) % Len(asked)) + 1], "full", (i - 1) \div Len(asked))]
AllRuns == ToSet(SmokeRuns) \cup ToSet(FullRuns)

Init ==
  /\ launch \in Launches
  /\ phase = "new"
  /\ tier \in {"smoke", "full", "both"} /\ asked \in Requests
  /\ printed = [p \in Procs |-> 0] /\ died = {} /\ log = << >>
  /\ verdict = "none"
  /\ todo = << >> /\ failed = 0 /\ outputs = << >>
  /\ status = "none"

(* The directory is created; it must be new, and is never used again.      *)
Invoke ==
  /\ phase = "new"
  /\ phase' = "diag"
  /\ UNCHANGED <<launch, argVars, diagVars, verdict, runVars, status>>

PrintLine(p) ==
  /\ phase = "diag" /\ p \notin died
  /\ printed[p] < Len(Lines(p))
  /\ log' = Append(log, Lines(p)[printed[p] + 1])
  /\ printed' = [printed EXCEPT ![p] = @ + 1]
  /\ UNCHANGED <<launch, phase, argVars, died, verdict, runVars, status>>
Die(p) ==
  /\ phase = "diag" /\ p \notin died
  /\ died' = died \cup {p}
  /\ UNCHANGED <<launch, phase, argVars, printed, log, verdict, runVars, status>>

Abort ==
  /\ phase' = "over" /\ status' = "error"
  /\ UNCHANGED runVars
DiagnosticFails ==
  /\ phase = "diag" /\ died # {}
  /\ Abort
  /\ UNCHANGED <<launch, argVars, diagVars, verdict>>
DiagnosticEnds ==
  /\ phase = "diag" /\ died = {}
  /\ \A p \in Procs : printed[p] = Len(Lines(p))
  /\ phase' = "verify"
  /\ UNCHANGED <<launch, argVars, diagVars, verdict, runVars, status>>

(* The gate: the first tier is up, or nothing is.                          *)
Verify ==
  /\ phase = "verify"
  /\ verdict' = IF Verified THEN "pass" ELSE "fail"
  /\ IF Verified
     THEN /\ phase' = IF tier = "full" THEN "full" ELSE "smoke"
          /\ todo' = IF tier = "full" THEN FullRuns ELSE SmokeRuns
          /\ UNCHANGED <<failed, outputs, status>>
     ELSE Abort
  /\ UNCHANGED <<launch, argVars, diagVars>>

-----------------------------------------------------------------------------
(* run_one.  A collective without a binary is a failed run and leaves no   *)
(* output.                                                                 *)
InTier == phase \in {"smoke", "full"} /\ todo # << >>
NoBinaryUncounted ==
  /\ InTier /\ Head(todo).coll \notin Known
  /\ todo' = Tail(todo)
  /\ UNCHANGED <<launch, phase, argVars, diagVars, verdict, failed, outputs, status>>
NoBinary ==
  /\ InTier /\ Head(todo).coll \notin Known
  /\ todo' = Tail(todo) /\ failed' = failed + 1
  /\ UNCHANGED <<launch, phase, argVars, diagVars, verdict, outputs, status>>
StartRun ==
  /\ InTier /\ Head(todo).coll \in Known
  /\ Head(todo) \notin DOMAIN outputs
  /\ outputs' = [run \in DOMAIN outputs \cup {Head(todo)} |->
                   IF run = Head(todo) THEN "running" ELSE outputs[run]]
  /\ UNCHANGED <<launch, phase, argVars, diagVars, verdict, todo, failed, status>>
EndRun ==
  /\ InTier /\ Head(todo) \in DOMAIN outputs
  /\ \E end \in {"passed", "failed"} :
       /\ outputs' = [outputs EXCEPT ![Head(todo)] = end]
       /\ failed' = failed + (IF end = "failed" THEN 1 ELSE 0)
  /\ todo' = Tail(todo)
  /\ UNCHANGED <<launch, phase, argVars, diagVars, verdict, status>>

SmokeOKIfAnyPassed == failed < Len(asked)
SmokeOK == failed = 0
EndSmoke ==
  /\ phase = "smoke" /\ todo = << >>
  /\ IF tier = "both" /\ SmokeOK
     THEN phase' = "full" /\ todo' = FullRuns
     ELSE phase' = "manifest" /\ UNCHANGED todo
  /\ UNCHANGED <<launch, argVars, diagVars, verdict, failed, outputs, status>>
EndFull ==
  /\ phase = "full" /\ todo = << >>
  /\ phase' = "manifest"
  /\ UNCHANGED <<launch, argVars, diagVars, verdict, runVars, status>>

(* The manifest, which states the transport as verified; the exit status.  *)
WriteManifest ==
  /\ phase = "manifest"
  /\ phase' = "over"
  /\ status' = IF failed = 0 THEN "ok" ELSE "error"
  /\ UNCHANGED <<launch, argVars, diagVars, verdict, runVars>>

(* The cluster is gone.                                                    *)
Terminated ==
  /\ phase \notin {"new", "over"}
  /\ phase' = "over"
  /\ UNCHANGED <<launch, argVars, diagVars, verdict, runVars, status>>

Next ==
  \/ Invoke \/ (\E p \in Procs : PrintLine(p) \/ Die(p))
  \/ DiagnosticFails \/ DiagnosticEnds \/ Verify
  \/ NoBinary \/ StartRun \/ EndRun \/ EndSmoke \/ EndFull \/ WriteManifest
  \/ Terminated

Spec == Init /\ [][Next]_vars

-----------------------------------------------------------------------------
(* What a TCP baseline is: one job, a host per rank, sockets everywhere.   *)
Baseline(l) ==
  /\ l.oneJob
  /\ \A p, q \in Procs : l.host[p] = l.host[q] => p = q
  /\ \A p \in Procs : l.net[p] = "Socket"

(* ... and what shows of it: a process the variables missed is not seen.   *)
BaselineInSight(l) ==
  /\ l.oneJob
  /\ \A p, q \in Procs : l.host[p] = l.host[q] => p = q
  /\ \A p \in l.reached : l.net[p] = "Socket"

(* Hosts exchange data over a network both of them use.                    *)
Connected(l) ==
  \A p, q \in Procs : l.host[p] # l.host[q] => l.net[p] = l.net[q]

(* "Refuses to run any timed measurement if that proof fails": no timed    *)
(* output exists unless the processes are what the baseline means, however *)
(* the lines of the log fell and whatever single processes chose.  Of a    *)
(* silent one the log says nothing but its host: it is on sockets when it  *)
(* can only be connected to its peers over what they use.                  *)
OnlyBaselinesAreTimed ==
  outputs # << >> =>
    BaselineInSight(launch) /\ (Connected(launch) => Baseline(launch))

(* The verifier is not too strict either: a baseline on the chosen         *)
(* interface, of which any process speaks, is never refused on account of  *)
(* the log.                                                                *)
BaselinesAreVerified ==
  /\ Baseline(launch) /\ launch.reached # {}
  /\ \A p \in Procs : launch.iface[p] = Chosen
  => verdict # "fail"

(* When the runner reports success, every collective asked for has passed  *)
(* every tier asked for: none was skipped, unknown or failed.              *)
SuccessIsComplete ==
  status = "ok" =>
    \A run \in AllRuns : tier \in {run.tier, "both"} =>
      run \in DOMAIN outputs /\ outputs[run] = "passed"

(* When both tiers are asked for, nothing of the full tier runs before all *)
(* collectives have passed the smoke tier.                                 *)
SmokeGatesFull ==
  tier = "both" /\ (\E run \in DOMAIN outputs : run.tier = "full") =>
    \A run \in ToSet(SmokeRuns) : run \in DOMAIN outputs /\ outputs[run] = "passed"
=============================================================================
