---------------------------- MODULE DdpCampaign ----------------------------
(***************************************************************************)
(* The final DDP benchmark on one host: preflight_ddp.sh looks for a       *)
(* transport that works, run_final_ddp.sh launches the configurations over *)
(* it into a directory, and DdpResults makes the results of what is there. *)
(*                                                                         *)
(* Which transports work is known to no script.  One that does not work    *)
(* hangs, yields NaN, or lets the ranks drift apart without a sound.  Any  *)
(* launch may fail by itself, a script may be interrupted anywhere, and    *)
(* either script may be started again on the same directory.               *)
(*                                                                         *)
(* Left out: the launch for NCCL's debug output, which nothing reads,      *)
(* topology and versions, and the manifest, which is written by hand.      *)
(***************************************************************************)
EXTENDS DdpResults, Sequences

CONSTANTS
  Hosts,         \* the hosts looked at: how each transport behaves
  Capacities,    \* sequence: the bucket capacities, in MiB
  LAUNCHES,      \* launches of each configuration
  StepTimes,     \* the step times looked at
  MaxSessions,   \* bound: starts of run_final_ddp.sh
  MaxPreflights, \* bound: starts of preflight_ddp.sh
  MaxFaults      \* bound: launches that fail by themselves, and interruptions

ASSUME CampaignAssumption ==
  /\ Capacities \in Seq(Nat) /\ LAUNCHES \in Nat \ {0} /\ StepTimes \subseteq Int
  /\ MaxSessions \in Nat /\ MaxPreflights \in Nat /\ MaxFaults \in Nat

(* NCCL's default, and NCCL_P2P_DISABLE=1; in the order of the candidates. *)
Candidates == <<"p2p", "shm">>
Transports == {"p2p", "shm"}

ASSUME HostAssumption == Hosts \subseteq [Transports -> {"works", "hangs", "nan", "drifts"}]

VARIABLES
  host,           \* how the transports behave: never changes
  script,         \* the script that runs, or Idle
  transport_env,  \* what transport_env.txt says, or "absent"
  preflightOK,    \* the last preflight printed PREFLIGHT OK
  files,          \* the launches that have an output, and what it holds
  last,           \* of each tag's last session: [no, over]
  sessions, preflights, faults

runs == <<sessions, preflights, faults>>
vars == <<host, script, transport_env, preflightOK, files, last, runs>>

Tags == {"final", "shm"}
Idle == [name |-> "none"]
Busy == script # Idle
Preflight == script.name = "preflight"
Session == script.name = "final"

-----------------------------------------------------------------------------
(* What is launched: TAG-<mb>mb-L<n> for each capacity, and the reference  *)
(* launches before and after them, which have no tag.                      *)
Launch(mode, tag, mb, n) == [mode |-> mode, tag |-> tag, mb |-> mb, launch |-> n]

References(mode) == [n \in 1 .. LAUNCHES |-> Launch(mode, mode, 0, n - 1)]
Tagged(tag) ==
  [k \in 1 .. Len(Capacities) * LAUNCHES |->
     Launch("ddp", tag, Capacities[(k - 1) \div LAUNCHES + 1], (k - 1) % LAUNCHES)]

MatrixWithReferences(tag, skipRef) == References("single") \o Tagged(tag) \o References("serial")
Matrix(tag, skipRef) ==
  IF skipRef THEN Tagged(tag) ELSE References("single") \o Tagged(tag) \o References("serial")

(* "--repeats 1"; a DDP launch has the no_sync probe as well.              *)
DefaultRepeats == 3
LaunchRepeats == 1

TrainRows(mode) == [mode : {mode}, repeat : 0 .. LaunchRepeats - 1]
ProbeRows(mode) == IF mode = "ddp" THEN [mode : {"nosync"}, repeat : {0}] ELSE {}

-----------------------------------------------------------------------------
Init ==
  /\ host \in Hosts
  /\ script = Idle
  /\ transport_env = "absent" /\ preflightOK = FALSE
  /\ files = << >>
  /\ last = [tag \in Tags |-> [no |-> 0, over |-> FALSE]]
  /\ sessions = 0 /\ preflights = 0 /\ faults = 0

MayFault == faults < MaxFaults
Fault == MayFault /\ faults' = faults + 1

(* torchrun or python starts.  Over a transport that hangs it never ends,  *)
(* unless it is a single process.                                          *)
Process(mode, transport) ==
  IF mode # "single" /\ host[transport] = "hangs" THEN "hangs" ELSE "runs"

-----------------------------------------------------------------------------
(* preflight_ddp.sh.                                                       *)
StartPreflight ==
  /\ ~Busy /\ preflights < MaxPreflights
  /\ script' = [name |-> "preflight", cand |-> 1, process |-> "none"]
  /\ preflights' = preflights + 1
  /\ preflightOK' = FALSE
  /\ UNCHANGED <<host, transport_env, files, last, sessions, faults>>

StartGate ==
  /\ Preflight /\ script.process = "none" /\ script.cand <= Len(Candidates)
  /\ script' = [script EXCEPT !.process = Process("ddp", Candidates[script.cand])]
  /\ UNCHANGED <<host, transport_env, preflightOK, files, last, runs>>

(* The exit code and the CORRECTNESS line of a gate's log.  What is not    *)
(* finite makes train_ddp.py abort, with exit code 1.                      *)
LogOf(behaviour) ==
  [rc     |-> IF behaviour = "nan" THEN 1 ELSE 0,
   finite |-> behaviour # "nan",
   diff   |-> IF behaviour = "works" THEN "zero" ELSE "nonzero"]

AcceptsWithoutDiff(log) == log.rc = 0 /\ log.finite
Accepts(log) == log.rc = 0 /\ log.finite /\ log.diff = "zero"

Accept ==
  /\ transport_env' = Candidates[script.cand]
  /\ preflightOK' = TRUE
  /\ script' = Idle

Reject ==
  /\ script' = [script EXCEPT !.cand = @ + 1, !.process = "none"]
  /\ UNCHANGED <<transport_env, preflightOK>>

EndGate ==
  /\ Preflight /\ script.process = "runs"
  /\ \/ /\ IF Accepts(LogOf(host[Candidates[script.cand]])) THEN Accept ELSE Reject
        /\ UNCHANGED faults
     \/ Fault /\ Reject
  /\ UNCHANGED <<host, files, last, sessions, preflights>>

(* No candidate is left: "nothing is benchmarked".                         *)
FailPreflight ==
  /\ Preflight /\ script.process = "none" /\ script.cand > Len(Candidates)
  /\ script' = Idle
  /\ UNCHANGED <<host, transport_env, preflightOK, files, last, runs>>

-----------------------------------------------------------------------------
(* run_final_ddp.sh.  The first session comes after a preflight that was   *)
(* OK and runs over what it wrote; the anchor over SHM does without the    *)
(* references (external: how REPRODUCING.md calls them).                   *)
StartSession(tag, transport, skipRef) ==
  /\ ~Busy /\ sessions < MaxSessions
  /\ script' = [name |-> "final", tag |-> tag, transport |-> transport,
                todo |-> Matrix(tag, skipRef), process |-> "none"]
  /\ sessions' = sessions + 1
  /\ last' = [last EXCEPT ![tag] = [no |-> sessions', over |-> FALSE]]
  /\ UNCHANGED <<host, transport_env, preflightOK, files, preflights, faults>>

StartFinal  == preflightOK /\ StartSession("final", transport_env, FALSE)
StartAnchor == StartSession("shm", "shm", TRUE)

(* launch: the output is truncated, whatever session it was from.          *)
By == [session |-> sessions, transport |-> script.transport]
Printed(checked, table) == [checked |-> checked, table |-> table, by |-> By]

StartLaunch ==
  /\ Session /\ script.process = "none" /\ script.todo # << >>
  /\ LET path == Head(script.todo)
     IN  /\ files' = [p \in DOMAIN files \cup {path} |->
                        IF p = path THEN Printed("absent", {}) ELSE files[p]]
         /\ script' = [script EXCEPT !.process = Process(path.mode, script.transport)]
  /\ UNCHANGED <<host, transport_env, preflightOK, last, runs>>

(* The launch is over with this output, and the next one is up, whatever   *)
(* its exit code: the one is printed and nothing more.                     *)
LaunchEnds(out) ==
  /\ files' = [files EXCEPT ![Head(script.todo)] = out]
  /\ script' = [script EXCEPT !.todo = Tail(@), !.process = "none"]

(* What train_ddp.py prints over a transport: all of it, or on NaN no      *)
(* table at all.  Ranks that drift print like any others.                  *)
Complete(mode) ==
  IF mode # "single" /\ host[script.transport] = "nan"
  THEN Printed("failed", {})
  ELSE Printed("passed", TrainRows(mode) \cup ProbeRows(mode))

(* ... when it fails on its way: before the correctness check, before the  *)
(* table, in the probe, or after all rows; what rank 0 had printed is      *)
(* flushed as it exits.                                                    *)
Partial(mode) ==
  {Printed("absent", {})} \cup
  (IF Complete(mode).checked = "failed" THEN {}
   ELSE {Printed("passed", table) :
           table \in {{}, TrainRows(mode), TrainRows(mode) \cup ProbeRows(mode)}})

(* ... and when timeout kills it.  What is printed stays in the buffer     *)
(* until all is: a launch that hangs as it ends leaves its whole output.   *)
Killed(mode) ==
  {Printed("absent", {})} \cup
  (IF script.process = "hangs" THEN {} ELSE {Complete(mode)})

EndLaunch ==
  /\ Session /\ script.process = "runs"
  /\ LET mode == Head(script.todo).mode
     IN  \/ LaunchEnds(Complete(mode)) /\ UNCHANGED faults
         \/ Fault /\ \E out \in Partial(mode) : LaunchEnds(out)
  /\ UNCHANGED <<host, transport_env, preflightOK, last, sessions, preflights>>

(* timeout kills what hangs, in the gate and in a launch; it may also kill *)
(* what is slow.                                                           *)
TimeoutInPreflight ==
  /\ Preflight /\ script.process = "hangs"
  /\ Reject /\ UNCHANGED <<files, faults>>
  /\ UNCHANGED <<host, last, sessions, preflights>>
Timeout ==
  /\ Busy
  /\ \/ script.process = "hangs" /\ UNCHANGED faults
     \/ script.process = "runs" /\ Fault
  /\ \/ Preflight /\ Reject /\ UNCHANGED files
     \/ /\ Session
        /\ \E out \in Killed(Head(script.todo).mode) : LaunchEnds(out)
        /\ UNCHANGED <<transport_env, preflightOK>>
  /\ UNCHANGED <<host, last, sessions, preflights>>

EndSession ==
  /\ Session /\ script.process = "none" /\ script.todo = << >>
  /\ last' = [last EXCEPT ![script.tag].over = TRUE]
  /\ script' = Idle
  /\ UNCHANGED <<host, transport_env, preflightOK, files, runs>>

(* The terminal is lost, and with it the script and its launch.            *)
Interrupted ==
  /\ Busy /\ Fault
  /\ script' = Idle
  /\ UNCHANGED <<host, transport_env, preflightOK, files, last, sessions, preflights>>

Step ==
  \/ StartGate \/ EndGate \/ FailPreflight
  \/ StartLaunch \/ EndLaunch \/ EndSession
  \/ Timeout
Next == StartPreflight \/ StartFinal \/ StartAnchor \/ Step \/ Interrupted

(* A script goes on as long as it can: it waits for its launch, which      *)
(* ends, or is ended by timeout.  Nobody has to start one.                 *)
Spec == Init /\ [][Next]_vars /\ WF_vars(Step)

-----------------------------------------------------------------------------
Rows == build_rows(files)
Over(tag) == ~Busy /\ last[tag].over

(* attach_sync_cost, "from its OWN launch": whatever was repeated, killed  *)
(* or interrupted, the two times a sync cost is the difference of were     *)
(* measured by one process group, and there is at most one to choose.      *)
CostComesFromOwnLaunch ==
  \A r \in Rows : Training(r) =>
    /\ \A q \in ProbesOf(Rows, r) : q.by = r.by /\ q.raw_output_path = r.raw_output_path
    /\ Cardinality(ProbesOf(Rows, r)) <= 1

(* The rows compared with --prefix final- (capacities with one another,    *)
(* and with the serialised control) come from one session and so from one  *)
(* transport, also if the directory has seen other sessions, of the anchor *)
(* too, and sessions over another transport that went wrong.               *)
Compared == (UNION CellsOf("ddp-training", group(Rows, FALSE, "final")))
              \cup (UNION CellsOf("serial-reduction", group(Rows, FALSE, "final")))
ComparisonsAreOfOneSession ==
  Over("final") => \A r \in Compared : r.by.session = last["final"].no

(* "Only a configuration that passes is allowed to be benchmarked": no     *)
(* row of a final session was measured over a transport that does not      *)
(* work, though nothing after the preflight would notice one that drifts.  *)
FinalRowsAreSound == \A r \in Compared : host[r.by.transport] = "works"

(* "Repeats are INDEPENDENT process launches": the spread of a cell is     *)
(* one across launches, each with one row, although the labels are not     *)
(* those of the relaunch family that the noise floor is looked for in.     *)
NoiseIsAcrossLaunches ==
  \A prefix \in Tags : \A cell \in NoiseCells(Rows, prefix) :
    /\ \A q, r \in cell : q.raw_output_path = r.raw_output_path => q = r
    /\ Cardinality(cell) <= LAUNCHES

(* The plateau rule: "a gap larger than that floor is real".  Whatever the *)
(* step times, and whichever launches are missing, if a capacity is called *)
(* resolvably slower then each of its launches was slower than the best    *)
(* capacity's median, and each launch of the best faster than its median.  *)
ResolvableGapsAreReal ==
  Over("final") =>
    LET cells == CellsOf("ddp-training", group(Rows, FALSE, "final"))
        noiseCells == NoiseCells(Rows, "final")
    IN  \A time \in [UNION cells -> StepTimes] :
          LET noise == Noise(noiseCells, time)
              best2 == Best2(cells, time)
          IN  \A cell \in cells : Resolvable(cell, cells, noise, time) =>
                /\ \A r \in cell : 2 * time[r] > best2
                /\ \A other \in cells : Median2(other, time) = best2 =>
                     \A q \in other : 2 * time[q] < Median2(cell, time)

(* No hang holds up a script for good: each comes to its end.              *)
EveryScriptEnds == Busy ~> ~Busy
=============================================================================
