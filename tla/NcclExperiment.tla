--------------------------- MODULE NcclExperiment ---------------------------
(***************************************************************************)
(* One experiment directory of the NCCL baseline: the invocations of       *)
(* run_nccl_baseline.sh that fill it, one NCCL configuration each, and the *)
(* rows parse_nccl_output.py makes of it.                                  *)
(*                                                                         *)
(* An invocation captures the environment unless that was done, runs the   *)
(* collectives of the smoke tier and of the full tier, and writes its      *)
(* manifest last.  The pod it runs on may be terminated at any moment; the *)
(* directory stays.  Between two invocations the repository may move on.   *)
(*                                                                         *)
(* What a collective printed is told apart by its data rows (none, right,  *)
(* or with wrong values) and its trailer (absent, OK, or FAILED), for all  *)
(* sizes and placements at once.                                           *)
(***************************************************************************)
EXTENDS Naturals, FiniteSets, SequencesExt

CONSTANTS
  Collectives,     \* sequence: the collectives asked for
  Labels,          \* sequence: the configurations, ordered as their manifests' names
  FullRepeats,
  MaxInvocations,  \* bound: invocations on the directory
  MaxCommits       \* bound: commits made meanwhile

NoLabel == "none"  \* an invocation without -l
ASSUME LabelAssumption ==
  /\ Labels \in Seq(STRING) \ {<< >>} /\ Collectives \in Seq(STRING) \ {<< >>}
  /\ FullRepeats \in Nat

VARIABLES
  head,       \* the commit checked out
  there,      \* the directory exists
  env,        \* env.json: the commit it names, or NotCaptured
  files,      \* the stdout files: what each holds, and (known to no file) the commit it ran at
  manifests,  \* per configuration its run_manifest: [commit, runs]
  inv,        \* the invocation in progress, or Idle
  invocations

dirVars == <<there, env, files, manifests>>
vars == <<head, dirVars, inv, invocations>>

Tiers == {"smoke", "full"}
NotCaptured == 0

Idle == [phase |-> "idle"]
InProgress == inv.phase # "idle"

(* What a collective may leave behind: exit code ("zero", "nonzero") and   *)
(* output.  Its trailer may be lost with exit code zero, as the disk fills *)
(* (external).                                                             *)
Empty == [points |-> "none", trailer |-> "absent"]
Passed == [points |-> "right", trailer |-> "OK"]
Endings ==
  {[exit |-> "zero", out |-> Passed],
   [exit |-> "zero", out |-> [points |-> "right", trailer |-> "absent"]],
   [exit |-> "nonzero", out |-> [points |-> "none", trailer |-> "absent"]],
   [exit |-> "nonzero", out |-> [points |-> "right", trailer |-> "absent"]]} \cup
  {[exit |-> x, out |-> [points |-> "wrong", trailer |-> "FAILED"]] : x \in {"zero", "nonzero"}}

(* ... and when it is cut off with the pod.                                *)
CutOff == {[points |-> p, trailer |-> "absent"] : p \in {"none", "right"}}

-----------------------------------------------------------------------------
Init ==
  /\ head = 1
  /\ there = FALSE /\ env = NotCaptured
  /\ files = << >> /\ manifests = << >>
  /\ inv = Idle /\ invocations = 0

SmokeRuns(label) ==
  [i \in 1..Len(Collectives) |->
     [coll |-> Collectives[i], label |-> label, tier |-> "smoke", rep |-> 0]]
FullRuns(label) ==
  [i \in 1..FullRepeats * Len(Collectives) |->
     [coll |-> Collectives[((i - 1) % Len(Collectives)) + 1], label |-> label,
      tier |-> "full", rep |-> (i - 1) \div Len(Collectives)]]

(* Whose outputs an invocation would write over: with a label, its         *)
(* configuration's; without, anything there.                               *)
MayNotStartUnlabelled(label) == label = NoLabel /\ there
MayNotStart(label) ==
  IF label = NoLabel THEN there
  ELSE \E id \in DOMAIN files : id.label = label

Invoke(label, tier) ==
  /\ ~InProgress /\ invocations < MaxInvocations
  /\ ~MayNotStart(label)
  /\ there' = TRUE
  /\ inv' = [phase |-> "env", label |-> label, tier |-> tier, open |-> FALSE,
             todo |-> << >>, failed |-> 0, entries |-> {}]
  /\ invocations' = invocations + 1
  /\ UNCHANGED <<head, env, files, manifests>>

(* env.json is captured once; then the first tier asked for is up.         *)
CaptureEnv ==
  /\ inv.phase = "env"
  /\ env' = IF env = NotCaptured THEN head ELSE env
  /\ inv' = IF inv.tier = "full"
            THEN [inv EXCEPT !.phase = "full", !.todo = FullRuns(inv.label)]
            ELSE [inv EXCEPT !.phase = "smoke", !.todo = SmokeRuns(inv.label)]
  /\ UNCHANGED <<head, there, files, manifests, invocations>>

(* run_one: the collective starts, with its output truncated ...           *)
StartRun ==
  /\ inv.phase \in Tiers /\ inv.todo # << >> /\ ~inv.open
  /\ files' = [id \in DOMAIN files \cup {Head(inv.todo)} |->
                 IF id = Head(inv.todo) THEN [out |-> Empty, at |-> head] ELSE files[id]]
  /\ inv' = [inv EXCEPT !.open = TRUE]
  /\ UNCHANGED <<head, there, env, manifests, invocations>>

(* ... and ends: the gate wants exit code 0 and the trailer.               *)
GateByExit(e) == e.exit = "zero"
Gate(e) == e.exit = "zero" /\ e.out.trailer = "OK"
EndRun ==
  /\ inv.phase \in Tiers /\ inv.open
  /\ \E e \in Endings :
       /\ files' = [files EXCEPT ![Head(inv.todo)].out = e.out]
       /\ inv' = [inv EXCEPT !.open = FALSE, !.todo = Tail(@),
                             !.failed = @ + (IF Gate(e) THEN 0 ELSE 1),
                             !.entries = @ \cup {[id |-> Head(inv.todo), exit |-> e.exit,
                                                  gate |-> Gate(e)]}]
  /\ UNCHANGED <<head, there, env, manifests, invocations>>

(* The smoke tier is over: the full tier is up if it was asked for too and *)
(* no smoke run failed.                                                    *)
SmokeOKByLast == \A e \in inv.entries : e.id.coll = Last(Collectives) => e.gate
SmokeOK == inv.failed = 0
EndSmoke ==
  /\ inv.phase = "smoke" /\ inv.todo = << >>
  /\ inv' = IF inv.tier = "both" /\ SmokeOK
            THEN [inv EXCEPT !.phase = "full", !.todo = FullRuns(inv.label)]
            ELSE [inv EXCEPT !.phase = "manifest"]
  /\ UNCHANGED <<head, dirVars, invocations>>

EndFull ==
  /\ inv.phase = "full" /\ inv.todo = << >>
  /\ inv' = [inv EXCEPT !.phase = "manifest"]
  /\ UNCHANGED <<head, dirVars, invocations>>

WriteManifest ==
  /\ inv.phase = "manifest"
  /\ manifests' = [l \in DOMAIN manifests \cup {inv.label} |->
                     IF l = inv.label THEN [commit |-> head, runs |-> inv.entries]
                     ELSE manifests[l]]
  /\ inv' = Idle
  /\ UNCHANGED <<head, there, env, files, invocations>>

(* The pod is gone, with the invocation and what it had not written.       *)
Terminated ==
  /\ InProgress
  /\ IF inv.phase \in Tiers /\ inv.open
     THEN \E out \in CutOff : files' = [files EXCEPT ![Head(inv.todo)].out = out]
     ELSE UNCHANGED files
  /\ inv' = Idle
  /\ UNCHANGED <<head, there, env, manifests, invocations>>

Commit ==
  /\ ~InProgress /\ head <= MaxCommits
  /\ head' = head + 1
  /\ UNCHANGED <<dirVars, inv, invocations>>

Next ==
  \/ \E label \in ToSet(Labels), tier \in {"smoke", "full", "both"} : Invoke(label, tier)
  \/ CaptureEnv \/ StartRun \/ EndRun \/ EndSmoke \/ EndFull \/ WriteManifest
  \/ Terminated \/ Commit

Spec == Init /\ [][Next]_vars

-----------------------------------------------------------------------------
(* parse_nccl_output.py, as a function of the directory.                   *)

(* load_manifests: the metadata of the first by name, the runs of all.     *)
FirstManifest == SelectSeq(Labels, LAMBDA l : l \in DOMAIN manifests)[1]
RunsOfFirst == IF manifests = << >> THEN {} ELSE manifests[FirstManifest].runs
ManifestRuns == UNION {manifests[l].runs : l \in DOMAIN manifests}

(* discover_runs: with no run in any manifest, what the file names tell.   *)
Recovered == {[id |-> id, exit |-> "unrecorded"] : id \in DOMAIN files}
DiscoveredRuns == IF ManifestRuns # {} THEN ManifestRuns ELSE Recovered

CommitOfRows == IF manifests # << >> THEN manifests[FirstManifest].commit ELSE env

CorrectnessOk(run) ==
  /\ run.exit \in {"zero", "unrecorded"}
  /\ files[run.id].out.trailer # "FAILED"
  /\ files[run.id].out.points = "right"

(* build_rows: a run without data rows makes none.                         *)
Rows ==
  {[id |-> run.id, git_commit |-> CommitOfRows, correctness_ok |-> CorrectnessOk(run)] :
     run \in {run \in DiscoveredRuns : files[run.id].out.points # "none"}}

-----------------------------------------------------------------------------
(* "results/raw is append-only; never edited": whatever is invoked and     *)
(* terminated in which order, no output of a run that is over is written   *)
(* again.                                                                  *)
OutputsAreNeverRewritten ==
  [][\A id \in DOMAIN files :
       /\ id \in DOMAIN files'
       /\ files'[id] # files[id] => InProgress /\ inv.open /\ id = Head(inv.todo)]_vars

(* "The smoke tier gates the full tier": when both are asked for, the full *)
(* sweep starts only if every collective has passed its smoke run.         *)
SmokeGatesFull ==
  InProgress /\ inv.tier = "both"
      /\ (\E id \in DOMAIN files : id.label = inv.label /\ id.tier = "full") =>
    \A i \in 1..Len(Collectives) :
      /\ SmokeRuns(inv.label)[i] \in DOMAIN files
      /\ files[SmokeRuns(inv.label)[i]].out = Passed

(* The runner judges a run once, as it ends, the parser long after by      *)
(* another rule, on a directory that later invocations have added to or    *)
(* been terminated in: every run a manifest records as passed has its rows *)
(* in the results, as correct ones.                                        *)
PassedRunsHaveCorrectRows ==
  \A l \in DOMAIN manifests : \A run \in manifests[l].runs :
    run.gate => \E row \in Rows : row.id = run.id /\ row.correctness_ok

(* The phase 1 document: a run is correct only if its exit code is 0 and   *)
(* the trailer "Out of bounds values : 0 OK" is present; if not, its rows  *)
(* have correctness_ok false.                                              *)
CorrectRowsMeetTheCriteria ==
  ~InProgress => \A row \in Rows : row.correctness_ok => files[row.id].out = Passed

(* When every invocation has written its manifest, the rows come from all  *)
(* outputs there are and from nothing else, in however many configurations.*)
Finished == \A id \in DOMAIN files : id.label \in DOMAIN manifests
EveryOutputIsParsed ==
  Finished =>
    {row.id : row \in Rows} = {id \in DOMAIN files : files[id].out.points # "none"}

(* The result schema's git_commit, "full SHA of this repo at run time": in *)
(* a finished experiment each row names the commit its collective ran at.  *)
RowsNameTheirCommit ==
  Finished /\ ~InProgress => \A row \in Rows : row.git_commit = files[row.id].at
=============================================================================
