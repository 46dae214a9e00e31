--------------------------- MODULE RingExperiment ---------------------------
(***************************************************************************)
(* run_ring_benchmark.sh around the program of RingBench, and what         *)
(* parse_ring_output.py makes of the directory it leaves.  The runner      *)
(* refuses a directory that exists, builds, runs the program with its      *)
(* output going to a file a row at a time, counts the rows with            *)
(* mismatches, and writes the manifest.                                    *)
(*                                                                         *)
(* The program may crash at any moment (CUDA_CHECK exits with code 1).     *)
(* Left out: the environment, and columns that are copied or computed.     *)
(***************************************************************************)
EXTENDS RingBench

VARIABLES
  stage,     \* the runner's: "start", "running", "gate", "over"
  occupied,  \* the directory existed before: never changes
  rc,        \* the program's exit code
  manifest,  \* [exit_code, rows_with_mismatches], or << >>
  status     \* the runner's exit status, once it is over

runnerVars == <<stage, occupied, rc, manifest, status>>
expVars == <<vars, runnerVars>>

ExpInit ==
  /\ Init
  /\ stage = "start" /\ occupied \in BOOLEAN
  /\ rc = 0 /\ manifest = << >> /\ status = 0

(* "refusing to overwrite", or the build fails: no manifest.               *)
Refuse ==
  /\ stage = "start" /\ occupied
  /\ stage' = "over" /\ status' = 1
  /\ UNCHANGED <<vars, occupied, rc, manifest>>

BuildFails ==
  /\ stage = "start" /\ ~occupied
  /\ stage' = "over" /\ status' = 1
  /\ UNCHANGED <<vars, occupied, rc, manifest>>

Build ==
  /\ stage = "start" /\ ~occupied
  /\ stage' = "running"
  /\ UNCHANGED <<vars, occupied, rc, manifest, status>>

Run == stage = "running" /\ Next /\ UNCHANGED runnerVars

(* Without a ring the program exits with code 2.                           *)
ProgramExits ==
  /\ stage = "running" /\ phase = "exit"
  /\ stage' = "gate"
  /\ rc' = IF transport = "refused" THEN 2 ELSE 0
  /\ UNCHANGED <<vars, occupied, manifest, status>>

(* It may also crash as it cleans up.                                      *)
ProgramCrashes ==
  /\ stage = "running"
  /\ stage' = "gate" /\ rc' = 1
  /\ UNCHANGED <<vars, occupied, manifest, status>>

(* BAD, and the verdict on the run.                                        *)
Bad == Cardinality({i \in 1 .. Len(rows) : rows[i].mismatches})
VerdictOnRows(bad) == IF bad = 0 THEN 0 ELSE 1
Verdict(bad) == IF rc = 0 /\ bad = 0 THEN 0 ELSE 1

Gate ==
  /\ stage = "gate"
  /\ manifest' = [exit_code |-> rc, rows_with_mismatches |-> Bad]
  /\ status' = Verdict(Bad)
  /\ stage' = "over"
  /\ UNCHANGED <<vars, occupied, rc>>

ExpNext ==
  \/ Refuse \/ BuildFails \/ Build \/ Run \/ ProgramExits \/ ProgramCrashes \/ Gate

ExpSpec == ExpInit /\ [][ExpNext]_expVars

-----------------------------------------------------------------------------
(* build_rows of parse_ring_output.py.  The label tells the subchunks of   *)
(* v3; a row that has not been timed has latency -1.                       *)
LabelOf(case) ==
  IF case.impl = "v3-pipelined" /\ case.sub # 0 THEN <<case.impl, case.sub>> ELSE <<case.impl>>

CorrectnessOk(line) == ~line.mismatches /\ line.latency
ParsedRows ==
  [i \in 1 .. Len(rows) |->
     [config_label   |-> LabelOf(rows[i].case),
      repeat_index   |-> rows[i].repeat,
      correctness_ok |-> CorrectnessOk(rows[i]),
      exit_code      |-> IF manifest = << >> THEN "null" ELSE manifest.exit_code]]

(* The runner judges by an exit code and a column, the parser by another   *)
(* two, long after: when the runner succeeds, every case of every repeat   *)
(* has its row in the results, under a label of its own and called         *)
(* correct; and only then would --strict and the exit code accept them.    *)
Complete ==
  /\ Cardinality({<<ParsedRows[i].config_label, ParsedRows[i].repeat_index>> :
                    i \in 1 .. Len(rows)}) = Len(Cases) * Repeats
  /\ \A i \in 1 .. Len(rows) : ParsedRows[i].correctness_ok /\ ParsedRows[i].exit_code = 0
SuccessIsComplete == stage = "over" => (status = 0 <=> Complete)
=============================================================================
