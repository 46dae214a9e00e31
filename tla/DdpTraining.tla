---------------------------- MODULE DdpTraining ----------------------------
(***************************************************************************)
(* train_ddp.py under torchrun: every rank runs the same program of        *)
(* training steps, checks and collectives, at its own speed, and meets the *)
(* others only in the collectives.                                         *)
(*                                                                         *)
(* The program is the sequence of what main does that another rank can     *)
(* notice or that a later decision looks at: a step is a forward pass, a   *)
(* backward pass, the collectives on the gradients and the optimizer; the  *)
(* rest are the probe of the correctness check, check_param_sync, the      *)
(* decision to abort, resync_params and the exchange of step times.        *)
(*                                                                         *)
(* Parameters are told apart by the updates that made them: an update is   *)
(* the set of ranks whose gradients were averaged into it.  A loss or a    *)
(* gradient may stop being finite at any moment, and then everything       *)
(* computed from it is not finite either (the loss, the gradient, the      *)
(* average it enters, the parameters that average updates).                *)
(***************************************************************************)
EXTENDS Integers, Sequences

CONSTANTS
  World,         \* the number of ranks
  Modes,         \* the modes looked at, of "single", "ddp" and "serial"
  Warmup, Correctness, Steps, Repeats,  \* steps per window, and measured windows
  MaxOverflows   \* bound: how often something stops being finite by itself

ASSUME WorldAssumption == World \in Nat \ {0}
ASSUME WindowAssumption ==
  Warmup \in Nat /\ Correctness \in Nat /\ Steps \in Nat /\ Repeats \in Nat
(* "--mode single: one GPU, no distributed anything": it is not started    *)
(* under torchrun, and its parameters would drift if it were.              *)
ASSUME ModeAssumption ==
  Modes \subseteq {"single", "ddp", "serial"} /\ ("single" \in Modes => World = 1)

Ranks == 0 .. World - 1

VARIABLES
  args,      \* mode, calibrate and nosync_probe of this launch: never changes
  program,   \* the instructions this launch makes of them: never changes
  pc,        \* pc[r]: the instruction rank r is at
  params,    \* params[r]: the updates that made rank r's parameters, and if finite
  moments,   \* moments[r]: the updates the optimizer state has seen
  grads,     \* grads[r]: whose gradients rank r's .grad averages, and if finite
  loss,      \* loss[r]: the losses of rank r's current window are finite
  finite,    \* finite[r]: loss_finite and grads_finite so far
  syncErr,   \* syncErr[r]: what check_param_sync returned, "zero", "nonzero", "nan"
  verdict,   \* verdict[r]: "undecided", "go on", "abort"
  pending,   \* what the ranks inside the current collective brought to it
  owed,      \* the ranks that have not left the collective before
  result,    \* what that collective computed
  overflows

commVars == <<pending, owed, result>>
vars == <<args, program, pc, params, moments, grads, loss, finite, syncErr, verdict, commVars,
          overflows>>

-----------------------------------------------------------------------------
(* The model is wrapped in DDP.                                            *)
Wrapped == args.mode # "single" /\ World > 1

I(op, win) == [op |-> op, win |-> win]
When(b, s) == IF b THEN s ELSE <<>>
Cycle(s, n) == [i \in 1 .. n * Len(s) |-> s[((i - 1) % Len(s)) + 1]]

(* A window runs its backward passes outside no_sync, but for the probe    *)
(* after the measurements.  DDP's reducer then averages the gradients; in  *)
(* serial mode a flat AllReduce averages them after that.                  *)
WindowSyncsAfterWarmup(win) == win \notin {"warmup", "nosync"}
WindowSyncs(win) == win # "nosync"
Step(win) ==
  <<I("forward", win), I("backward", win)>> \o
  When(Wrapped /\ WindowSyncs(win), <<I("reducer", win)>>) \o
  When(args.mode = "serial" /\ win # "nosync", <<I("flat", win)>>) \o
  <<I("optimizer", win)>>

(* run_window: its losses are new, and its steps follow each other.        *)
Window(win, steps) == <<I("window", win)>> \o Cycle(Step(win), steps)

(* The rest of the correctness check: one more forward and backward pass   *)
(* to look at the gradients, and the comparison of the parameters with     *)
(* those of rank 0.                                                        *)
LocalProbe == <<I("backward", "probe"), I("inspect", "probe")>>
Probe == <<I("backward", "probe")>> \o
         When(Wrapped, <<I("reducer", "probe")>>) \o <<I("inspect", "probe")>>
CheckParamSync == When(World > 1, <<I("broadcast", "check"), I("worst", "check")>>)

Measured == Cycle(Window("measured", Steps), Repeats)
NoSyncProbe == When(args.nosync_probe /\ Wrapped,
                    Window("nosync", Steps) \o <<I("resync", "nosync")>>)
Finish == When(World > 1, <<I("slowest", "end")>>)

Before == Window("warmup", Warmup)
Check  == Window("correctness", Correctness) \o Probe \o CheckParamSync \o
          <<I("decide", "check")>>
ProgramProbingFirst ==
  IF args.calibrate THEN Before \o Window("calibrate", Steps)
  ELSE Before \o Check \o NoSyncProbe \o Measured \o Finish
Program ==
  IF args.calibrate THEN Before \o Window("calibrate", Steps)
  ELSE Before \o Check \o Measured \o NoSyncProbe \o Finish

Running(r) == pc[r] <= Len(program)
At(r) == program[pc[r]]
Is(r, op) == Running(r) /\ At(r).op = op
Advance(r) == pc' = [pc EXCEPT ![r] = @ + 1]

-----------------------------------------------------------------------------
NoGrads == [from |-> {}, ok |-> TRUE]

Init ==
  /\ args \in [mode : Modes, calibrate : BOOLEAN, nosync_probe : BOOLEAN]
  /\ program = Program
  /\ pc = [r \in Ranks |-> 1]
  /\ params = [r \in Ranks |-> [made |-> <<>>, ok |-> TRUE]]
  /\ moments = [r \in Ranks |-> <<>>]
  /\ grads = [r \in Ranks |-> NoGrads]
  /\ loss = [r \in Ranks |-> TRUE]
  /\ finite = [r \in Ranks |-> TRUE]
  /\ syncErr = [r \in Ranks |-> "zero"]
  /\ verdict = [r \in Ranks |-> "undecided"]
  /\ pending = <<>> /\ owed = {} /\ result = [op |-> "none"]
  /\ overflows = 0

(* What comes out of a computation on something finite or not.             *)
Computes(before, after) ==
  \/ after = before /\ UNCHANGED overflows
  \/ before /\ ~after /\ overflows < MaxOverflows /\ overflows' = overflows + 1

BeginWindow(r) ==
  /\ Is(r, "window")
  /\ loss' = [loss EXCEPT ![r] = TRUE]
  /\ Advance(r)
  /\ UNCHANGED <<args, program, params, moments, grads, finite, syncErr, verdict, commVars,
                 overflows>>

Forward(r) ==
  /\ Is(r, "forward")
  /\ \E ok \in BOOLEAN : /\ Computes(params[r].ok, ok)
                         /\ loss' = [loss EXCEPT ![r] = @ /\ ok]
                         /\ grads' = [grads EXCEPT ![r].ok = ok]
  /\ Advance(r)
  /\ UNCHANGED <<args, program, params, moments, finite, syncErr, verdict, commVars>>

(* The gradients of this rank's own batch.  The probe's backward pass      *)
(* includes its forward pass, whose loss nobody looks at.                  *)
Backward(r) ==
  /\ Is(r, "backward")
  /\ \E ok \in BOOLEAN :
       /\ Computes(params[r].ok /\ (At(r).win = "probe" \/ grads[r].ok), ok)
       /\ grads' = [grads EXCEPT ![r] = [from |-> {r}, ok |-> ok]]
  /\ Advance(r)
  /\ UNCHANGED <<args, program, params, moments, loss, finite, syncErr, verdict, commVars>>

(* AdamW's step and zero_grad.                                             *)
Optimizer(r) ==
  /\ Is(r, "optimizer")
  /\ params' = [params EXCEPT ![r] = [made |-> Append(@.made, grads[r].from),
                                      ok   |-> @.ok /\ grads[r].ok]]
  /\ moments' = [moments EXCEPT ![r] = Append(@, grads[r].from)]
  /\ grads' = [grads EXCEPT ![r] = NoGrads]
  /\ Advance(r)
  /\ UNCHANGED <<args, program, loss, finite, syncErr, verdict, commVars, overflows>>

(* loss_finite of the window that has just ended, and grads_finite.        *)
Inspect(r) ==
  /\ Is(r, "inspect")
  /\ finite' = [finite EXCEPT ![r] = loss[r] /\ grads[r].ok]
  /\ grads' = [grads EXCEPT ![r] = NoGrads]
  /\ Advance(r)
  /\ UNCHANGED <<args, program, params, moments, loss, syncErr, verdict, commVars, overflows>>

(* Every rank decides for itself; one that aborts leaves the group.        *)
GoOn(r) ==
  /\ Is(r, "decide") /\ finite[r]
  /\ verdict' = [verdict EXCEPT ![r] = "go on"]
  /\ Advance(r)
  /\ UNCHANGED <<args, program, params, moments, grads, loss, finite, syncErr, commVars,
                 overflows>>
Abort(r) ==
  /\ Is(r, "decide") /\ ~finite[r]
  /\ verdict' = [verdict EXCEPT ![r] = "abort"]
  /\ pc' = [pc EXCEPT ![r] = Len(program) + 1]
  /\ UNCHANGED <<args, program, params, moments, grads, loss, finite, syncErr, commVars,
                 overflows>>

-----------------------------------------------------------------------------
(* Collectives (external: NCCL and DDP's reducer).  A rank brings what it  *)
(* has to the collective its program is at; when all have, the result is   *)
(* there and each takes it and goes on.  Ranks that meet in different      *)
(* collectives never get a result.                                         *)
Collectives == {"reducer", "flat", "broadcast", "worst", "resync", "slowest"}

Brought(r) ==
  CASE At(r).op \in {"reducer", "flat"} -> grads[r]
    [] At(r).op \in {"broadcast", "resync"} -> params[r]
    [] At(r).op = "worst" -> syncErr[r]
    [] At(r).op = "slowest" -> "time"

Average(all) == [from |-> UNION {all[q].from : q \in Ranks}, ok |-> \A q \in Ranks : all[q].ok]
Worst(all) == IF \E q \in Ranks : all[q] = "nan" THEN "nan"
              ELSE IF \E q \in Ranks : all[q] = "nonzero" THEN "nonzero" ELSE "zero"
Combined(op, all) ==
  CASE op \in {"reducer", "flat"} -> Average(all)
    [] op \in {"broadcast", "resync"} -> all[0]
    [] op = "worst" -> Worst(all)
    [] op = "slowest" -> "time"

Enter(r) ==
  /\ Running(r) /\ At(r).op \in Collectives
  /\ r \notin DOMAIN pending \cup owed
  /\ LET here == [q \in DOMAIN pending \cup {r} |->
                     IF q = r THEN [op |-> At(r).op, value |-> Brought(r)] ELSE pending[q]]
         all  == [q \in DOMAIN here |-> here[q].value]
     IN  IF DOMAIN here # Ranks
         THEN pending' = here /\ UNCHANGED <<owed, result>>
         ELSE /\ \A q \in Ranks : here[q].op = At(r).op
              /\ result' = [op |-> At(r).op, value |-> Combined(At(r).op, all)]
              /\ owed' = Ranks
              /\ pending' = <<>>
  /\ UNCHANGED <<args, program, pc, params, moments, grads, loss, finite, syncErr, verdict,
                 overflows>>

Leaving(r, ops) ==
  /\ r \in owed /\ Running(r) /\ At(r).op \in ops
  /\ owed' = owed \ {r}
  /\ Advance(r)
  /\ UNCHANGED <<args, program, moments, loss, finite, verdict, pending, result, overflows>>

TakeAverage(r) ==
  /\ Leaving(r, {"reducer", "flat"})
  /\ grads' = [grads EXCEPT ![r] = result.value]
  /\ UNCHANGED <<params, syncErr>>

Difference(p, q) == IF ~(p.ok /\ q.ok) THEN "nan"
                    ELSE IF p.made = q.made THEN "zero" ELSE "nonzero"
CompareWithRank0(r) ==
  /\ Leaving(r, {"broadcast"})
  /\ syncErr' = [syncErr EXCEPT ![r] = Difference(params[r], result.value)]
  /\ UNCHANGED <<params, grads>>

TakeWorst(r) ==
  /\ Leaving(r, {"worst"})
  /\ syncErr' = [syncErr EXCEPT ![r] = result.value]
  /\ UNCHANGED <<params, grads>>

ResyncParams(r) ==
  /\ Leaving(r, {"resync"})
  /\ params' = [params EXCEPT ![r] = result.value]
  /\ UNCHANGED <<grads, syncErr>>

ReportTimes(r) ==
  /\ Leaving(r, {"slowest"})
  /\ UNCHANGED <<params, grads, syncErr>>

RankStep(r) ==
  \/ BeginWindow(r) \/ Forward(r) \/ Backward(r) \/ Optimizer(r)
  \/ Inspect(r) \/ GoOn(r) \/ Abort(r)
  \/ Enter(r) \/ TakeAverage(r) \/ CompareWithRank0(r) \/ TakeWorst(r)
  \/ ResyncParams(r) \/ ReportTimes(r)

Next == \E r \in Ranks : RankStep(r)

Safety == Init /\ [][Next]_vars
(* Every rank is a process of its own and keeps running.                   *)
Spec == Safety /\ \A r \in Ranks : WF_vars(RankStep(r))

-----------------------------------------------------------------------------
Exited(r) == ~Running(r)

(* The correctness check compares equal parameters: on every rank what     *)
(* check_param_sync returns is zero, or not a number when the parameters   *)
(* themselves are not.                                                     *)
ParametersNeverDrift ==
  \A r \in Ranks : syncErr[r] # "nonzero"

(* Every measured step averages gradients of the same parameters, and      *)
(* updates them with the same optimizer state, on all ranks: the probe     *)
(* without synchronisation, which resync_params undoes only for the        *)
(* parameters, never comes before one.                                     *)
MeasuredStepsStartEqual ==
  \A r, q \in Ranks :
    /\ Is(r, "forward") /\ At(r).win = "measured"
    /\ pc[q] = pc[r]
    => params[r] = params[q] /\ moments[r] = moments[q]

(* Each rank decides to abort from its own losses and gradients, and yet   *)
(* all decide the same: none is left waiting for one that has gone.        *)
AbortIsUnanimous ==
  \A r, q \in Ranks : ~(verdict[r] = "abort" /\ verdict[q] = "go on")

(* No rank waits for ever in a collective.                                 *)
EveryRankExits == <>(\A r \in Ranks : Exited(r))
=============================================================================
