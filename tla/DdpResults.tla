----------------------------- MODULE DdpResults -----------------------------
(***************************************************************************)
(* What becomes of the outputs of DDP launches: the rows                   *)
(* parse_ddp_output.py makes of a directory, and the cells, spreads and    *)
(* verdicts analyze_ddp.py makes of the rows.  Functions of the directory; *)
(* the scripts that fill it are in DdpCampaign.                            *)
(*                                                                         *)
(* A file is named by its launch, [mode, tag, mb, launch]; what it holds   *)
(* is [checked, table, by]: what its CORRECTNESS line says ("passed",      *)
(* "failed", "absent"), the CSV rows it has, [mode, repeat], and which     *)
(* execution printed them.  The last is known to nobody.                   *)
(*                                                                         *)
(* Left out: columns that are copied or converted, the manifest's fields,  *)
(* and the printing.                                                       *)
(***************************************************************************)
EXTENDS Integers, FiniteSets, FiniteSetsExt

KIND == [ddp |-> "ddp-training", single |-> "single-gpu-training",
         serial |-> "serial-reduction", nosync |-> "nosync-probe"]

(* The label a launch is given, and that of its probe: with "-nosync".     *)
LabelOf(path, mode) == [tag |-> path.tag, mb |-> path.mb, nosync |-> mode = "nosync"]

-----------------------------------------------------------------------------
(* parse_table: a file without the table's header has no rows.             *)
parse_table(file) == file.table

Row(path, file, rec) ==
  [raw_output_path |-> path,
   workload_kind   |-> KIND[rec.mode],
   config_label    |-> LabelOf(path, rec.mode),
   bucket_cap_mb   |-> path.mb,
   repeat_index    |-> rec.repeat,
   correctness_ok  |-> file.checked = "passed",
   by              |-> file.by]

build_rows(files) ==
  UNION {{Row(path, files[path], rec) : rec \in parse_table(files[path])} :
           path \in DOMAIN files}

Training(r) == r.workload_kind = "ddp-training"

(* attach_sync_cost: the probes a row's no_sync time may be taken from.    *)
ProbesByLabel(rows, r) ==
  {q \in rows : /\ q.workload_kind = "nosync-probe"
                /\ q.config_label = [r.config_label EXCEPT !.nosync = TRUE]}
ProbesOf(rows, r) ==
  {q \in rows : /\ q.workload_kind = "nosync-probe"
                /\ q.raw_output_path = r.raw_output_path
                /\ q.config_label = [r.config_label EXCEPT !.nosync = TRUE]}

-----------------------------------------------------------------------------
(* group: the rows that count, by bucket capacity or else by label.        *)
NoPrefix == "none"
Counts(r, relaunch, prefix) ==
  IF Training(r)
  THEN /\ (r.config_label.tag = "relaunch") = relaunch
       /\ prefix \in {NoPrefix, r.config_label.tag}
  ELSE ~relaunch

Key(r) == IF Training(r) THEN <<"MiB", r.bucket_cap_mb>> ELSE <<"label", r.config_label>>

(* The cells: sets of rows.                                                *)
group(rows, relaunch, prefix) ==
  LET counted == {r \in rows : Counts(r, relaunch, prefix)}
  IN  {{r \in counted : Key(r) = k} : k \in {Key(r) : r \in counted}}

CellsOf(kind, cells) == {cell \in cells : \A r \in cell : r.workload_kind = kind}

(* main: the noise floor is that of the relaunch-* rows, and if there are  *)
(* none that of the others.                                                *)
NoiseCells(rows, prefix) ==
  LET relaunches == CellsOf("ddp-training", group(rows, TRUE, prefix))
  IN  IF relaunches # {} THEN relaunches
      ELSE CellsOf("ddp-training", group(rows, FALSE, prefix))

-----------------------------------------------------------------------------
(* Step times are integers, time[r] of row r; medians are doubled.         *)
TimesIn(cell, time) == {time[r] : r \in cell}

(* statistics.median, twice: the k-th smallest is the least time that k    *)
(* rows do not exceed.                                                     *)
Smallest(k, cell, time) ==
  Min({t \in TimesIn(cell, time) : Cardinality({r \in cell : time[r] <= t}) >= k})
Median2(cell, time) ==
  LET n == Cardinality(cell)
  IN  Smallest((n + 1) \div 2, cell, time) + Smallest(n \div 2 + 1, cell, time)

Spread(cell, time) == Max(TimesIn(cell, time)) - Min(TimesIn(cell, time))

(* plateau: the largest spread of any cell.                                *)
NoiseOfTightest(cells, time) ==
  IF cells = {} THEN 0 ELSE Min({Spread(cell, time) : cell \in cells})
Noise(cells, time) ==
  IF cells = {} THEN 0 ELSE Max({Spread(cell, time) : cell \in cells})

Best2(cells, time) == Min({Median2(cell, time) : cell \in cells})

(* main's verdict on a cell: the gap to the best is beyond the noise.      *)
Resolvable(cell, cells, noise, time) ==
  Median2(cell, time) - Best2(cells, time) > 2 * noise
=============================================================================
