--------------------------- MODULE OverlapResults ---------------------------
(***************************************************************************)
(* What becomes of the rows of overlap_bench: parse_overlap_output.py      *)
(* labels them, analyze_contention.py puts the repeats of a configuration  *)
(* into a cell and reports medians of the cell.  The benchmark flushes     *)
(* every row, so that when it stops early the output holds the rows before *)
(* the one in progress.  Left out: the environment, the columns that are   *)
(* copied or computed, and the medians.                                    *)
(***************************************************************************)
EXTENDS OverlapBench

MiB == 1024

(* build_rows: the label of a row.  The ratio's class is named unless it   *)
(* is the one that every row had at first.                                 *)
LabelWithoutWorkload(r) ==
  IF r.experiment = "bucket" THEN <<"bucket", r.bucket_bytes \div MiB>>
  ELSE <<"micro-ratio", r.ratio_target>>
config_label(r) ==
  IF r.experiment = "bucket" THEN <<"bucket", r.bucket_bytes \div MiB>>
  ELSE <<"micro-ratio", r.ratio_target>> \o
         (IF r.workload = "compute-gemm" THEN << >> ELSE <<r.workload>>)

(* What the output holds now, and the results made of it; without a row    *)
(* there are none.                                                         *)
parse_table == SubSeq(Rows, 1, row - 1)

Parsed(r) ==
  [config_label       |-> config_label(r),
   workload_class     |-> r.workload,
   message_size_bytes |-> r.comm_bytes,
   repeat_index       |-> r.repeat,
   notes              |-> [experiment |-> r.experiment, ratio_target |-> r.ratio_target]]

build_rows == [i \in DOMAIN parse_table |-> Parsed(parse_table[i])]

(* aggregate: the cell a row of the results falls into, and the cells.     *)
ratio_of(p) == p.notes.ratio_target
KeyWithoutWorkload(p) == <<p.message_size_bytes, ratio_of(p)>>
Key(p) == <<p.message_size_bytes, p.workload_class, ratio_of(p)>>

aggregate(rows) ==
  LET keys == {Key(rows[i]) : i \in DOMAIN rows}
  IN  [k \in keys |-> {i \in DOMAIN rows : Key(rows[i]) = k}]

-----------------------------------------------------------------------------
(* A configuration: all of a row but its repeat.                           *)
Configuration(i) == [Rows[i] EXCEPT !.repeat = 0]
Repeated(group) ==
  \A i, j \in group :
    /\ Configuration(i) = Configuration(j)
    /\ i # j => Rows[i].repeat # Rows[j].repeat

(* A label and a size name a configuration in the results: whenever the    *)
(* benchmark stops, the rows that share them are repeats of one.           *)
RowsOfOneNameAreRepeats ==
  LET parsed == build_rows
  IN  \A i \in DOMAIN parsed :
        Repeated({j \in DOMAIN parsed :
          /\ parsed[j].config_label = parsed[i].config_label
          /\ parsed[j].message_size_bytes = parsed[i].message_size_bytes})

(* "Group repeats of one (size, workload, ratio) cell and take medians":   *)
(* of all cells one at most has a median of anything else, wherever the    *)
(* benchmark stops: that of the bucket rows, which all carry the size of   *)
(* the gradient, compute-gemm and ratio 1, and so share it with each other *)
(* and with a micro row.  With --only-micro there is none.                 *)
HoldsBuckets(cell) == \E i \in cell : Rows[i].experiment = "bucket"
OnlyTheBucketCellIsMixed ==
  LET cells == aggregate(build_rows)
  IN  /\ \A k \in DOMAIN cells : Repeated(cells[k]) \/ HoldsBuckets(cells[k])
      /\ \A k, l \in DOMAIN cells : HoldsBuckets(cells[k]) /\ HoldsBuckets(cells[l]) => k = l
=============================================================================
