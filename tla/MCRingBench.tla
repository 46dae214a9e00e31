---------------------------- MODULE MCRingBench ----------------------------
(***************************************************************************)
(* Hosts, cases and bounds for model checking RingBench.                   *)
(***************************************************************************)
EXTENDS RingBench

(* Every host of three devices: any capability matrix, and any of the      *)
(* allowed mappings broken.                                                *)
Pairs3   == {m \in (0 .. 2) \X (0 .. 2) : m[1] # m[2]}
AllHosts ==
  {h \in [can : SUBSET Pairs3, broken : SUBSET Pairs3, allowHostStaged : BOOLEAN] :
     h.broken \subseteq h.can}

(* The end of main's list: two cases of one implementation, and NCCL.      *)
LastCases ==
  <<[impl |-> "v3-pipelined", sub |-> 2], [impl |-> "v3-pipelined", sub |-> 4],
    [impl |-> "nccl-reference", sub |-> 0]>>
============================================================================
