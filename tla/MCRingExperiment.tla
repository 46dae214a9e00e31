-------------------------- MODULE MCRingExperiment --------------------------
(* Hosts of four devices for RingExperiment: any capability matrix with no *)
(* mapping broken, and full capability with any mappings broken.           *)
EXTENDS RingExperiment

Pairs4 == {m \in (0 .. 3) \X (0 .. 3) : m[1] # m[2]}
FourDevices ==
  [can : SUBSET Pairs4, broken : {{}}, allowHostStaged : BOOLEAN] \cup
  [can : {Pairs4}, broken : SUBSET Pairs4, allowHostStaged : BOOLEAN]

(* The end of main's list: two cases of one implementation, and NCCL.      *)
LastCases ==
  <<[impl |-> "v3-pipelined", sub |-> 2], [impl |-> "v3-pipelined", sub |-> 4],
    [impl |-> "nccl-reference", sub |-> 0]>>
============================================================================
