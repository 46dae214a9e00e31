--------------------------- MODULE MCDdpCampaign ---------------------------
(* Hosts where NCCL's default works or fails in each way while SHM works,  *)
(* and hosts where SHM alone hangs or drifts; two of the three capacities. *)
EXTENDS DdpCampaign

SomeHosts ==
  [p2p : {"works", "hangs", "nan", "drifts"}, shm : {"works"}] \cup
  [p2p : {"works"}, shm : {"hangs", "drifts"}]
TwoCapacities == <<25, 4>>
=============================================================================
