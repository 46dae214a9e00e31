-------------------------- MODULE MCOverlapBench --------------------------
(* Instances of OverlapResults: sizes in KiB, ratios in percent.           *)
EXTENDS OverlapResults

MCSizes     == <<2048>>
MCWorkloads == <<"compute-gemm", "memory-triad">>
MCRatios    == <<50, 100>>
MCBuckets   == <<1024, 4096>>
=============================================================================
