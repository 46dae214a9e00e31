-------------------------- MODULE MCNcclExperiment --------------------------
(* Two collectives, and configurations in the order of their manifests'    *)
(* names: run_manifest.async.json, run_manifest.json, run_manifest.tree... *)
EXTENDS NcclExperiment

TwoCollectives == <<"all_reduce", "all_gather">>
ThreeLabels == <<"async", NoLabel, "tree">>
=============================================================================
