--------------------------- MODULE MCMultinodeNccl ---------------------------
(* What -c asks for: collectives with and without a binary, in any order.  *)
EXTENDS MultinodeNccl

Asked ==
  {<<"all_reduce", "all_gather">>, <<"all_reduce", "unknown">>, <<"unknown", "all_reduce">>}
=============================================================================
