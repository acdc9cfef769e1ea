------------------------ MODULE MC_UnparallelHashAgg ------------------------
(* Three keys; the child returns every stream of up to MaxChunks chunks   *)
(* of 1..MaxRows rows, so keys repeat within and across chunks; the plan  *)
(* has GROUP BY or not.                                                     *)
EXTENDS UnparallelHashAgg

CONSTANTS k1, k2, k3, MaxChunks, MaxRows

MCKeys == {k1, k2, k3}
MCInputs == SeqOf(SeqOf(MCKeys, MaxRows) \ {<<>>}, MaxChunks)
=============================================================================
