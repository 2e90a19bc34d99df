---------------------------- MODULE AvPoolClaims ----------------------------
(***************************************************************************)
(* What a comment of the av_pool driver says of a pool, stated of the      *)
(* model.  The code does otherwise; a run refutes the claim.               *)
(***************************************************************************)
EXTENDS AvPool

\* av_pool_mng.c:669, "copy the newest frame and return": the first read of a reader of
\* the talk pool gets the newest frame.
FirstReadIsNewest ==
  [][\A r \in Readers :
       got'[r] # got[r] /\ got'[r].asked = "first" => got'[r].no = frameNo]_got
=============================================================================
