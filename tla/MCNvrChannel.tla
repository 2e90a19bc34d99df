---------------------------- MODULE MCNvrChannel ----------------------------
(***************************************************************************)
(* Instances of NvrChannel for TLC: r1 and r2 read the second stream, r3   *)
(* the first.                                                              *)
(***************************************************************************)
EXTENDS NvrChannel

CONSTANTS r1, r2, r3

MCStreamOf == [r \in Readers |-> IF r = r3 THEN 0 ELSE 1]
=============================================================================
