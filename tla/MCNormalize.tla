----------------------------- MODULE MCNormalize -----------------------------
(***************************************************************************)
(* Instances of Normalize for TLC: every text of up to Length characters   *)
(* over a choice of classes.                                               *)
(***************************************************************************)
EXTENDS Normalize

CONSTANTS Classes, Length

AllTexts == UNION {[1..n -> Classes] : n \in 0..Length}
=============================================================================
