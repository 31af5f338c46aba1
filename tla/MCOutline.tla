----------------------------- MODULE MCOutline -----------------------------
(***************************************************************************)
(* Instances of Outline for TLC.                                           *)
(***************************************************************************)
EXTENDS Outline

(* Up to three paragraphs, the first and the last in the body, the second   *)
(* there or in a table cell.                                                *)
Small ==
    {[k \in 1..Len(l) |-> [level |-> l[k], place |-> IF k = 2 THEN p ELSE "body"]] :
        l \in UNION {[1..n -> {NotHeading, 1, 2}] : n \in 1..3}, p \in {"body", "cell"}}
=============================================================================
