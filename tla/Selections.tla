------------------------------ MODULE Selections ------------------------------
(***************************************************************************)
(* The comprehensions of the source: what of a list is in a set, in order. *)
(***************************************************************************)
EXTENDS Integers, SequencesExt

(* [x for x in s if x in K] *)
Those(s, K) == FlattenSeq([k \in 1..Len(s) |-> IF s[k] \in K THEN <<s[k]>> ELSE <<>>])
=============================================================================
