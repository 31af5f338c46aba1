------------------------------ MODULE MCBatch ------------------------------
(***************************************************************************)
(* Instances of BatchProperties for TLC.                                   *)
(***************************************************************************)
EXTENDS BatchProperties

Plain2 == <<FALSE, FALSE>>
WithBox == <<FALSE, TRUE, FALSE>>

OneItem == {<<FALSE>>}
OneOrTwo == {<<FALSE>>, <<FALSE, FALSE>>}
OneOrBoxed == {<<FALSE>>, <<FALSE, TRUE>>}

Op(kind, targets, shape) == [op |-> kind, targets |-> targets, shape |-> shape, ok |-> TRUE]

(* The operations over the IDs in S, deletes naming up to two of them, and *)
(* one operation that is malformed.                                        *)
OpsOver(S, shapes) ==
    {Op(kind, <<i>>, shape) : kind \in Inserting, i \in S, shape \in shapes}
    \cup {Op("text", <<i>>, <<>>) : i \in S}
    \cup {Op("delete_para", t, <<>>) : t \in {<<i>> : i \in S} \cup {<<i, j>> : i, j \in S}}
    \cup {[Op("text", <<1>>, <<>>) EXCEPT !.ok = FALSE]}

Ops2 == OpsOver(1..2, OneItem)
Ops2Long == OpsOver(1..2, OneOrTwo)
Ops3 == OpsOver(1..3, OneItem)
OpsBoxed == OpsOver(1..3, OneOrBoxed)
=============================================================================
