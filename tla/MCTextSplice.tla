---------------------------- MODULE MCTextSplice ----------------------------
(***************************************************************************)
(* Instances of TextSplice for TLC.                                        *)
(***************************************************************************)
EXTENDS TextSplice

Run(wrap, fmt, kids) == [is |-> "run", wrap |-> wrap, fmt |-> fmt, kids |-> kids]
Point(wrap, n) == [is |-> "point", wrap |-> wrap, fmt |-> n, kids |-> <<>>]
Tab(c) == [tag |-> "tab", chars |-> <<c, c + 1>>]
Object == [tag |-> "obj", chars |-> <<>>]

None == [w \in {} |-> "ins"]

(* Texts, a marker and a drawing in runs of their own and together. *)
Nodes ==
    [items |-> <<Run(0, 1, <<Text(<<1>>), Tab(3)>>), Point(0, 1),
                 Run(0, 2, <<Object, Text(<<5>>)>>)>>,
     wraps |-> None]

(* Two inserted revisions, of two runs and of one, with points about them. *)
Inserted ==
    [items |-> <<Run(0, 1, <<Text(<<1>>)>>),
                 Run(1, 2, <<Text(<<2>>)>>), Run(1, 3, <<Text(<<3>>)>>), Point(0, 1),
                 Point(2, 2), Run(2, 4, <<Text(<<4>>)>>)>>,
     wraps |-> 1 :> "ins" @@ 2 :> "ins"]

(* A link between texts. *)
Linked ==
    [items |-> <<Run(0, 1, <<Text(<<1>>)>>), Run(1, 2, <<Text(<<2>>)>>),
                 Run(0, 1, <<Text(<<3, 4>>)>>)>>,
     wraps |-> 1 :> "link"]

(* A deleted revision and a content control between texts. *)
Deleted ==
    [items |-> <<Run(0, 1, <<Text(<<1>>)>>), Run(1, 2, <<Text(<<2>>)>>), Point(0, 1),
                 Run(2, 2, <<Text(<<3>>)>>), Run(0, 1, <<Text(<<4>>)>>)>>,
     wraps |-> 1 :> "del" @@ 2 :> "sdt"]

All == {Nodes, Inserted, Linked, Deleted}
=============================================================================
