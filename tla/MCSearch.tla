------------------------------ MODULE MCSearch ------------------------------
(***************************************************************************)
(* Instances of Search, and of the walk it reads from, for TLC: documents   *)
(* put together from forests, with one wording, and documents of two or    *)
(* three paragraphs with all sorts of wordings.                            *)
(***************************************************************************)
EXTENDS Search

Element(tag, val, in) == [tag |-> tag, val |-> val, in |-> in]

(* The elements of a forest whose roots have the parent up, the first of    *)
(* them being number n.                                                     *)
RECURSIVE Flat(_, _, _)
Flat(forest, up, n) ==
    IF forest = <<>> THEN <<>>
    ELSE LET root == Head(forest)
             own  == <<[tag |-> root.tag, up |-> up, val |-> root.val]>> \o Flat(root.in, n, n + 1)
         IN  own \o Flat(Tail(forest), up, n + Len(own))

P == Element("p", 0, <<>>)
Box(in) == Element("p", 0, <<Element("box", 0, in)>>)
Sdt(in) == Element("sdt", 0, in)
Cell(span, in) == Element("tc", span, in)
Row(before, cells) == Element("tr", before, cells)
Grid(rows) == Element("tbl", 0, rows)

(* Tables that are nested: of one cell, and of two rows. *)
Small == Grid(<<Row(0, <<Cell(1, <<P>>)>>)>>)
Tall == Grid(<<Row(0, <<Cell(1, <<P>>)>>), Row(1, <<Cell(2, <<P>>), Cell(1, <<P, P>>)>>)>>)

Contents == {<<P>>, <<P, P>>, <<Sdt(<<P>>), P>>, <<Tall, P>>, <<Box(<<P, Small>>), P>>,
             <<Sdt(<<Small>>), P>>, <<Grid(<<Row(0, <<Cell(1, <<Tall, P>>)>>)>>), P>>}

Tables ==
    {Grid(<<Row(b, <<Cell(s, c), Cell(1, <<P>>)>>), Row(0, <<Cell(1, d), Cell(2, <<P>>)>>)>>) :
        b \in 0..1, s \in 1..2, c \in Contents, d \in Contents}
    \cup {Grid(<<Sdt(<<Row(0, <<Cell(1, <<P>>)>>)>>), Row(0, <<Sdt(<<Cell(2, <<P>>)>>), Cell(1, c)>>)>>) :
        c \in Contents}

Forests == {<<t, P>> : t \in Tables} \cup {<<P, Sdt(<<P>>), t>> : t \in Tables}

Structured == {Flat(f, 0, 1) : f \in Forests}

Nodes == UNION {[1..n -> {"a", "b"}] : n \in 0..2}

(* Paragraphs of one or two nodes of up to two characters, and two longer   *)
(* ones.                                                                    *)
Paras ==
    {<<n>> : n \in Nodes} \cup {<<m, n>> : m, n \in Nodes}
    \cup {<<<<"a", "b">>, <<"a">>, <<>>, <<"b", "a">>>>,
          <<<<"a">>, <<"a", "a">>, <<"b">>>>, <<>>}

Others == {<<>>, <<<<"b", "a">>>>, <<<<"a">>, <<"b", "a">>>>}

Mixed == {<<p, q>> : p \in Paras, q \in Others} \cup {<<q, <<>>, p>> : p \in Paras, q \in Others}

Literal(s) == [regex |-> FALSE, text |-> s]
Star == [regex |-> TRUE, text |-> <<"a">>]

Needles == {Literal(<<"a">>), Literal(<<"a", "a">>), Literal(<<"a", "b", "a">>), Star}
Simple == {Flat(<<P, P>>, 0, 1), Flat(<<P, P, P>>, 0, 1)}
Files == Structured \cup Simple

(* The paragraphs of the structured documents hold "aba" or nothing, in     *)
(* turns.                                                                   *)
WordingsOf(doc) ==
    IF doc \in Simple THEN {w \in Mixed : Len(w) = Len(doc)}
    ELSE {[e \in DOMAIN doc |-> IF e % 2 = 0 THEN <<<<"a">>, <<"b", "a">>>> ELSE <<>>]}
=============================================================================
