---------------------------- MODULE MCReplaceAll ----------------------------
(***************************************************************************)
(* Instances of ReplaceAll for TLC.                                        *)
(***************************************************************************)
EXTENDS ReplaceAll

In(is, wrap) == [is |-> is, wrap |-> wrap]

Bare(is) == In(is, "none")

Cells == {In("a", wrap) : wrap \in {"none", "sdt", "link", "del"}}
         \cup {Bare("b"), Bare("T"), Bare("tab")}

Strings(S, n) == UNION {[1..k -> S] : k \in 1..n}

(* Longer texts, where matches stand side by side. *)
Runs == [1..4 -> {Bare("a"), Bare("b"), In("a", "link"), In("b", "sdt")}]
        \cup [1..5 -> {Bare("a"), Bare("b")}]

(* Paragraphs to come after them: one that matches, one that is refused     *)
(* half-way, and one whose map does not show what its plain text does.      *)
Others == {<<Bare("a"), Bare("b")>>, <<In("a", "link"), Bare("b"), Bare("a"), Bare("b")>>,
           <<In("a", "sdt"), Bare("b")>>}

Mixed == {<<s, t>> : s \in Strings(Cells, 3) \cup Runs, t \in Others}
         \cup {<<t, s>> : s \in Strings(Cells, 2), t \in Others}

Texts == {<<>>, <<"b">>, <<"c">>, <<"a", "a">>, <<"c", "tab">>, <<"[[DOCX:">>}

Matched == {<<<<"a">>>>, <<<<"a", "b">>>>, <<<<"a", "a">>>>,
            <<<<"a", "a", "b">>, <<"a">>>>, <<<<"b">>, <<"b", "a">>>>,
            <<<<"T">>>>, <<<<"\t">>>>, <<<<"[", "T", "]">>>>}
=============================================================================
