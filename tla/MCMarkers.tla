----------------------------- MODULE MCMarkers -----------------------------
(***************************************************************************)
(* Instances of Markers for TLC.                                           *)
(***************************************************************************)
EXTENDS Markers

Tab == Literal("TAB")
Escape == <<"\\">> \o Prefix

(* A tab, and text that looks like one; a piece of a marker, and a break. *)
File == {<<Marker("TAB"), Text(<<"y">> \o Tab)>>,
         <<Text(Prefix), Marker("LINE_BREAK")>>}

(* Brackets and backslashes in whole markers and escapes alone. *)
Careful ==
    {<<>>, Tab, Escape, <<"nl">>, <<"DOCX:", "]]">>,
     Escape \o <<"TAB", "]]">> \o Tab, <<"z">> \o Literal("x")}

(* All short texts, and longer ones. *)
Tokens == {"[[", "DOCX:", "TAB", "]]", "\\", "nl"}
Short == UNION {[1..n -> Tokens] : n \in 0..3}
Longer == {<<"\\">> \o Escape \o Tab, Tab \o <<"nl">> \o Literal("LINE_BREAK"), Prefix \o Tab,
           <<"\\", "nl", "TAB", "]]">>, <<"[[">> \o Tab \o <<"DOCX:">>,
           Tab \o Tab, Escape \o <<"nl">> \o Escape}
AllTexts == Short \cup Longer

TextsOf == [careful |-> Careful, any |-> AllTexts]
CallsOf == [careful |-> 2, any |-> 1]
=============================================================================
