------------------------------ MODULE Markers ------------------------------
(***************************************************************************)
(* The reserved markers of textmap.py: tabs and breaks are projected as    *)
(* [[DOCX:TAB]] and the like, literal text that begins so is escaped, and  *)
(* text that is written is parsed back, by the edits of paragraph.py and   *)
(* by build_new_paragraph of _paragraph_ops.py.                            *)
(*                                                                         *)
(* A paragraph is a sequence of nodes: a w:t with its text, or a marker.   *)
(* A text is a sequence of tokens, the pieces of markers and a few others: *)
(* "[[", "DOCX:", "]]", the names, "\", "nl" (the newline) and letters.    *)
(*                                                                         *)
(* Abstractions.  Runs, formats and wrappers are module TextSplice's: a    *)
(* splice here is what it does to the nodes, empty ones left out.  A       *)
(* selector may match any range.                                           *)
(***************************************************************************)
EXTENDS Integers, Sequences, SequencesExt, FiniteSets

CONSTANTS
    Paragraphs,     \* the paragraphs of files
    Texts,          \* client -> the texts it writes
    MaxCalls,       \* bound: client -> its calls
    MaxText         \* bound: visible tokens of a paragraph that is edited

Clients == {"careful", "any"}

VARIABLES
    client,     \* whose texts are written
    para,       \* the paragraph
    before,     \* its visible text before the last call
    call,       \* the last call: [does, from, to, text, ok]
    calls       \* the calls so far

vars == <<client, para, before, call, calls>>

Names == {"TAB", "LINE_BREAK"}

Text(tokens) == [tag |-> "t", text |-> tokens]
Marker(name) == [tag |-> name, text |-> <<>>]

Prefix == <<"[[", "DOCX:">>
Literal(name) == Prefix \o <<name, "]]">>

StartsAt(text, word, i) ==
    i + Len(word) - 1 <= Len(text) /\ SubSeq(text, i, i + Len(word) - 1) = word
-----------------------------------------------------------------------------
(* build_text_map: a visible token, its node and the place in the node it   *)
(* comes from; it is glued if no match may begin at it, nor end before it.  *)
Position(token, k, off, glued) == [token |-> token, node |-> k, off |-> off, glued |-> glued]

SlipNotGlued(text, k) ==
    LET From[i \in 1..(Len(text) + 1)] ==
            CASE i > Len(text) -> <<>>
              [] StartsAt(text, Prefix, i) ->
                    <<Position("\\", k, i, FALSE), Position("[[", k, i, TRUE),
                      Position("DOCX:", k, i + 1, FALSE)>> \o From[i + 2]
              [] OTHER -> <<Position(text[i], k, i, FALSE)>> \o From[i + 1]
    IN  From[1]

SlipEveryBracket(text, k) ==
    LET From[i \in 1..(Len(text) + 1)] ==
            CASE i > Len(text) -> <<>>
              [] text[i] = "[[" ->
                    <<Position("\\", k, i, FALSE), Position("[[", k, i, TRUE)>> \o From[i + 1]
              [] OTHER -> <<Position(text[i], k, i, FALSE)>> \o From[i + 1]
    IN  From[1]

(* _escape_literal_docx, of node k: a backslash, with the place of the      *)
(* bracket behind it, in front of each literal prefix.                      *)
Escaped(text, k) ==
    LET From[i \in 1..(Len(text) + 1)] ==
            CASE i > Len(text) -> <<>>
              [] StartsAt(text, Prefix, i) ->
                    <<Position("\\", k, i, FALSE), Position("[[", k, i, TRUE),
                      Position("DOCX:", k, i + 1, TRUE)>> \o From[i + 2]
              [] OTHER -> <<Position(text[i], k, i, FALSE)>> \o From[i + 1]
    IN  From[1]

TextMap(p) ==
    FlattenSeq([k \in 1..Len(p) |->
        IF p[k].tag = "t" THEN Escaped(p[k].text, k)
        ELSE [i \in 1..4 |-> Position(Literal(p[k].tag)[i], k, i, i > 1)]])

(* The visible text: what selectors are matched against. *)
Shown(p) == LET map == TextMap(p) IN [j \in 1..Len(map) |-> map[j].token]
-----------------------------------------------------------------------------
(* Adjacent texts put together. *)
Merged(nodes) ==
    LET Starts   == {j \in DOMAIN nodes :
                        j = 1 \/ nodes[j].tag # "t" \/ nodes[j - 1].tag # "t"}
        Group(j) == Cardinality({s \in Starts : s <= j})
        First(g) == CHOOSE s \in Starts : Group(s) = g
    IN  [g \in 1..Cardinality(Starts) |->
            [tag  |-> nodes[First(g)].tag,
             text |-> FlattenSeq([j \in 1..Len(nodes) |->
                         IF Group(j) = g THEN nodes[j].text ELSE <<>>])]]

Wrong == [tag |-> "wrong", text |-> <<>>]

(* The name of the marker that begins at i: what is before the next "]]". *)
NameAt(text, i) ==
    LET ends == {e \in (i + 2)..Len(text) : text[e] = "]]"}
    IN  IF ends = {} THEN <<>>
        ELSE SubSeq(text, i + 2, (CHOOSE e \in ends : \A f \in ends : e <= f) - 1)

SlipEscapeKept(text) ==
    LET From[i \in 1..(Len(text) + 1)] ==
            CASE i > Len(text) -> <<>>
              [] StartsAt(text, <<"\\">> \o Prefix, i) ->
                    <<Text(<<"\\">> \o Prefix)>> \o From[i + 3]
              [] StartsAt(text, Prefix, i) ->
                    IF \E name \in Names : NameAt(text, i) = <<name>>
                    THEN <<Marker(text[i + 2])>> \o From[i + 4]
                    ELSE <<Wrong>>
              [] OTHER -> <<Text(<<text[i]>>)>> \o From[i + 1]
    IN  Merged(From[1])

(* restore_markers: the nodes of a text that is written, up to the first    *)
(* marker that is unknown or not terminated.                                *)
RestoreMarkers(text) ==
    LET From[i \in 1..(Len(text) + 1)] ==
            CASE i > Len(text) -> <<>>
              [] StartsAt(text, <<"\\">> \o Prefix, i) -> <<Text(Prefix)>> \o From[i + 3]
              [] StartsAt(text, Prefix, i) ->
                    IF \E name \in Names : NameAt(text, i) = <<name>>
                    THEN <<Marker(text[i + 2])>> \o From[i + 4]
                    ELSE <<Wrong>>
              [] OTHER -> <<Text(<<text[i]>>)>> \o From[i + 1]
    IN  Merged(From[1])

Improper(text) == Wrong \in ToSet(RestoreMarkers(text))

(* build_new_paragraph: newlines become markers before the text is parsed. *)
Projected(text) ==
    FlattenSeq([i \in 1..Len(text) |->
        IF text[i] = "nl" THEN Literal("LINE_BREAK") ELSE <<text[i]>>])
-----------------------------------------------------------------------------
(* range_hits_atomic *)
HitsAtomic(map, from, to) == map[from].glued \/ (to < Len(map) /\ map[to + 1].glued)

(* The nodes before position j, and those from position j on; a text node   *)
(* is cut.                                                                  *)
NodesBefore(p, pos) ==
    SubSeq(p, 1, pos.node - 1)
    \o (IF p[pos.node].tag = "t" THEN <<Text(SubSeq(p[pos.node].text, 1, pos.off - 1))>> ELSE <<>>)

NodesAfter(p, pos) ==
    (IF p[pos.node].tag = "t"
     THEN <<Text(SubSeq(p[pos.node].text, pos.off + 1, Len(p[pos.node].text)))>> ELSE <<>>)
    \o SubSeq(p, pos.node + 1, Len(p))

(* _cleanup_run *)
Nonempty(nodes) == SelectSeq(nodes, LAMBDA node : node # Text(<<>>))

(* _splice_match, and _insert_at_boundary as the splice of an empty range   *)
(* before position from (to = from - 1).                                    *)
Spliced(p, from, to, new) ==
    LET map  == TextMap(p)
        head == IF from > Len(map) THEN p ELSE NodesBefore(p, map[from])
        tail == CASE from <= to       -> NodesAfter(p, map[to])
                  [] from > Len(map)  -> <<>>
                  [] OTHER            -> NodesAfter(p, [map[from] EXCEPT !.off = @ - 1])
        whole == IF from > to /\ from <= Len(map) /\ p[map[from].node].tag # "t"
                 THEN <<p[map[from].node]>> ELSE <<>>
    IN  Nonempty(head \o new \o whole \o tail)
-----------------------------------------------------------------------------
Init ==
    /\ client \in Clients
    /\ para \in Paragraphs
    /\ before = Shown(para)
    /\ call = [does |-> "open", from |-> 1, to |-> 0, text |-> <<>>, ok |-> TRUE]
    /\ calls = 0

Called(does, from, to, text, ok) ==
    /\ before' = Shown(para)
    /\ call' = [does |-> does, from |-> from, to |-> to, text |-> text, ok |-> ok]
    /\ calls' = calls + 1
    /\ UNCHANGED client

(* replace_text, delete_text (of no text), insert_text_before and           *)
(* insert_text_after a match: the text that the range [from, to] gives way  *)
(* to, if the match does not cut a marker and the text is proper.           *)
EditText ==
    /\ calls < MaxCalls[client] /\ Len(Shown(para)) <= MaxText
    /\ \E from, to \in 1..Len(Shown(para)), text \in Texts[client],
          does \in {"replace_text", "insert_text_before", "insert_text_after"} :
         LET ok   == ~HitsAtomic(TextMap(para), from, to) /\ ~Improper(text)
             into == CASE does = "replace_text"       -> <<from, to>>
                       [] does = "insert_text_before" -> <<from, from - 1>>
                       [] does = "insert_text_after"  -> <<to + 1, to>>
         IN  /\ from <= to
             /\ Called(does, into[1], into[2], text, ok)
             /\ para' = IF ok THEN Spliced(para, into[1], into[2], RestoreMarkers(text)) ELSE para

(* insert_para_before, insert_para_after, replace_para: a new paragraph, to *)
(* be looked at in place of the old one.                                    *)
BuildNewParagraph ==
    /\ calls < MaxCalls[client]
    /\ \E text \in Texts[client] :
         LET ok == ~Improper(Projected(text))
         IN  /\ Called("build", 1, 0, text, ok)
             /\ para' = IF ok THEN RestoreMarkers(Projected(text)) ELSE para

Next == EditText \/ BuildNewParagraph

Spec == Init /\ [][Next]_vars
-----------------------------------------------------------------------------
(* To a client the visible text is a string: an edit that is accepted gives *)
(* the text, escapes, markers and all, that splicing the strings gives, and *)
(* a paragraph that is built shows the text it was built from.              *)
TextIsAString ==
    call.ok /\ call.does # "open" =>
        Shown(para) =
            IF call.does = "build" THEN Projected(call.text)
            ELSE SubSeq(before, 1, call.from - 1) \o call.text
                 \o SubSeq(before, call.to + 1, Len(before))

(* A paragraph that was built is unambiguous, whatever the text: to write   *)
(* what it shows would give the same nodes again.                           *)
BuiltReadsBack ==
    call.does = "build" /\ call.ok => Merged(para) = RestoreMarkers(Shown(para))
(* "Literal source text beginning `[[DOCX:` MUST be escaped ... and         *)
(* round-trip without loss": what a paragraph shows, written, gives its     *)
(* nodes again, after any edits of a client whose texts have brackets and   *)
(* backslashes in whole markers and escapes alone.  It does not hold of any *)
(* client: a backslash that is put in front of a tab makes it a literal.    *)
ReadsBack == client = "careful" => Merged(para) = RestoreMarkers(Shown(para))
-----------------------------------------------------------------------------
(* Statements of the documentation that the code does not meet. *)

(* "Embedded single \n characters project to <w:br/>": a text without any   *)
(* reserved characters is built with a break for each newline.              *)
NewlinesBreak ==
    call.does = "build" /\ call.ok /\ "DOCX:" \notin ToSet(call.text) =>
        Cardinality({k \in DOMAIN para : para[k].tag = "LINE_BREAK"})
            = Cardinality({i \in DOMAIN call.text : call.text[i] = "nl"})
=============================================================================
