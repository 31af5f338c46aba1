------------------------------- MODULE Search -------------------------------
(***************************************************************************)
(* The reads of document.py that look for text: the matchers, the node     *)
(* ranges that find_text reports, and grep_paragraphs and count_matches    *)
(* over windows of the paragraph list, read by a client page by page from   *)
(* the index that the walk of module Locations has built.                  *)
(*                                                                         *)
(* A paragraph is a sequence of nodes, each a sequence of characters: the  *)
(* text of a w:t, which may be empty, or the one character of a tab or a   *)
(* break.  Deleted text is not there.  Ranges are as in the code: offsets  *)
(* from 0, the end excluded.                                               *)
(*                                                                         *)
(* Abstractions.  Of regular expressions there is one kind, c*, greedy and *)
(* able to match nothing.  Raw searches, where a range is that of the XML, *)
(* differ in the text alone.  The document does not change while it is     *)
(* read.                                                                   *)
(***************************************************************************)
EXTENDS Locations, Selections

CONSTANTS
    Wordings(_),    \* what the paragraphs of a document may hold: functions
                    \* from its elements to paragraphs
    Patterns,       \* the patterns: [regex, text]
    Limits          \* the page sizes

ASSUME WordingsAssumption ==
    \A doc \in Documents : Wordings(doc) \subseteq [DOMAIN doc -> Seq(Seq(STRING))]

(* A literal pattern that is empty is refused; c* has its c. *)
ASSUME PatternsAssumption ==
    Patterns \subseteq [regex : BOOLEAN, text : Seq(STRING) \ {<<>>}]

(* A limit below 0 is refused. *)
ASSUME LimitsAssumption == Limits \subseteq Nat

VARIABLES
    text,       \* what the paragraphs hold, by element
    pattern,    \* what the client looks for, NoPattern before it asks
    limit,      \* the size of its pages
    start,      \* the number of the first paragraph of the next page
    found       \* what its pages have shown: [para, range], in order

search == <<pattern, limit, start, found>>
vars == <<walked, text, search>>

NoPattern == [regex |-> FALSE, text |-> <<>>]

(* The records of the index, as what their paragraphs hold. *)
records == [k \in DOMAIN yielded |-> text[yielded[k].para]]

(* visible_text_plain *)
Plain(para) == FlattenSeq(para)

Span(s, e) == [start |-> s, end |-> e]
-----------------------------------------------------------------------------
(* _compile_matcher *)

Occurrences(word, needle) ==
    {i \in 0..(Len(word) - Len(needle)) : SubSeq(word, i + 1, i + Len(needle)) = needle}

(* The variables of the loops that look for matches. *)
NoRanges == [start |-> 0, ranges |-> <<>>]

(* A turn of the loop of _find_literal: the next occurrence at or after the *)
(* end of the last.                                                         *)
LiteralTurn(word, needle, loop) ==
    LET later == {i \in Occurrences(word, needle) : i >= loop.start}
    IN  IF later = {} THEN loop
        ELSE LET end == Min(later) + Len(needle)
             IN  [start |-> end, ranges |-> Append(loop.ranges, Span(Min(later), end))]

(* _find_literal; there are no more turns than characters. *)
FindLiteral(word, needle) ==
    LET After[k \in 0..(Len(word) + 1)] ==
            IF k = 0 THEN NoRanges ELSE LiteralTurn(word, needle, After[k - 1])
    IN  After[Len(word) + 1].ranges

(* The end of the run of c that begins at offset p. *)
RunEnd(word, c, p) ==
    Min({e \in p..Len(word) : e = Len(word) \/ word[e + 1] # c})

(* A turn of finditer, of c*: it goes on behind a match, and one character  *)
(* behind an empty one.                                                     *)
StarTurn(word, c, loop) ==
    IF loop.start > Len(word) THEN loop
    ELSE LET end == RunEnd(word, c, loop.start)
         IN  [start  |-> IF end = loop.start THEN end + 1 ELSE end,
              ranges |-> Append(loop.ranges, Span(loop.start, end))]

(* _find_regex *)
FindStar(word, c) ==
    LET After[k \in 0..(Len(word) + 1)] ==
            IF k = 0 THEN NoRanges ELSE StarTurn(word, c, After[k - 1])
    IN  After[Len(word) + 1].ranges

FindAll(word) ==
    IF pattern.regex THEN FindStar(word, pattern.text[1]) ELSE FindLiteral(word, pattern.text)
-----------------------------------------------------------------------------
(* find_text *)

(* visible_char_node_ordinals: per character, the number of its node among  *)
(* those that have text.                                                    *)
Ordinals(para) ==
    LET nodes == Those(para, ToSet(para) \ {<<>>})
    IN  FlattenSeq([k \in 1..Len(nodes) |-> [j \in 1..Len(nodes[k]) |-> k - 1]])

SlipEndIncluded(para, range) ==
    LET ord == Ordinals(para)
        At(i) == IF i < Len(ord) THEN ord[i + 1] ELSE Last(ord)
    IN  IF ord = <<>> THEN [first |-> range.start, last |-> range.end, crosses |-> FALSE]
        ELSE [first |-> At(range.start), last |-> At(range.end),
              crosses |-> At(range.start) # At(range.end)]

(* The nodes a match is said to reach from and to; one that begins behind   *)
(* the text, or ends at its beginning, gets the last node.                  *)
NodeRange(para, range) ==
    LET ord   == Ordinals(para)
        first == IF range.start < Len(ord) THEN ord[range.start + 1] ELSE Last(ord)
        last  == IF 0 < range.end /\ range.end <= Len(ord) THEN ord[range.end] ELSE Last(ord)
    IN  IF ord = <<>> THEN [first |-> range.start, last |-> range.end, crosses |-> FALSE]
        ELSE [first |-> first, last |-> last, crosses |-> first # last]

Hits(k) ==
    LET ranges == FindAll(Plain(records[k]))
    IN  [j \in 1..Len(ranges) |-> [para |-> k, range |-> ranges[j]]]

(* find_text with occurrence -1; its length is what count_matches returns. *)
FindText == FlattenSeq([k \in 1..Len(records) |-> Hits(k)])
-----------------------------------------------------------------------------
SlipLimitIsLast(from, size) ==
    IF from > Len(records) THEN <<>>
    ELSE LET last == Min({size, Len(records)})
         IN  [j \in 1..(last - from + 1) |-> from + j - 1]

(* _window_slice, as the numbers of its paragraphs, in order *)
WindowSlice(from, size) ==
    IF from - 1 >= Len(records) THEN <<>>
    ELSE LET last == Min({from - 1 + size, Len(records)})
         IN  [j \in 1..(last - from + 1) |-> from + j - 1]

Init ==
    /\ WalkInit
    /\ text \in Wordings(elements)
    /\ pattern = NoPattern
    /\ limit = 0
    /\ start = 1
    /\ found = <<>>

(* The index is built; the client chooses what to look for. *)
Ask ==
    /\ Rest = {} /\ pattern = NoPattern
    /\ pattern' \in Patterns
    /\ limit' \in Limits
    /\ UNCHANGED <<walked, text, start, found>>

(* One page of grep_paragraphs.  pagination.total tells the client when to  *)
(* stop; pagination.returned counts the paragraphs with a match, and is not *)
(* how far the page went.                                                   *)
Grep ==
    LET window == WindowSlice(start, limit)
    IN  /\ pattern # NoPattern /\ start <= Len(records)
        /\ found' = found \o FlattenSeq([j \in 1..Len(window) |-> Hits(window[j])])
        /\ start' = start + limit
        /\ UNCHANGED <<walked, text, pattern, limit>>

Next ==
    \/ NextParagraph /\ UNCHANGED <<text, search>>
    \/ Ask
    \/ Grep

Spec == Init /\ [][Next]_vars
-----------------------------------------------------------------------------
(* What the pages have shown of paragraph k. *)
Ranges(k) == {found[j].range : j \in {i \in DOMAIN found : found[i].para = k}}

Covers(range, s, e) == range.start < e /\ s < range.end

(* The matches there should be: the occurrences of a literal pattern, not   *)
(* one of them left out but for one it overlaps with; of c*, the longest    *)
(* runs of c.                                                               *)
Complete(word, ranges) ==
    IF pattern.regex
    THEN {r \in ranges : r.start < r.end} =
            {r \in [start : 0..Len(word), end : 1..Len(word)] :
                /\ r.start < r.end
                /\ \A i \in (r.start + 1)..r.end : word[i] = pattern.text[1]
                /\ r.start > 0 => word[r.start] # pattern.text[1]
                /\ r.end < Len(word) => word[r.end + 1] # pattern.text[1]}
    ELSE LET all == Occurrences(word, pattern.text)
         IN  /\ \A r \in ranges : r.start \in all /\ r.end = r.start + Len(pattern.text)
             /\ \A s \in all : \E r \in ranges : Covers(r, s, s + Len(pattern.text))

(* A client that reads the document page by page, whatever the size of the  *)
(* pages, has seen every match of the paragraphs before its next page, once *)
(* and in order, and no two that overlap; they are the first of those that  *)
(* find_text lists and count_matches counts, and the others are of          *)
(* paragraphs of later pages.                                               *)
PagesShowAll ==
    /\ \A i, j \in DOMAIN found : i < j =>
         \/ found[i].para < found[j].para
         \/ /\ found[i].para = found[j].para /\ found[i].range # found[j].range
            /\ found[i].range.end <= found[j].range.start
    /\ \A k \in DOMAIN records :
         IF k < start THEN Complete(Plain(records[k]), Ranges(k)) ELSE Ranges(k) = {}
    /\ pattern # NoPattern =>
         /\ IsPrefix(found, FindText)
         /\ \A j \in DOMAIN FindText : j <= Len(found) <=> FindText[j].para < start

(* The node range of a match is that of the nodes its first and its last    *)
(* character come from, empty nodes left out of the count; and a match      *)
(* crosses nodes exactly if no node holds all of it.                        *)
Before(para, k) == Len(FlattenSeq(SubSeq(para, 1, k - 1)))
Holds(para, k, range) ==
    Before(para, k) <= range.start /\ range.end <= Before(para, k) + Len(para[k])
Number(para, k) == Cardinality({j \in 1..(k - 1) : para[j] # <<>>})
NodesAreWhereTheTextIs ==
    \A j \in DOMAIN found :
        LET para  == records[found[j].para]
            range == found[j].range
            nodes == NodeRange(para, range)
        IN  range.start < range.end =>
              /\ \E k \in DOMAIN para : /\ Number(para, k) = nodes.first
                                        /\ Holds(para, k, Span(range.start, range.start + 1))
              /\ \E k \in DOMAIN para : /\ Number(para, k) = nodes.last
                                        /\ Holds(para, k, Span(range.end - 1, range.end))
              /\ nodes.crosses <=> ~\E k \in DOMAIN para : Holds(para, k, range)
-----------------------------------------------------------------------------
(* Statements of the documentation that the code does not meet. *)

(* "A `TextMatch` MUST report ... XML-node range, whether the match crosses  *)
(* nodes": a range does not end before it begins, and a match of no         *)
(* character crosses none.                                                  *)
EmptyMatchesCrossNothing ==
    \A j \in DOMAIN found :
        LET nodes == NodeRange(records[found[j].para], found[j].range)
        IN  /\ nodes.first <= nodes.last
            /\ found[j].range.start = found[j].range.end => ~nodes.crosses
=============================================================================
