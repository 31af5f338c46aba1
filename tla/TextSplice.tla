----------------------------- MODULE TextSplice -----------------------------
(***************************************************************************)
(* Text edits inside one paragraph: the visible-text map of textmap.py and *)
(* the splitting and splicing of runs of paragraph.py.                     *)
(*                                                                         *)
(* A paragraph is its runs and point markers in document order, and the    *)
(* wrappers around some of them.  An item is a run, or a point (a bookmark *)
(* or comment-range mark, told apart by fmt); wrap is the wrapper it lies  *)
(* in, 0 if none; fmt stands for w:rPr.  The nodes of a run, its kids, are *)
(* texts (w:t), markers (tab, break, cr: projected as a literal that must  *)
(* not be cut) and objects (drawings, field characters, references: no     *)
(* visible text).  A wrapper is a w:ins, a w:del, a link (w:hyperlink or   *)
(* w:fldSimple) or a w:sdt.                                                *)
(*                                                                         *)
(* Abstractions.  Characters are numbers, each its own, so that they can   *)
(* be followed.  Wrappers do not nest, and text boxes are left to module   *)
(* Document.  Escaped literals are left out.  A selector may match any     *)
(* one or two disjoint ranges; one that matches nothing, or too often,     *)
(* changes nothing and is left out.                                        *)
(***************************************************************************)
EXTENDS Integers, Sequences, SequencesExt, FiniteSets

CONSTANTS
    Paragraphs,     \* the paragraphs to start from
    MaxEdits,       \* bound: edits of one paragraph
    MaxText         \* bound: characters of a paragraph that is edited

VARIABLES
    para,       \* the paragraph: [items, wraps], wraps: wrapper -> its kind
    origin,     \* the paragraph as it was when the edit began
    edit,       \* the edit: what it does, its new text, its matches in order
    done,       \* how many matches it has carried out
    status,     \* "idle", "editing", or "refused" (the edit raised)
    edits       \* the edits so far

vars == <<para, origin, edit, done, status, edits>>

Text(chars) == [tag |-> "t", chars |-> chars]

(* The part of a sequence from one place to its end. *)
From(s, k) == SubSeq(s, k, Len(s))

WrapKind(p, w) == IF w = 0 THEN "none" ELSE p.wraps[w]
-----------------------------------------------------------------------------
(* build_text_map *)

(* Hidden from the final view: whole subtrees that are not walked. *)
Hidden(p, item) == WrapKind(p, item.wrap) \in {"del", "sdt"}

(* The positions of the visible text: item, kid and offset. *)
Positions(p) ==
    LET OfKid(i, k) == IF p.items[i].kids[k].tag = "obj" THEN <<>>
                       ELSE [o \in 1..Len(p.items[i].kids[k].chars) |->
                               [item |-> i, kid |-> k, off |-> o]]
        OfItem(i)   == IF Hidden(p, p.items[i]) THEN <<>>
                       ELSE FlattenSeq([k \in 1..Len(p.items[i].kids) |-> OfKid(i, k)])
    IN  FlattenSeq([i \in 1..Len(p.items) |-> OfItem(i)])

KidAt(p, pos) == p.items[pos.item].kids[pos.kid]

(* _check_match_capability: no character of the match is in a link, and no  *)
(* end of it is inside a marker's literal.                                  *)
Capable(p, m) ==
    LET at    == Positions(p)
        first == at[m.from]
        final == at[m.to]
    IN  /\ \A j \in m.from..m.to : WrapKind(p, p.items[at[j].item].wrap) # "link"
        /\ KidAt(p, first).tag = "tab" => first.off = 1
        /\ KidAt(p, final).tag = "tab" => final.off = Len(KidAt(p, final).chars)
-----------------------------------------------------------------------------
(* Splitting and cleaning up runs. *)

(* Run i becomes two runs, with the same wrapper and format. *)
Halved(items, i, left, right) ==
    SubSeq(items, 1, i - 1)
    \o <<[items[i] EXCEPT !.kids = left], [items[i] EXCEPT !.kids = right]>>
    \o From(items, i + 1)

(* _split_run_before: the run is cut before character off of its kid k, or  *)
(* before the kid.                                                          *)
SplitBefore(items, i, k, off) ==
    LET kids == items[i].kids
        kid  == kids[k]
    IN  IF kid.tag # "t" \/ off = 1
        THEN Halved(items, i, SubSeq(kids, 1, k - 1), From(kids, k))
        ELSE Halved(items, i,
                SubSeq(kids, 1, k - 1) \o <<Text(SubSeq(kid.chars, 1, off - 1))>>,
                (IF off > Len(kid.chars) THEN <<>> ELSE <<Text(From(kid.chars, off))>>)
                \o From(kids, k + 1))

SlipOneShort(items, i, k, off) ==
    LET kids == items[i].kids
    IN  IF kids[k].tag = "t" THEN SplitBefore(items, i, k, off)
        ELSE Halved(items, i, SubSeq(kids, 1, k), From(kids, k + 1))

(* _split_run_after *)
SplitAfter(items, i, k, off) ==
    LET kids == items[i].kids
    IN  IF kids[k].tag = "t" THEN SplitBefore(items, i, k, off + 1)
        ELSE Halved(items, i, SubSeq(kids, 1, k), From(kids, k + 1))

(* _cleanup_run: a run of texts only loses the empty ones, and goes if      *)
(* nothing is left of it.                                                   *)
Cleanup(items, i) ==
    LET texts == SelectSeq(items[i].kids, LAMBDA kid : kid.chars # <<>>)
    IN  IF \E k \in DOMAIN items[i].kids : items[i].kids[k].tag # "t" THEN items
        ELSE SubSeq(items, 1, i - 1)
             \o (IF texts = <<>> THEN <<>> ELSE <<[items[i] EXCEPT !.kids = texts]>>)
             \o From(items, i + 1)

(* _prune_empty_wrapper, of the wrappers in W *)
Prune(p, W) ==
    LET dead == {w \in W \cap DOMAIN p.wraps :
                    p.wraps[w] = "ins" /\ \A i \in DOMAIN p.items : p.items[i].wrap # w}
    IN  [p EXCEPT !.wraps = [w \in DOMAIN @ \ dead |-> @[w]]]

(* _build_replacement_run: none for an empty text *)
NewRun(new, wrap, fmt) ==
    IF new = <<>> THEN <<>>
    ELSE <<[is |-> "run", wrap |-> wrap, fmt |-> fmt, kids |-> new]>>
-----------------------------------------------------------------------------
(* _splice_match *)

(* The match lies in one node. *)
SpliceNode(p, first, final, new) ==
    LET i     == first.item
        run   == p.items[i]
        kid   == KidAt(p, first)
        text  == kid.tag = "t"
        left  == SubSeq(run.kids, 1, first.kid - 1)
                 \o (IF text THEN <<Text(SubSeq(kid.chars, 1, first.off - 1))>> ELSE <<>>)
        right == (IF text /\ final.off < Len(kid.chars)
                  THEN <<Text(From(kid.chars, final.off + 1))>> ELSE <<>>)
                 \o From(run.kids, first.kid + 1)
    IN  [p EXCEPT !.items = Cleanup(
            SubSeq(@, 1, i - 1) \o <<[run EXCEPT !.kids = left]>>
            \o NewRun(new, run.wrap, run.fmt)
            \o (IF right = <<>> THEN <<>> ELSE <<[run EXCEPT !.kids = right]>>)
            \o From(@, i + 1),
            i)]

SlipAllGo(items) == <<>>

(* What stays of the items between head and tail: _iter_runs_between finds  *)
(* runs, those in hidden wrappers too, and no points.                       *)
Staying(items) == SelectSeq(items, LAMBDA item : item.is = "point")

(* The match reaches over several nodes: the head and the tail are split    *)
(* off, every run from the one to the other goes, whatever it holds, and    *)
(* the new run takes their place; at paragraph level, in front of the       *)
(* tail's wrapper, when the two ends have different parents.                *)
SpliceNodes(p, first, final, new) ==
    LET head   == first.item
        within == final.item = head
        split  == SplitBefore(p.items, head, first.kid, first.off)
        last   == IF within THEN head + 1 ELSE final.item + 1
        kid    == IF within THEN final.kid - first.kid + 1 ELSE final.kid
        cut    == SplitAfter(split, last, kid, final.off)
        points == Staying(SubSeq(cut, head + 1, last))
        rest   == SubSeq(cut, 1, head) \o points \o From(cut, last + 1)
        tail   == head + Len(points) + 1
        wrap   == rest[tail].wrap
        inside == wrap = p.items[head].wrap
        place  == IF inside \/ wrap = 0 THEN tail
                  ELSE CHOOSE i \in DOMAIN rest :
                         rest[i].wrap = wrap /\ \A j \in 1..(i - 1) : rest[j].wrap # wrap
        run    == NewRun(new, IF inside THEN wrap ELSE 0, p.items[head].fmt)
        filled == SubSeq(rest, 1, place - 1) \o run \o From(rest, place)
    IN  Prune([p EXCEPT !.items = Cleanup(Cleanup(filled, tail + Len(run)), head)],
              {cut[j].wrap : j \in head..(last + 1)})

SpliceMatch(p, m, new) ==
    LET first == Positions(p)[m.from]
        final == Positions(p)[m.to]
    IN  IF first.item = final.item /\ first.kid = final.kid
        THEN SpliceNode(p, first, final, new)
        ELSE SpliceNodes(p, first, final, new)

(* _insert_at_boundary: the new run goes before or after the character. *)
InsertAtBoundary(p, pos, left, new) ==
    LET i     == pos.item
        split == IF left THEN SplitBefore(p.items, i, pos.kid, pos.off)
                 ELSE SplitAfter(p.items, i, pos.kid, pos.off)
        run   == NewRun(new, p.items[i].wrap, p.items[i].fmt)
    IN  IF new = <<>> THEN p
        ELSE [p EXCEPT !.items =
                Cleanup(Cleanup(SubSeq(split, 1, i) \o run \o From(split, i + 1),
                                i + 1 + Len(run)), i)]
-----------------------------------------------------------------------------
Does == {"replace_text", "delete_text", "insert_text_before", "insert_text_after"}

(* The new text: none, plain, or with a marker in it.  The characters tell *)
(* the edit and the match it comes from.                                   *)
NewText(new, n, k) ==
    LET c == -(100 * n + 10 * k)
    IN  CASE new = "none"   -> <<>>
          [] new = "plain"  -> <<Text(<<c>>)>>
          [] new = "marked" -> <<Text(<<c>>), [tag |-> "tab", chars |-> <<c - 1, c - 2>>]>>

Ranges(p) ==
    {r \in [from : 1..Len(Positions(p)), to : 1..Len(Positions(p))] : r.from <= r.to}

Disjoint(r, q) == r.to < q.from \/ q.to < r.from

(* What a selector may match: one range, or two that are disjoint. *)
Matches(p) ==
    {S \in {{r, q} : r, q \in Ranges(p)} : \A r, q \in S : r # q => Disjoint(r, q)}

(* The matches are carried out from right to left. *)
RightToLeft(S) == SetToSortSeq(S, LAMBDA r, q : r.from > q.from)

NoEdit == [does |-> "delete_text", new |-> "none", matches |-> <<>>]

Init ==
    /\ para \in Paragraphs
    /\ origin = para
    /\ edit = NoEdit /\ done = 0
    /\ status = "idle"
    /\ edits = 0

(* A call: the matches are found in the paragraph as it is now. *)
Begin ==
    /\ status # "editing" /\ edits < MaxEdits /\ Len(Positions(para)) <= MaxText
    /\ \E does \in Does, new \in {"none", "plain", "marked"}, S \in Matches(para) :
         /\ does = "delete_text" => new = "none"
         /\ edit' = [does |-> does, new |-> new, matches |-> RightToLeft(S)]
    /\ origin' = para
    /\ done' = 0
    /\ status' = "editing"
    /\ edits' = edits + 1
    /\ UNCHANGED para

Current == edit.matches[done + 1]
CurrentText == NewText(edit.new, edits, done + 1)

(* The next match, at its old place in the paragraph as the matches to the *)
(* right of it have left it.                                               *)
EditMatch ==
    /\ status = "editing" /\ Capable(para, Current)
    /\ para' =
         CASE edit.does \in {"replace_text", "delete_text"} ->
                SpliceMatch(para, Current, CurrentText)
           [] edit.does = "insert_text_before" ->
                InsertAtBoundary(para, Positions(para)[Current.from], TRUE, CurrentText)
           [] edit.does = "insert_text_after" ->
                InsertAtBoundary(para, Positions(para)[Current.to], FALSE, CurrentText)
    /\ done' = done + 1
    /\ status' = IF done' = Len(edit.matches) THEN "idle" ELSE "editing"
    /\ UNCHANGED <<origin, edit, edits>>

(* UnsupportedStructureError at this match. *)
Refuse ==
    /\ status = "editing" /\ ~Capable(para, Current)
    /\ status' = "refused"
    /\ UNCHANGED <<para, origin, edit, done, edits>>

Next == Begin \/ EditMatch \/ Refuse

Spec == Init /\ [][Next]_vars
-----------------------------------------------------------------------------
(* The visible characters, each with the format and the wrapper of its run. *)
Visible(p) ==
    LET at == Positions(p)
    IN  [j \in 1..Len(at) |->
            [char |-> KidAt(p, at[j]).chars[at[j].off],
             fmt  |-> p.items[at[j].item].fmt,
             wrap |-> p.items[at[j].item].wrap]]

(* The reference: the old text, character by character, with the new text,  *)
(* in the format of the first character of the match (of the last, for an   *)
(* insertion after it), in place of each match or beside it.  The wrapper   *)
(* of new text is left open.                                                *)
NewChars(k, fmt) ==
    LET kids  == NewText(edit.new, edits, k)
        chars == FlattenSeq([i \in 1..Len(kids) |-> kids[i].chars])
    IN  [j \in 1..Len(chars) |-> [char |-> chars[j], fmt |-> fmt, wrap |-> 0]]

Declared ==
    LET old == Visible(origin)
        At(j, end) == {k \in DOMAIN edit.matches : edit.matches[k][end] = j}
        In(j) == \E k \in DOMAIN edit.matches : j \in edit.matches[k].from..edit.matches[k].to
        New(S, j) == IF S = {} THEN <<>> ELSE NewChars(CHOOSE k \in S : TRUE, old[j].fmt)
    IN  FlattenSeq([j \in 1..Len(old) |->
          CASE edit.does = "insert_text_before" -> New(At(j, "from"), j) \o <<old[j]>>
            [] edit.does = "insert_text_after"  -> <<old[j]>> \o New(At(j, "to"), j)
            [] OTHER -> New(At(j, "from"), j) \o (IF In(j) THEN <<>> ELSE <<old[j]>>)])

Chars(seq) == {seq[j].char : j \in DOMAIN seq}

Returned == status = "editing" /\ status' = "idle"

(* What an edit leaves is the old text with every match edited, characters, *)
(* formats and revision wrappers, however the matches lay across nodes,     *)
(* runs and wrappers, and although the later splices work on a paragraph    *)
(* that the earlier ones have cut up.  No run is left empty, and no inserted *)
(* revision but one that a match within a single node has emptied.          *)
WithinANode(m) ==
    LET first == Positions(origin)[m.from]
        final == Positions(origin)[m.to]
    IN  first.item = final.item /\ first.kid = final.kid
Empty(p) ==
    {w \in DOMAIN p.wraps : p.wraps[w] = "ins" /\ \A i \in DOMAIN p.items : p.items[i].wrap # w}
EditStep ==
    Returned =>
        LET now == Visible(para)'
        IN  /\ [j \in 1..Len(now) |->
                    IF now[j].char \in Chars(Visible(origin)) THEN now[j]
                    ELSE [now[j] EXCEPT !.wrap = 0]] = Declared
            /\ \A i \in DOMAIN para'.items :
                 para'.items[i].is = "run" => para'.items[i].kids # <<>>
            /\ (\A k \in DOMAIN edit.matches : ~WithinANode(edit.matches[k]))
                 => Empty(para') \subseteq Empty(origin)
EditIsDeclared == [][EditStep]_vars

(* Bookmarks and comment ranges keep their place: no edit drops one, or     *)
(* moves it past a character that stays.                                    *)
Outline(p) ==
    FlattenSeq([i \in 1..Len(p.items) |->
        IF p.items[i].is = "point" THEN <<<<"point", p.items[i].fmt>>>>
        ELSE IF Hidden(p, p.items[i]) THEN <<>>
        ELSE FlattenSeq([k \in 1..Len(p.items[i].kids) |->
                [o \in 1..Len(p.items[i].kids[k].chars) |->
                    <<"char", p.items[i].kids[k].chars[o]>>]])])

Common(s, t) == SelectSeq(s, LAMBDA x : \E j \in DOMAIN t : t[j] = x)

PointStep ==
    Returned =>
        LET was == Outline(origin)
            now == Outline(para)'
        IN  /\ Common(now, was) = Common(was, now)
            /\ \A j \in DOMAIN was : was[j][1] = "point" => \E k \in DOMAIN now : now[k] = was[j]
PointsInPlace == [][PointStep]_vars
-----------------------------------------------------------------------------
(* Statements of the documentation that the code does not meet. *)

(* "all unmatched runs, formatting, and non-text nodes remain unchanged":   *)
(* an edit keeps the runs of deleted revisions and of content controls.     *)
Unmatched(p) ==
    {p.items[i] : i \in {j \in DOMAIN p.items : Hidden(p, p.items[j])}}
UnmatchedStep == Returned => Unmatched(origin) \subseteq Unmatched(para)'
UnmatchedKept == [][UnmatchedStep]_vars

(* "If a splice empties them, drop them": no insertion is left without a    *)
(* run or a point in it.                                                    *)
NoStrayContainers ==
    \A w \in DOMAIN para.wraps :
        para.wraps[w] = "ins" => \E i \in DOMAIN para.items : para.items[i].wrap = w

(* "the item fails ... and leaves the paragraph unchanged" *)
RefusedUnchanged == status = "refused" => para = origin
=============================================================================
