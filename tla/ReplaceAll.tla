----------------------------- MODULE ReplaceAll -----------------------------
(***************************************************************************)
(* Document.replace_all of document.py: one loop over the records of the   *)
(* index that counts matches in the plain text of each paragraph and       *)
(* replaces them through its text map, one after the other from the right, *)
(* at the offsets they had before the first of them was replaced.          *)
(*                                                                         *)
(* A paragraph is a sequence of cells: a character or a tab (w:tab, or a   *)
(* break).  wrap is what the cell lies in: a w:del, a w:sdt, a link        *)
(* (w:hyperlink, w:fldSimple) or none.  A pattern is what it matches:      *)
(* words, in the order in which they are tried at a place; a literal has   *)
(* one.  Offsets count from 1 and ranges include their ends.               *)
(*                                                                         *)
(* Abstractions.  Regular expressions that look around them, or at the     *)
(* ends of the text, are left out; matches of no character, which are      *)
(* skipped, need no word.  Runs and nodes are module TextSplice's, w:ins   *)
(* with them; escapes are Markers'.  Text boxes, whose text the paragraph  *)
(* around them shares, wrappers inside wrappers, and text that             *)
(* normalize_text changes first, are left out.                             *)
(***************************************************************************)
EXTENDS Selections, FiniteSets, FiniteSetsExt

CONSTANTS
    Documents,      \* the documents: the paragraphs of the index, in order
    Patterns,       \* the patterns: the words of each, in the order tried
    Replacements,   \* the replacement texts: sequences of characters and "tab"
    MaxCalls        \* bound: calls

VARIABLES
    paras,      \* the paragraphs
    origin,     \* the paragraphs as they were before the first call
    args,       \* the arguments of the call: words and new text
    cur,        \* the number of the record the call is at, 0 before the first
    hits,       \* the matches in it that are still to be replaced
    total,      \* the call's count of matches
    subs,       \* the replacements it has made (history)
    status,     \* "idle", "running", "returned" or "raised"
    calls,      \* the calls so far
    reach       \* the records that the earlier calls came to (history)

vars == <<paras, origin, args, cur, hits, total, subs, status, calls, reach>>

Cell == [is : STRING, wrap : {"none", "sdt", "link", "del"}]

ASSUME DocumentsAssumption == Documents \subseteq Seq(Seq(Cell))

(* A literal pattern that is empty is refused. *)
ASSUME PatternsAssumption == Patterns \subseteq Seq(Seq(STRING) \ {<<>>})

ASSUME ReplacementsAssumption == Replacements \subseteq Seq(STRING)

-----------------------------------------------------------------------------
(* The two views of a paragraph. *)

(* What a cell is in plain text: deleted text is not there. *)
Character(cell) ==
    IF cell.wrap = "del" THEN <<>>
    ELSE IF cell.is = "tab" THEN <<"\t">> ELSE <<cell.is>>

(* visible_text_plain *)
PlainText(para) == FlattenSeq([k \in 1..Len(para) |-> Character(para[k])])

(* What it is in the text map: content controls are hidden, too, and a tab  *)
(* is its literal, [[DOCX:TAB]], here of three characters.                  *)
Literal(cell) ==
    IF cell.wrap \in {"del", "sdt"} THEN <<>>
    ELSE IF cell.is = "tab" THEN <<"[", "T", "]">> ELSE <<cell.is>>

(* build_text_map, its text *)
MapText(para) == FlattenSeq([k \in 1..Len(para) |-> Literal(para[k])])

(* Its positions: the cell that shows character n.  A cell that shows       *)
(* nothing is no character's.                                               *)
Owner(para, n) == Min({k \in 1..Len(para) : n <= Len(MapText(SubSeq(para, 1, k)))})
-----------------------------------------------------------------------------
(* compile_selector *)

Fits(text, i, word) ==
    i + Len(word) - 1 <= Len(text) /\ SubSeq(text, i, i + Len(word) - 1) = word

Fitting(text, i, words) == {k \in DOMAIN words : Fits(text, i, words[k])}

(* The match that begins at i: the first word that fits there. *)
MatchAt(text, i, words) ==
    [from |-> i, to |-> i + Len(words[Min(Fitting(text, i, words))]) - 1]

Behind(ms) == IF ms = <<>> THEN 0 ELSE ms[Len(ms)].to

(* A turn of the loops of _find_literal and _find_regex: the next match     *)
(* behind the last.                                                         *)
Turn(text, words, ms) ==
    LET starts == {i \in (Behind(ms) + 1)..Len(text) : Fitting(text, i, words) # {}}
    IN  IF starts = {} THEN ms ELSE Append(ms, MatchAt(text, Min(starts), words))

(* The matches, in order; there are no more turns than characters. *)
Matches(text, words) ==
    LET After[n \in 0..Len(text)] ==
            IF n = 0 THEN <<>> ELSE Turn(text, words, After[n - 1])
    IN  After[Len(text)]

PlainHits(para) == Matches(PlainText(para), args.words)

MapHits(para) == Matches(MapText(para), args.words)
-----------------------------------------------------------------------------
SlipOnlyEndsInLinks(para, hit) ==
    LET i == Owner(para, hit.from)
        j == Owner(para, hit.to)
    IN  \/ para[i].wrap = "link" \/ para[j].wrap = "link"
        \/ hit.from # Len(MapText(SubSeq(para, 1, i - 1))) + 1
        \/ hit.to # Len(MapText(SubSeq(para, 1, j)))

(* _check_match_capability fails: a character of the match is in a link, or *)
(* an end of it is inside a marker's literal.                               *)
Refused(para, hit) ==
    LET i == Owner(para, hit.from)
        j == Owner(para, hit.to)
    IN  \/ \E k \in i..j : para[k].wrap = "link"
        \/ hit.from # Len(MapText(SubSeq(para, 1, i - 1))) + 1
        \/ hit.to # Len(MapText(SubSeq(para, 1, j)))

(* The run that restore_markers makes of the replacement: it lies in no     *)
(* wrapper.                                                                 *)
Written(new) == [k \in 1..Len(new) |-> [is |-> new[k], wrap |-> "none"]]

(* A replacement with an unknown marker: restore_markers raises. *)
Improper(new) == "[[DOCX:" \in ToSet(new)

SlipLastCharacterStays(para, hit, new) ==
    SubSeq(para, 1, Owner(para, hit.from) - 1) \o Written(new)
        \o SubSeq(para, Owner(para, hit.to), Len(para))

(* _splice_match: everything between the ends of the match goes, what is    *)
(* hidden between them included.                                            *)
Spliced(para, hit, new) ==
    SubSeq(para, 1, Owner(para, hit.from) - 1) \o Written(new)
        \o SubSeq(para, Owner(para, hit.to) + 1, Len(para))
-----------------------------------------------------------------------------
Init ==
    /\ paras \in Documents /\ origin = paras
    /\ args \in [words : Patterns, new : Replacements]
    /\ cur = 0 /\ hits = <<>>
    /\ total = 0 /\ subs = 0
    /\ status = "idle" /\ calls = 0 /\ reach = 0

(* A call, and later the same call again. *)
Begin ==
    /\ status # "running" /\ calls < MaxCalls
    /\ reach' = Max({reach, cur})
    /\ cur' = 0 /\ hits' = <<>>
    /\ total' = 0 /\ subs' = 0
    /\ status' = "running"
    /\ calls' = calls + 1
    /\ UNCHANGED <<paras, origin, args>>

(* The next record of the loop.  If its plain text matches, apply_replace_  *)
(* text is called: it raises for an improper replacement, and for a map     *)
(* that does not show a match.                                              *)
Visit ==
    LET para  == paras[cur + 1]
        plain == PlainHits(para)
        found == IF plain = <<>> THEN <<>> ELSE MapHits(para)
        bad   == plain # <<>> /\ (Improper(args.new) \/ found = <<>>)
    IN  /\ status = "running" /\ hits = <<>> /\ cur < Len(paras)
        /\ cur' = cur + 1
        /\ total' = total + Len(plain)
        /\ status' = IF bad THEN "raised" ELSE "running"
        /\ hits' = IF bad THEN <<>> ELSE found
        /\ UNCHANGED <<paras, origin, args, subs, calls, reach>>

SlipOnlyOne ==
    LET para == paras[cur]
        hit  == hits[Len(hits)]
    IN  /\ status = "running" /\ hits # <<>> /\ ~Refused(para, hit)
        /\ paras' = [paras EXCEPT ![cur] = Spliced(para, hit, args.new)]
        /\ hits' = <<>>
        /\ subs' = subs + 1
        /\ UNCHANGED <<origin, args, cur, total, status, calls, reach>>

(* Its last match that is left is replaced. *)
Splice ==
    LET para == paras[cur]
        hit  == hits[Len(hits)]
    IN  /\ status = "running" /\ hits # <<>> /\ ~Refused(para, hit)
        /\ paras' = [paras EXCEPT ![cur] = Spliced(para, hit, args.new)]
        /\ hits' = SubSeq(hits, 1, Len(hits) - 1)
        /\ subs' = subs + 1
        /\ UNCHANGED <<origin, args, cur, total, status, calls, reach>>

SlipRefusedIsSkipped ==
    /\ status = "running" /\ hits # <<>> /\ Refused(paras[cur], hits[Len(hits)])
    /\ hits' = SubSeq(hits, 1, Len(hits) - 1)
    /\ UNCHANGED <<paras, origin, args, cur, total, subs, status, calls, reach>>

(* Or it is refused, and the call raises. *)
Refuse ==
    /\ status = "running" /\ hits # <<>> /\ Refused(paras[cur], hits[Len(hits)])
    /\ status' = "raised"
    /\ UNCHANGED <<paras, origin, args, cur, hits, total, subs, calls, reach>>

Return ==
    /\ status = "running" /\ hits = <<>> /\ cur = Len(paras)
    /\ status' = "returned"
    /\ UNCHANGED <<paras, origin, args, cur, hits, total, subs, calls, reach>>

Next == Begin \/ Visit \/ Splice \/ Refuse \/ Return

Spec == Init /\ [][Next]_vars
-----------------------------------------------------------------------------
(* What is matched shows nothing of what is put in its place, which is not  *)
(* nothing.                                                                 *)
Inert ==
    /\ args.new # <<>>
    /\ \A k \in DOMAIN args.words :
         ToSet(args.words[k]) \cap ToSet(MapText(Written(args.new))) = {}

(* Cells i to j of a paragraph may be replaced: the map shows both ends and *)
(* no link, and what it shows is a word.                                    *)
Replaceable(para, i, j) ==
    /\ i \in 1..j /\ j \in 1..Len(para)
    /\ Literal(para[i]) # <<>> /\ Literal(para[j]) # <<>>
    /\ \A k \in i..j : para[k].wrap # "link"
    /\ MapText(SubSeq(para, i, j)) \in ToSet(args.words)

(* Although all matches of a paragraph are looked for before the first is   *)
(* replaced, and whatever the replacements bring in, every step that        *)
(* changes a paragraph puts the new text, whole, in the place of cells that *)
(* the map shows, at that moment, to be a match that is not in a link and   *)
(* cuts no tab in two.  So nothing hidden goes but what is inside a match.  *)
SplicesAMatch ==
    \A p \in DOMAIN paras : paras'[p] # paras[p] =>
        \E i, j \in DOMAIN paras[p] :
          /\ Replaceable(paras[p], i, j)
          /\ paras'[p] = SubSeq(paras[p], 1, i - 1) \o Written(args.new)
                            \o SubSeq(paras[p], j + 1, Len(paras[p]))
OnlyMatchesChange == [][SplicesAMatch]_vars

(* A call that returns has left no paragraph that matches in both views,    *)
(* although it looks in the one and replaces in the other, and although     *)
(* what is left of the text stands beside other text now.                   *)
NothingLeft ==
    status = "returned" /\ Inert =>
        \A p \in DOMAIN paras : PlainHits(paras[p]) = <<>> \/ MapHits(paras[p]) = <<>>

(* The number that the first call returns is that of its replacements, if   *)
(* the two views are the same wherever the plain text matches: nothing but  *)
(* tabs and content controls sets the two numbers apart.                    *)
SameWhereItMatches(doc) ==
    \A p \in DOMAIN doc :
        PlainHits(doc[p]) = <<>> \/ PlainText(doc[p]) = MapText(doc[p])
CountExplained ==
    status = "returned" /\ calls = 1 /\ SameWhereItMatches(origin) => total = subs

(* Whatever the call before ended with: a paragraph that it came to is not  *)
(* changed by the same call again.  After a refusal, no replacement to the  *)
(* right of the refused match makes a new one, and none to its left is made *)
(* on the second try.                                                       *)
SecondTry == Inert => \A p \in 1..reach : paras'[p] = paras[p]
RetryChangesNothing == [][SecondTry]_vars
-----------------------------------------------------------------------------
(* Statements of the documentation that the code does not meet. *)

(* "Returns the total number of substitutions performed." *)
CountsSubstitutions == status = "returned" => total = subs

(* "using the same TextMap logic as `replace_text`" *)
SameAsReplaceText ==
    status = "returned" /\ Inert => \A p \in DOMAIN paras : MapHits(paras[p]) = <<>>
=============================================================================
