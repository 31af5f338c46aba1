------------------------------ MODULE Outline ------------------------------
(***************************************************************************)
(* Sections of document.py: list_sections and get_section read an outline  *)
(* off the styles of the paragraphs, and the paragraph writes decide those *)
(* styles: a new paragraph takes the w:pPr of a style anchor, a copied one *)
(* brings its own.                                                         *)
(*                                                                         *)
(* A paragraph is its ID, its heading level (NotHeading for any other      *)
(* style) and its place, the body or a table cell: siblings have the same  *)
(* place.  The document is its paragraphs in document order.               *)
(*                                                                         *)
(* Abstractions.  Text is left out.  Text boxes, which delay an insertion  *)
(* after their paragraph, are module Document's.                           *)
(***************************************************************************)
EXTENDS Integers, Sequences, SequencesExt, FiniteSets, FiniteSetsExt

CONSTANTS
    Outlines,       \* the documents that are opened, each a sequence of
                    \* [level, place]
    MaxItems,       \* bound: items of one insertion
    MaxIds          \* bound: IDs ever given

NotHeading == -1

ASSUME OutlineAssumption ==
    \A shape \in Outlines : shape \in Seq([level : {NotHeading} \cup Nat, place : STRING])

ASSUME BoundAssumption == MaxItems \in Nat /\ MaxIds \in Nat

VARIABLES
    doc,        \* the paragraphs in document order: [id, level, place]
    next,       \* the number of the next ID
    write       \* the last write: its name, its target, its new IDs

vars == <<doc, next, write>>

PosOf(id) == CHOOSE k \in DOMAIN doc : doc[k].id = id

IdsOf(d) == {d[k].id : k \in DOMAIN d}

Headings(d) == {k \in DOMAIN d : d[k].level # NotHeading}
-----------------------------------------------------------------------------
(* list_sections *)

SlipDeeper(d, h) ==
    LET after == {j \in Headings(d) : j > h /\ d[j].level < d[h].level}
    IN  IF after = {} THEN Len(d) ELSE Min(after) - 1

(* Where the section of the heading at position h ends: before the next    *)
(* heading of its level or a higher one.                                   *)
EndOfSection(d, h) ==
    LET after == {j \in Headings(d) : j > h /\ d[j].level <= d[h].level}
    IN  IF after = {} THEN Len(d) ELSE Min(after) - 1

(* The section of the heading at position h. *)
Section(d, h) ==
    [heading |-> d[h].id,
     level   |-> d[h].level,
     body    |-> [k \in 1..(EndOfSection(d, h) - h) |-> d[h + k].id]]

(* The list, whose order is that of the headings, as a set. *)
ListSections(d) == {Section(d, h) : h \in Headings(d)}

(* get_section: for a heading, the section that list_sections has for it. *)
GetSection(d, id) == CHOOSE s \in ListSections(d) : s.heading = id

AllIds(section) == <<section.heading>> \o section.body
-----------------------------------------------------------------------------
(* The writes. *)

(* insert_para_before: the style comes from the paragraph before the target *)
(* among its siblings, tables skipped, or from the target if there is none. *)
StyleBefore(id) ==
    LET t      == PosOf(id)
        before == {k \in 1..(t - 1) : doc[k].place = doc[t].place}
    IN  IF before = {} THEN doc[t].level ELSE doc[Max(before)].level

New(levels, place) ==
    [k \in 1..Len(levels) |-> [id |-> next + k - 1, level |-> levels[k], place |-> place]]

(* The new paragraphs go in after position at. *)
Inserted(at, levels, place) ==
    SubSeq(doc, 1, at) \o New(levels, place) \o SubSeq(doc, at + 1, Len(doc))

SlipNotMoved(at, levels, place) ==
    SubSeq(doc, 1, at) \o Reverse(New(levels, place)) \o SubSeq(doc, at + 1, Len(doc))

SlipPastTheNext(at, levels, place) ==
    Inserted(IF at < Len(doc) THEN at + 1 ELSE at, levels, place)

(* insert_para_after's moving cursor *)
InsertedAfter(at, levels, place) == Inserted(at, levels, place)

Wrote(name, id, n) ==
    /\ write' = [name |-> name, target |-> id, new |-> {next + k - 1 : k \in 1..n}]
    /\ next' = next + n

NoWrite == [name |-> "open", target |-> 0, new |-> {}]

Init ==
    /\ \E shape \in Outlines :
         /\ doc = [k \in 1..Len(shape) |->
                     [id |-> k, level |-> shape[k].level, place |-> shape[k].place]]
         /\ next = Len(shape) + 1
    /\ write = NoWrite

Alike(level, n) == [k \in 1..n |-> level]

InsertParaBefore(id, n) ==
    /\ next + n <= MaxIds + 1
    /\ doc' = Inserted(PosOf(id) - 1, Alike(StyleBefore(id), n), doc[PosOf(id)].place)
    /\ Wrote("insert_para_before", id, n)

InsertParaAfter(id, n) ==
    /\ next + n <= MaxIds + 1
    /\ doc' = InsertedAfter(PosOf(id), Alike(doc[PosOf(id)].level, n), doc[PosOf(id)].place)
    /\ Wrote("insert_para_after", id, n)

ReplacePara(id, n) ==
    LET t == PosOf(id)
    IN  /\ next + n <= MaxIds + 1
        /\ doc' = SubSeq(doc, 1, t - 1) \o New(Alike(doc[t].level, n), doc[t].place)
                  \o SubSeq(doc, t + 1, Len(doc))
        /\ Wrote("replace_para", id, n)

DeletePara(id) ==
    /\ doc' = RemoveAt(doc, PosOf(id))
    /\ Wrote("delete_para", id, 0)

(* copy_paragraphs_from: the paragraphs from the one to the other, with the *)
(* styles they have, out of whatever cells they are in.                     *)
CopyParagraphs(from, to) ==
    [k \in 1..(PosOf(to) - PosOf(from) + 1) |-> doc[PosOf(from) + k - 1].level]

(* The whole of a section is copied and inserted, raw, after its end. *)
DuplicateSection(id) ==
    LET all == AllIds(GetSection(doc, id))
        end == Last(all)
        new == CopyParagraphs(id, end)
    IN  /\ next + Len(all) <= MaxIds + 1
        /\ doc' = InsertedAfter(PosOf(end), new, doc[PosOf(end)].place)
        /\ Wrote("copy", id, Len(new))

Next ==
    \E id \in IdsOf(doc) :
        \/ \E n \in 1..MaxItems : \/ InsertParaBefore(id, n)
                                  \/ InsertParaAfter(id, n)
                                  \/ ReplacePara(id, n)
        \/ DeletePara(id)
        \/ doc[PosOf(id)].level # NotHeading /\ DuplicateSection(id)

Spec == Init /\ [][Next]_vars
-----------------------------------------------------------------------------
(* The sections a paragraph lies in, as heading IDs. *)
Around(d, id) ==
    {s.heading : s \in {t \in ListSections(d) : id \in ToSet(t.body)}}

LevelOf(d, id) == d[CHOOSE k \in DOMAIN d : d[k].id = id].level

(* The sections form an outline: of two that share a paragraph the one      *)
(* contains the other with its heading, and is of a higher level; and a     *)
(* paragraph belongs to the last heading before it.                         *)
OutlineNests ==
    LET sections == ListSections(doc)
    IN  /\ \A s, t \in sections :
              s # t /\ ToSet(AllIds(s)) \cap ToSet(AllIds(t)) # {} =>
                  \E outer \in {s, t} : LET inner == IF outer = s THEN t ELSE s
                                        IN  /\ ToSet(AllIds(inner)) \subseteq ToSet(outer.body)
                                            /\ outer.level < inner.level
        /\ \A k \in DOMAIN doc \ Headings(doc) :
              \A h \in Headings(doc) :
                  h < k /\ (\A j \in (h + 1)..k : j \notin Headings(doc)) =>
                      doc[h].id \in Around(doc, doc[k].id)

(* Writing text beside body text moves no other paragraph into or out of a  *)
(* section, and what is written lies in the sections of its neighbour; text *)
(* before a heading that follows body text joins the section ending there.  *)
NoHeadingWritten == \A id \in write'.new : LevelOf(doc', id) = NotHeading
FlowStep ==
    NoHeadingWritten /\ write'.name \in {"insert_para_before", "insert_para_after"} =>
        /\ \A id \in IdsOf(doc) : Around(doc', id) = Around(doc, id)
        /\ write'.name = "insert_para_after" =>
             \A id \in write'.new : Around(doc', id) = Around(doc, write'.target)
HeadingStep ==
    LET t == PosOf(write'.target)
    IN  /\ write'.name = "insert_para_before" /\ doc[t].level # NotHeading
        /\ t > 1 /\ doc[t - 1].place = doc[t].place /\ doc[t - 1].level = NotHeading
        => \A id \in write'.new : Around(doc', id) = Around(doc, doc[t - 1].id)
TextKeepsOutline == [][write' # write => FlowStep /\ HeadingStep]_vars

(* A section that is copied after its own end is there twice, level for     *)
(* level, whatever subsections and table cells it reaches over.             *)
Levels(d, section) ==
    [k \in 1..Len(AllIds(section)) |-> LevelOf(d, AllIds(section)[k])]
CopyStep ==
    write'.name = "copy" /\ write' # write =>
        LET twin == GetSection(doc', Min(write'.new))
            orig == GetSection(doc, write'.target)
        IN  /\ Levels(doc', twin) = Levels(doc, orig)
            /\ GetSection(doc', write'.target) = orig
SectionsCopyWhole == [][CopyStep]_vars
-----------------------------------------------------------------------------
(* Statements of the documentation that the code does not meet. *)

(* "`body_ids` — paragraph IDs of all non-heading paragraphs in the section" *)
BodyHasNoHeadings ==
    \A s \in ListSections(doc) : \A id \in ToSet(s.body) : LevelOf(doc, id) = NotHeading

(* "inserting before a heading continues the preceding body flow rather     *)
(* than duplicating the heading's formatting"                               *)
DuplicateStep ==
    write' # write /\ write'.name = "insert_para_before"
    /\ (\E k \in 1..(PosOf(write'.target) - 1) : doc[k].place = doc[PosOf(write'.target)].place)
        => NoHeadingWritten \/ doc[PosOf(write'.target)].level = NotHeading
NoHeadingDuplicated == [][DuplicateStep]_vars
=============================================================================
