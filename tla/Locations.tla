----------------------------- MODULE Locations -----------------------------
(***************************************************************************)
(* iter_editable_paragraphs of _ooxml.py: the walk over the document that  *)
(* numbers its paragraphs and says where in which table each one lies.     *)
(* What it yields is the index that module Search reads.                   *)
(*                                                                         *)
(* A document is its elements in document order.  up is the number of the  *)
(* parent, 0 for the body; a tag is "p", "tbl", "tr", "tc", "sdt" (w:sdt   *)
(* or w:sdtContent) or another one, as that of a text box, that the walk   *)
(* does not look at; val is the w:gridSpan of a cell, the w:gridBefore of  *)
(* a row.                                                                  *)
(*                                                                         *)
(* Abstractions.  Styles, native ids and vertical merges are copied and    *)
(* are left out.                                                           *)
(***************************************************************************)
EXTENDS Integers, Sequences, FiniteSets, FiniteSetsExt

CONSTANT Documents      \* the documents: sequences of [tag, up, val]

VARIABLES
    elements,   \* the document
    at,         \* the element the walk has reached
    ordinal,    \* the paragraphs it has met
    yielded     \* the locations it has yielded: [ordinal, para, table], in order

walked == <<elements, at, ordinal, yielded>>
-----------------------------------------------------------------------------
(* The elements above e: in document order, those that nothing between them *)
(* and e, e included, lies outside of.                                      *)
Ancestors(doc, e) == {d \in 1..(e - 1) : \A x \in (d + 1)..e : doc[x].up >= d}

Tagged(doc, tag) == {e \in DOMAIN doc : doc[e].tag = tag}

(* is_sdt_descendant *)
InSdt(doc, e) == Ancestors(doc, e) \cap Tagged(doc, "sdt") # {}

(* _innermost_ancestor, 0 if there is none *)
Innermost(doc, e, tag) == Max({0} \cup (Ancestors(doc, e) \cap Tagged(doc, tag)))

ASSUME ElementsAssumption ==
    \A doc \in Documents : doc \in Seq([tag : STRING, up : Nat, val : Nat])

(* What holds a row, a cell, a paragraph that is in a table. *)
Holder == [tr |-> "tbl", tc |-> "tr", p |-> "tc"]

(* Tables are put together as WordprocessingML has it: of what belongs to   *)
(* tables, nothing is between a row and its table, a cell and its row, a    *)
(* paragraph and its cell.                                                  *)
ASSUME NestingAssumption ==
    \A doc \in Documents : \A tag \in DOMAIN Holder : \A e \in Tagged(doc, tag) :
        \A part \in {"tbl", "tr", "tc"} :
            Innermost(doc, e, part) <= Innermost(doc, e, Holder[tag])

(* The elements with the tag that belong to the element above, and not to  *)
(* one that is nested in it, and that come before e.                       *)
EarlierIn(doc, above, tag, e) ==
    {d \in Tagged(doc, tag) : Innermost(doc, d, doc[above].tag) = above /\ d < e}

SlipNestedToo(doc, above, tag, e) ==
    Cardinality({d \in Tagged(doc, tag) : above \in Ancestors(doc, d) /\ d < e})

(* _row_index_in_table, _paragraph_index_in_cell, and the first of          *)
(* _cell_indices                                                            *)
IndexIn(doc, above, tag, e) == Cardinality(EarlierIn(doc, above, tag, e))

SlipOnePerCell(doc, tr, tc) == doc[tr].val + IndexIn(doc, tr, "tc", tc)

(* The grid columns that cells take, each as many as it spans. *)
Columns(doc, cells) == UNION {{c} \X (1..doc[c].val) : c \in cells}

(* _cell_indices: the logical column *)
LogicalColumn(doc, tr, tc) ==
    doc[tr].val + Cardinality(Columns(doc, EarlierIn(doc, tr, "tc", tc)))

NoTable == [index |-> -1]

(* _table_context *)
TableContext(doc, p) ==
    LET tc  == Innermost(doc, p, "tc")
        tr  == IF tc = 0 THEN 0 ELSE Innermost(doc, tc, "tr")
        tbl == IF tr = 0 THEN 0 ELSE Innermost(doc, tr, "tbl")
    IN  IF tbl = 0 THEN NoTable
        ELSE [index  |-> Cardinality({t \in Tagged(doc, "tbl") : t < tbl}),
              row    |-> IndexIn(doc, tbl, "tr", tr),
              cell   |-> IndexIn(doc, tr, "tc", tc),
              column |-> LogicalColumn(doc, tr, tc),
              span   |-> doc[tc].val,
              before |-> doc[tr].val,
              depth  |-> Cardinality(Ancestors(doc, tbl) \cap Tagged(doc, "tbl")),
              para   |-> IndexIn(doc, tc, "p", p)]
-----------------------------------------------------------------------------
WalkInit ==
    /\ elements \in Documents
    /\ at = 0
    /\ ordinal = 0
    /\ yielded = <<>>

Rest == {p \in Tagged(elements, "p") : p > at}

Counted(p) == ordinal + 1

(* The next paragraph: it counts, and is passed over if a content control   *)
(* contains it.                                                             *)
NextParagraph ==
    /\ Rest # {}
    /\ LET p == Min(Rest)
       IN  /\ at' = p
           /\ ordinal' = Counted(p)
           /\ yielded' =
                IF InSdt(elements, p) THEN yielded
                ELSE Append(yielded, [ordinal |-> Counted(p), para |-> p,
                                      table |-> TableContext(elements, p)])
    /\ UNCHANGED elements
-----------------------------------------------------------------------------
InTables == {y \in DOMAIN yielded : yielded[y].table # NoTable}

Table(y) == yielded[y].table

(* Within a table, the row, the cell and the place in the cell number the   *)
(* paragraphs in document order, and no two of them alike; the cells of a   *)
(* row lie side by side in the grid, behind the columns the row leaves free *)
(* and each as wide as its span.                                           *)
PlacesInOrder ==
    \A x, y \in InTables :
        x < y /\ Table(x).index = Table(y).index =>
            \/ Table(x).row < Table(y).row
            \/ /\ Table(x).row = Table(y).row /\ Table(x).cell < Table(y).cell
               /\ Table(x).before <= Table(x).column
               /\ Table(x).column + Table(x).span <= Table(y).column
            \/ Table(x).row = Table(y).row /\ Table(x).cell = Table(y).cell
                 /\ Table(x).column = Table(y).column /\ Table(x).para < Table(y).para

(* The document with the tags of the elements in S gone. *)
Without(doc, S) == [e \in DOMAIN doc |-> IF e \in S THEN [doc[e] EXCEPT !.tag = "none"] ELSE doc[e]]

(* Content controls move nothing, and neither does what is nested in cells: *)
(* the last paragraph yielded has the number it would have without any      *)
(* control; and it is in the row, cell, column and place of its cell where  *)
(* it would be if the controls were no controls, and all tables but its own *)
(* and those around it were gone, contents and all.                         *)
NestingKeepsPlaces ==
    \A y \in {Len(yielded)} \ {0} :
        LET p      == yielded[y].para
            others == Tagged(elements, "tbl") \ Ancestors(elements, p)
            inside == {e \in DOMAIN elements : ({e} \cup Ancestors(elements, e)) \cap others # {}}
            alone  == TableContext(Without(elements, Tagged(elements, "sdt") \cup inside), p)
        IN  /\ yielded[y].ordinal = Cardinality({q \in Tagged(elements, "p") : q <= p})
            /\ y \in InTables <=> alone # NoTable
            /\ y \in InTables => [Table(y) EXCEPT !.index = 0] = [alone EXCEPT !.index = 0]
-----------------------------------------------------------------------------
(* "Paragraphs inside <w:sdt> structured document tags are visible to read  *)
(* APIs": the walk, which the index is made of, yields every paragraph.     *)
ControlsAreRead ==
    \A p \in Tagged(elements, "p") :
        p <= at => \E y \in DOMAIN yielded : yielded[y].para = p
=============================================================================
