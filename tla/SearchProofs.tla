---------------------------- MODULE SearchProofs ----------------------------
(***************************************************************************)
(* What the walk of iter_editable_paragraphs says of the place of each     *)
(* paragraph, in every document: the table indices of _ooxml.py; and what  *)
(* the pages of grep_paragraphs show of what is in them.                   *)
(*                                                                         *)
(* The walk: everything is about sets of elements of one document.  That   *)
(* it yields what the operators say is the invariant WalkInv.  A place is  *)
(* the chain of innermost cell, row and table; what the chain contains is  *)
(* told apart from what lies deeper by Held, that is by NestingAssumption: *)
(* TLC evaluates it on the documents it walks over.                        *)
(*                                                                         *)
(* The pages: the invariant SearchInv is that they have shown the matches  *)
(* of the first paragraphs, as FindText puts them one behind the other.    *)
(* What a matcher finds in one paragraph is the invariant of its loop,     *)
(* LiteralInv and StarInv; what nodes it is in is told by the number of    *)
(* nodes with text before each, node by node (Numbered).                   *)
(***************************************************************************)
EXTENDS Search, FiniteSetTheorems, SequenceLemmas

-----------------------------------------------------------------------------
(* The elements above an element. *)

IsTree(doc) == \E tags : doc \in Seq([tag : tags, up : Nat, val : Nat])

(* The types of what a document holds. *)
LEMMA TreeFacts ==
    ASSUME NEW doc, IsTree(doc)
    PROVE  /\ Len(doc) \in Nat /\ DOMAIN doc = 1..Len(doc)
           /\ \A e \in 1..Len(doc) : doc[e].up \in Nat /\ doc[e].val \in Nat
<1>1. PICK tags, S : S = [tag : tags, up : Nat, val : Nat] /\ doc \in Seq(S)
  BY DEF IsTree
<1>2. doc \in Seq(S)
  BY <1>1
<1>3. Len(doc) \in Nat /\ DOMAIN doc = 1..Len(doc) /\ \A e \in 1..Len(doc) : doc[e] \in S
  BY <1>2
<1> QED BY <1>1, <1>3

(* What is above an element is before it, and in the document. *)
LEMMA AboveIsBefore ==
    ASSUME NEW doc, NEW e \in Nat, NEW d \in Ancestors(doc, e)
    PROVE  d \in 1..(e - 1) /\ d \in Nat /\ 1 <= d /\ d < e
<1>1. d \in 1..(e - 1)
  BY DEF Ancestors
<1> QED BY <1>1

(* What is above the element above is above. *)
LEMMA AboveAbove ==
    ASSUME NEW doc, IsTree(doc), NEW f \in 1..Len(doc), NEW e \in Ancestors(doc, f),
           NEW d \in Ancestors(doc, e)
    PROVE  d \in Ancestors(doc, f)
<1>1. f \in Nat /\ e \in 1..(f - 1) /\ e \in Nat
  BY TreeFacts, AboveIsBefore
<1>2. d \in 1..(e - 1) /\ d \in Nat
  BY <1>1, AboveIsBefore
<1>3. ASSUME NEW x \in (d + 1)..f PROVE doc[x].up >= d
  <2>1. CASE x <= e
    <3>1. x \in (d + 1)..e
      BY <1>1, <1>2, <2>1
    <3> QED BY <3>1 DEF Ancestors
  <2>2. CASE ~(x <= e)
    <3>1. x \in (e + 1)..f /\ x \in 1..Len(doc)
      BY <1>1, <1>2, <2>2, TreeFacts
    <3>2. doc[x].up >= e
      BY <3>1 DEF Ancestors
    <3>3. doc[x].up \in Nat
      BY <3>1, TreeFacts
    <3> QED BY <1>1, <1>2, <3>2, <3>3
  <2> QED BY <2>1, <2>2
<1>4. d \in 1..(f - 1)
  BY <1>1, <1>2
<1> QED BY <1>3, <1>4 DEF Ancestors

(* An element that is above another is above all that lie between. *)
LEMMA AboveBetween ==
    ASSUME NEW doc, NEW f \in Nat, NEW d \in Ancestors(doc, f), NEW e \in Nat, d < e, e <= f
    PROVE  d \in Ancestors(doc, e)
<1>1. d \in Nat /\ d \in 1..(e - 1)
  BY AboveIsBefore
<1>2. ASSUME NEW x \in (d + 1)..e PROVE doc[x].up >= d
  <2>1. x \in (d + 1)..f
    BY <1>1
  <2> QED BY <2>1 DEF Ancestors
<1> QED BY <1>1, <1>2 DEF Ancestors

(* _innermost_ancestor is the last element above with the tag, or none. *)
IsInnermost(doc, e, tag, m) ==
    /\ m \in 0..(e - 1) /\ m \in Nat
    /\ m # 0 => m \in Ancestors(doc, e) /\ m \in Tagged(doc, tag)
    /\ \A a \in Ancestors(doc, e) : a \in Tagged(doc, tag) => a <= m

(* And Innermost computes it. *)
LEMMA InnermostIs ==
    ASSUME NEW doc, NEW e \in Nat \ {0}, NEW tag, NEW m, m = Innermost(doc, e, tag)
    PROVE  IsInnermost(doc, e, tag, m)
<1>1. PICK S : S = {0} \cup (Ancestors(doc, e) \cap Tagged(doc, tag))
  OBVIOUS
<1>2. e - 1 \in Nat /\ S \in SUBSET (0..(e - 1)) /\ S # {}
  <2>1. \A a \in Ancestors(doc, e) : a \in 0..(e - 1)
    BY AboveIsBefore
  <2> QED BY <1>1, <2>1
<1>3. m = Max(S)
  BY <1>1 DEF Innermost
<1>4. m \in S /\ \A y \in S : y <= m
  BY <1>2, <1>3, MaxIs
<1>5. m \in 0..(e - 1) /\ m \in Nat
  BY <1>2, <1>4
<1>6. m # 0 => m \in Ancestors(doc, e) /\ m \in Tagged(doc, tag)
  BY <1>1, <1>4
<1>7. \A a \in Ancestors(doc, e) : a \in Tagged(doc, tag) => a <= m
  BY <1>1, <1>4
<1> QED BY <1>5, <1>6, <1>7 DEF IsInnermost
-----------------------------------------------------------------------------
(* Counting. *)

(* There are fewer elements of a set before an earlier one of it. *)
LEMMA CountGrows ==
    ASSUME NEW n \in Nat, NEW S \in SUBSET (1..n), NEW a \in S, NEW b \in S
    PROVE  /\ Cardinality({d \in S : d < a}) \in Nat
           /\ a < b => Cardinality({d \in S : d < a}) < Cardinality({d \in S : d < b})
<1>1. PICK A, B : A = {d \in S : d < a} /\ B = {d \in S : d < b}
  OBVIOUS
<1>2. IsFiniteSet(1..n)
  BY FS_Interval
<1>3. A \in SUBSET (1..n) /\ B \in SUBSET (1..n)
  BY <1>1
<1>4. IsFiniteSet(A) /\ IsFiniteSet(B)
  BY <1>2, <1>3, FS_Subset
<1>5. Cardinality(A) \in Nat /\ Cardinality(B) \in Nat
  BY <1>4, FS_CardinalityType
<1>6. ASSUME a < b PROVE Cardinality(A) < Cardinality(B)
  <2>1. A \in SUBSET B
    <3>1. a \in Nat /\ b \in Nat
      OBVIOUS
    <3>2. ASSUME NEW d \in A PROVE d \in B
      <4>1. d \in S /\ d < a /\ d \in Nat
        BY <1>1, <1>3
      <4>2. d < b
        BY <1>6, <3>1, <4>1
      <4> QED BY <1>1, <4>1, <4>2
    <3> QED BY <3>2
  <2>2. a \in B /\ a \notin A
    BY <1>1, <1>6
  <2>3. Cardinality(A) <= Cardinality(B) /\ (Cardinality(B) = Cardinality(A) => B = A)
    BY <1>4, <2>1, FS_Subset
  <2> QED BY <1>5, <2>2, <2>3
<1> QED BY <1>1, <1>5, <1>6

(* The numbers of two elements are in the order of the elements. *)
LEMMA IndexGrows ==
    ASSUME NEW doc, IsTree(doc), NEW above, NEW tag,
           NEW a \in Tagged(doc, tag), Innermost(doc, a, doc[above].tag) = above,
           NEW b \in Tagged(doc, tag), Innermost(doc, b, doc[above].tag) = above
    PROVE  /\ IndexIn(doc, above, tag, a) \in Nat
           /\ a < b => IndexIn(doc, above, tag, a) < IndexIn(doc, above, tag, b)
<1>1. PICK S : S = {d \in Tagged(doc, tag) : Innermost(doc, d, doc[above].tag) = above}
  OBVIOUS
<1>2. Len(doc) \in Nat /\ S \in SUBSET (1..Len(doc))
  BY <1>1, TreeFacts DEF Tagged
<1>3. a \in S /\ b \in S
  BY <1>1
<1>4. /\ IndexIn(doc, above, tag, a) = Cardinality({d \in S : d < a})
      /\ IndexIn(doc, above, tag, b) = Cardinality({d \in S : d < b})
  <2>1. ASSUME NEW x PROVE EarlierIn(doc, above, tag, x) = {d \in S : d < x}
    BY <1>1 DEF EarlierIn
  <2> QED BY <2>1 DEF IndexIn
<1> QED BY <1>2, <1>3, <1>4, CountGrows
-----------------------------------------------------------------------------
(* The columns. *)

(* Cells take finitely many columns. *)
LEMMA ColumnsFinite ==
    ASSUME NEW doc, IsTree(doc), NEW cells \in SUBSET (1..Len(doc))
    PROVE  IsFiniteSet(Columns(doc, cells)) /\ Cardinality(Columns(doc, cells)) \in Nat
<1>1. PICK f : f = [c \in cells |-> {c} \X (1..doc[c].val)]
  OBVIOUS
<1>2. PICK T : T = {{c} \X (1..doc[c].val) : c \in cells}
  OBVIOUS
<1>3. IsFiniteSet(cells)
  <2>1. PICK n : n = Len(doc)
    OBVIOUS
  <2>2. n \in Nat /\ n \in Int /\ 1 \in Int /\ cells \in SUBSET (1..n)
    BY <2>1, TreeFacts
  <2>3. IsFiniteSet(1..n)
    BY <2>2, FS_Interval
  <2> QED BY <2>2, <2>3, FS_Subset
<1>4. f \in Surjection(cells, T)
  BY <1>1, <1>2 DEF Surjection
<1>5. IsFiniteSet(T)
  BY <1>3, <1>4, FS_Surjection
<1>6. ASSUME NEW t \in T PROVE IsFiniteSet(t)
  <2>1. PICK c \in cells : t = {c} \X (1..doc[c].val)
    BY <1>2
  <2>2. doc[c].val \in Nat
    BY TreeFacts
  <2>3. IsFiniteSet({c}) /\ IsFiniteSet(1..doc[c].val)
    <3>1. PICK v : v = doc[c].val
      OBVIOUS
    <3>2. v \in Int /\ 1 \in Int
      BY <2>2, <3>1
    <3>3. IsFiniteSet(1..v)
      BY <3>2, FS_Interval
    <3> QED BY <3>1, <3>3, FS_Singleton
  <2> QED BY <2>1, <2>3, FS_Product
<1>7. IsFiniteSet(UNION T)
  BY <1>5, <1>6, FS_UNION
<1>8. Columns(doc, cells) = UNION T
  BY <1>2 DEF Columns
<1> QED BY <1>7, <1>8, FS_CardinalityType

(* One more cell takes as many more as it spans. *)
LEMMA ColumnsGrow ==
    ASSUME NEW doc, IsTree(doc), NEW cells \in SUBSET (1..Len(doc)), NEW c \in 1..Len(doc),
           c \notin cells, NEW more \in SUBSET (1..Len(doc)), cells \cup {c} \subseteq more
    PROVE  Cardinality(Columns(doc, cells)) + doc[c].val <= Cardinality(Columns(doc, more))
<1>1. PICK A, B, C : /\ A = Columns(doc, cells) /\ B = {c} \X (1..doc[c].val)
                     /\ C = Columns(doc, more)
  OBVIOUS
<1>2. doc[c].val \in Nat
  BY TreeFacts
<1>3. IsFiniteSet(A) /\ Cardinality(A) \in Nat /\ IsFiniteSet(C) /\ Cardinality(C) \in Nat
  BY <1>1, ColumnsFinite
<1>4. IsFiniteSet(B) /\ Cardinality(B) = doc[c].val
  <2>1. IsFiniteSet({c}) /\ Cardinality({c}) = 1
    BY FS_Singleton
  <2>2. IsFiniteSet(1..doc[c].val) /\ Cardinality(1..doc[c].val) = doc[c].val
    <3>1. PICK v : v = doc[c].val
      OBVIOUS
    <3>2. v \in Nat /\ v \in Int /\ 1 \in Int
      BY <1>2, <3>1
    <3>4. IsFiniteSet(1..v) /\ Cardinality(1..v) = IF 1 > v THEN 0 ELSE v - 1 + 1
      BY <3>2, FS_Interval
    <3>3. (IF 1 > v THEN 0 ELSE v - 1 + 1) = v
      BY <3>2
    <3> QED BY <3>1, <3>3, <3>4
  <2>3. IsFiniteSet(B) /\ Cardinality(B) = Cardinality({c}) * Cardinality(1..doc[c].val)
    BY <1>1, <2>1, <2>2, FS_Product
  <2>4. 1 * doc[c].val = doc[c].val
    BY <1>2
  <2> QED BY <2>1, <2>2, <2>3, <2>4
<1>5. A \cap B = {}
  <2>1. SUFFICES ASSUME NEW x \in A, x \in B PROVE FALSE
    OBVIOUS
  <2>2. x[1] = c
    BY <1>1, <2>1
  <2>3. PICK y \in cells : x \in {y} \X (1..doc[y].val)
    BY <1>1 DEF Columns
  <2>4. x[1] = y
    BY <2>3
  <2> QED BY <2>2, <2>3, <2>4
<1>6. Cardinality(A \cup B) = Cardinality(A) + doc[c].val
  <2>1. Cardinality(A \cap B) = 0
    BY <1>5, FS_EmptySet
  <2>2. Cardinality(A \cup B) = Cardinality(A) + Cardinality(B) - Cardinality(A \cap B)
    BY <1>3, <1>4, FS_Union
  <2> QED BY <1>2, <1>3, <1>4, <2>1, <2>2
<1>7. A \cup B \in SUBSET C
  BY <1>1 DEF Columns
<1>8. Cardinality(A \cup B) <= Cardinality(C)
  BY <1>3, <1>7, FS_Subset
<1> QED BY <1>1, <1>6, <1>8
-----------------------------------------------------------------------------
(* The place of a paragraph in its table. *)

(* What is directly in a row, a cell, a paragraph of a table. *)
Held(doc) ==
    /\ \A e \in Tagged(doc, "tr") : Innermost(doc, e, "tr") <= Innermost(doc, e, "tbl")
    /\ \A e \in Tagged(doc, "tc") : /\ Innermost(doc, e, "tc") <= Innermost(doc, e, "tr")
                                    /\ Innermost(doc, e, "tbl") <= Innermost(doc, e, "tr")
    /\ \A e \in Tagged(doc, "p") : Innermost(doc, e, "tbl") <= Innermost(doc, e, "tc")

(* The documents of the model are put together so. *)
LEMMA DocumentsAre ==
    ASSUME NEW doc \in Documents PROVE IsTree(doc) /\ Held(doc)
<1>1. /\ "tr" \in DOMAIN Holder /\ "tc" \in DOMAIN Holder /\ "p" \in DOMAIN Holder
      /\ Holder["tr"] = "tbl" /\ Holder["tc"] = "tr" /\ Holder["p"] = "tc"
  BY DEF Holder
<1>2. ASSUME NEW tag \in DOMAIN Holder, NEW e \in Tagged(doc, tag)
      PROVE  /\ Innermost(doc, e, "tbl") <= Innermost(doc, e, Holder[tag])
             /\ Innermost(doc, e, "tr") <= Innermost(doc, e, Holder[tag])
             /\ Innermost(doc, e, "tc") <= Innermost(doc, e, Holder[tag])
  BY NestingAssumption
<1>3. Held(doc)
  BY <1>1, <1>2 DEF Held
<1>4. IsTree(doc)
  <2>1. doc \in Seq([tag : STRING, up : Nat, val : Nat])
    BY ElementsAssumption
  <2> QED BY <2>1 DEF IsTree
<1> QED BY <1>3, <1>4

Place(doc, p, tc, tr, tbl) ==
    /\ tc = Innermost(doc, p, "tc") /\ tc # 0
    /\ tr = Innermost(doc, tc, "tr") /\ tr # 0
    /\ tbl = Innermost(doc, tr, "tbl") /\ tbl # 0

(* Its table, row and cell contain one another and the paragraph. *)
Within(doc, p, tc, tr, tbl) ==
    /\ p \in 1..Len(doc) /\ p \in Nat /\ tc \in Nat /\ tr \in Nat /\ tbl \in Nat
    /\ tbl < tr /\ tr < tc /\ tc < p
    /\ tc \in Tagged(doc, "tc") /\ tr \in Tagged(doc, "tr") /\ tbl \in Tagged(doc, "tbl")
    /\ tc \in 1..Len(doc) /\ tr \in 1..Len(doc) /\ tbl \in 1..Len(doc)
    /\ tc \in Ancestors(doc, p)
    /\ tr \in Ancestors(doc, tc) /\ tr \in Ancestors(doc, p)
    /\ tbl \in Ancestors(doc, tr) /\ tbl \in Ancestors(doc, p)

(* The chain of innermost ancestors is such a place. *)
LEMMA PlaceIsWithin ==
    ASSUME NEW doc, IsTree(doc), NEW p \in 1..Len(doc), NEW tc, NEW tr, NEW tbl,
           Place(doc, p, tc, tr, tbl)
    PROVE  Within(doc, p, tc, tr, tbl)
<1>1. Len(doc) \in Nat /\ DOMAIN doc = 1..Len(doc) /\ p \in Nat \ {0}
  BY TreeFacts
<1>2. /\ tc \in Ancestors(doc, p) /\ tc \in Tagged(doc, "tc")
      /\ tc \in Nat \ {0} /\ tc < p /\ tc \in 1..Len(doc)
  <2>1. IsInnermost(doc, p, "tc", tc)
    BY <1>1, InnermostIs DEF Place
  <2>2. tc \in Ancestors(doc, p) /\ tc \in Tagged(doc, "tc")
    BY <2>1 DEF Place, IsInnermost
  <2> QED BY <1>1, <2>2, AboveIsBefore
<1>3. /\ tr \in Ancestors(doc, tc) /\ tr \in Tagged(doc, "tr")
      /\ tr \in Nat \ {0} /\ tr < tc /\ tr \in 1..Len(doc)
  <2>1. IsInnermost(doc, tc, "tr", tr)
    BY <1>2, InnermostIs DEF Place
  <2>2. tr \in Ancestors(doc, tc) /\ tr \in Tagged(doc, "tr")
    BY <2>1 DEF Place, IsInnermost
  <2> QED BY <1>1, <1>2, <2>2, AboveIsBefore
<1>4. /\ tbl \in Ancestors(doc, tr) /\ tbl \in Tagged(doc, "tbl")
      /\ tbl \in Nat \ {0} /\ tbl < tr /\ tbl \in 1..Len(doc)
  <2>1. IsInnermost(doc, tr, "tbl", tbl)
    BY <1>3, InnermostIs DEF Place
  <2>2. tbl \in Ancestors(doc, tr) /\ tbl \in Tagged(doc, "tbl")
    BY <2>1 DEF Place, IsInnermost
  <2> QED BY <1>1, <1>3, <2>2, AboveIsBefore
<1>5. tr \in Ancestors(doc, p)
  BY <1>2, <1>3, AboveAbove
<1>6. tbl \in Ancestors(doc, p)
  BY <1>4, <1>5, AboveAbove
<1> QED BY <1>1, <1>2, <1>3, <1>4, <1>5, <1>6 DEF Within

Context(doc, p, tc, tr, tbl) ==
    [index  |-> Cardinality({t \in Tagged(doc, "tbl") : t < tbl}),
     row    |-> IndexIn(doc, tbl, "tr", tr),
     cell   |-> IndexIn(doc, tr, "tc", tc),
     column |-> LogicalColumn(doc, tr, tc),
     span   |-> doc[tc].val,
     before |-> doc[tr].val,
     depth  |-> Cardinality(Ancestors(doc, tbl) \cap Tagged(doc, "tbl")),
     para   |-> IndexIn(doc, tc, "p", p)]

(* _table_context: a place, or none. *)
LEMMA ContextIs ==
    ASSUME NEW doc, IsTree(doc), NEW p \in Tagged(doc, "p")
    PROVE  /\ TableContext(doc, p) # NoTable <=> \E tc, tr, tbl : Place(doc, p, tc, tr, tbl)
           /\ \A tc, tr, tbl :
                Place(doc, p, tc, tr, tbl) => TableContext(doc, p) = Context(doc, p, tc, tr, tbl)
<1>1. p \in 1..Len(doc) /\ Len(doc) \in Nat
  BY TreeFacts DEF Tagged
<1>2. PICK tc : tc = Innermost(doc, p, "tc")
  OBVIOUS
<1>3. PICK tr : tr = IF tc = 0 THEN 0 ELSE Innermost(doc, tc, "tr")
  OBVIOUS
<1>4. PICK tbl : tbl = IF tr = 0 THEN 0 ELSE Innermost(doc, tr, "tbl")
  OBVIOUS
<1>5. TableContext(doc, p) = IF tbl = 0 THEN NoTable ELSE Context(doc, p, tc, tr, tbl)
  BY <1>2, <1>3, <1>4 DEF TableContext, Context
<1>6. tbl # 0 => Place(doc, p, tc, tr, tbl)
  BY <1>2, <1>3, <1>4 DEF Place
<1>7. ASSUME NEW c, NEW r, NEW t, Place(doc, p, c, r, t)
      PROVE  c = tc /\ r = tr /\ t = tbl /\ tbl # 0
  <2>1. c = tc /\ tc # 0
    BY <1>2, <1>7 DEF Place
  <2>2. r = tr /\ tr # 0
    BY <1>3, <1>7, <2>1 DEF Place
  <2> QED BY <1>4, <1>7, <2>1, <2>2 DEF Place
<1>8. ASSUME tbl # 0 PROVE Context(doc, p, tc, tr, tbl) # NoTable
  <2>1. Cardinality({t \in Tagged(doc, "tbl") : t < tbl}) \in Nat
    <3>1. Within(doc, p, tc, tr, tbl)
      BY <1>1, <1>6, <1>8, PlaceIsWithin
    <3>2. Tagged(doc, "tbl") \in SUBSET (1..Len(doc)) /\ tbl \in Tagged(doc, "tbl")
      BY <3>1, TreeFacts DEF Tagged, Within
    <3> QED BY <1>1, <3>2, CountGrows
  <2>2. PICK n : n = Cardinality({t \in Tagged(doc, "tbl") : t < tbl})
    OBVIOUS
  <2>3. Context(doc, p, tc, tr, tbl).index = n
    BY <2>2 DEF Context
  <2>4. NoTable.index = -1 /\ n # -1
    BY <2>1, <2>2 DEF NoTable
  <2> QED BY <2>3, <2>4
<1> QED BY <1>5, <1>6, <1>7, <1>8

(* The rows of one table follow one another, and so do the cells of a row.  *)
LEMMA RowsAndCellsFollow ==
    ASSUME NEW doc, IsTree(doc), Held(doc), NEW p, NEW q, p < q,
           NEW tc, NEW tr, NEW tbl, Within(doc, p, tc, tr, tbl), Place(doc, p, tc, tr, tbl),
           NEW c, NEW r, Within(doc, q, c, r, tbl)
    PROVE  tr < r \/ (tr = r /\ tc < c) \/ (tr = r /\ tc = c)
<1>1. /\ p \in Nat /\ q \in Nat /\ tc \in Nat \ {0} /\ tr \in Nat \ {0} /\ tbl \in Nat
      /\ c \in Nat /\ r \in Nat
      /\ tbl < tr /\ tr < tc /\ tc < p /\ tbl < r /\ r < c /\ c < q
  BY DEF Within
<1>2. ASSUME r < tr PROVE FALSE
  <2>1. r \in Ancestors(doc, tr)
    <3>1. r \in Ancestors(doc, q) /\ tr <= q
      BY <1>1 DEF Within
    <3> QED BY <1>1, <1>2, <3>1, AboveBetween
  <2>2. PICK m : m = Innermost(doc, tr, "tr")
    OBVIOUS
  <2>3. r <= m /\ m \in Nat
    <3>1. IsInnermost(doc, tr, "tr", m)
      BY <1>1, <2>2, InnermostIs
    <3> QED BY <2>1, <3>1 DEF IsInnermost, Within
  <2>4. m <= tbl
    BY <2>2 DEF Held, Within, Place
  <2> QED BY <1>1, <2>3, <2>4
<1>3. ASSUME tr = r, c < tc PROVE FALSE
  <2>1. c \in Ancestors(doc, tc)
    <3>1. c \in Ancestors(doc, q) /\ tc <= q
      BY <1>1 DEF Within
    <3> QED BY <1>1, <1>3, <3>1, AboveBetween
  <2>2. PICK m : m = Innermost(doc, tc, "tc")
    OBVIOUS
  <2>3. c <= m /\ m \in Nat
    <3>1. IsInnermost(doc, tc, "tc", m)
      BY <1>1, <2>2, InnermostIs
    <3> QED BY <2>1, <3>1 DEF IsInnermost, Within
  <2>4. m <= tr
    BY <2>2 DEF Held, Within, Place
  <2> QED BY <1>1, <1>3, <2>3, <2>4
<1> QED BY <1>1, <1>2, <1>3

(* The first column of a cell is behind those of the cells before it.       *)
LEMMA ColumnsFollow ==
    ASSUME NEW doc, IsTree(doc), NEW tr \in 1..Len(doc), doc[tr].tag = "tr",
           NEW c \in Tagged(doc, "tc"), Innermost(doc, c, "tr") = tr,
           NEW d \in Tagged(doc, "tc"), c < d
    PROVE  /\ doc[tr].val <= LogicalColumn(doc, tr, c)
           /\ LogicalColumn(doc, tr, c) + doc[c].val <= LogicalColumn(doc, tr, d)
<1>1. PICK A, B : A = EarlierIn(doc, tr, "tc", c) /\ B = EarlierIn(doc, tr, "tc", d)
  OBVIOUS
<1>2. /\ Len(doc) \in Nat /\ Tagged(doc, "tc") \in SUBSET (1..Len(doc))
      /\ c \in 1..Len(doc) /\ d \in 1..Len(doc)
      /\ doc[tr].val \in Nat /\ doc[c].val \in Nat
  BY TreeFacts DEF Tagged
<1>3. A \in SUBSET (1..Len(doc)) /\ B \in SUBSET (1..Len(doc)) /\ c \notin A
  BY <1>1, <1>2 DEF EarlierIn
<1>4. A \cup {c} \subseteq B
  <2>1. ASSUME NEW x \in A PROVE x \in B
    <3>1. x \in Tagged(doc, "tc") /\ Innermost(doc, x, doc[tr].tag) = tr /\ x < c /\ x \in Nat
      BY <1>1, <1>2 DEF EarlierIn
    <3>2. x < d
      BY <1>2, <3>1
    <3> QED BY <1>1, <3>1, <3>2 DEF EarlierIn
  <2>2. c \in B
    BY <1>1 DEF EarlierIn
  <2> QED BY <2>1, <2>2
<1>5. PICK m, n : m = Cardinality(Columns(doc, A)) /\ n = Cardinality(Columns(doc, B))
  OBVIOUS
<1>6. m \in Nat /\ n \in Nat
  BY <1>3, <1>5, ColumnsFinite
<1>7. m + doc[c].val <= n
  BY <1>2, <1>3, <1>4, <1>5, ColumnsGrow
<1>8. LogicalColumn(doc, tr, c) = doc[tr].val + m /\ LogicalColumn(doc, tr, d) = doc[tr].val + n
  BY <1>1, <1>5 DEF LogicalColumn
<1>9. PICK u, v : u = doc[tr].val /\ v = doc[c].val
  OBVIOUS
<1>10. u \in Nat /\ v \in Nat /\ u <= u + m /\ (u + m) + v <= u + n
  <2>1. u \in Nat /\ v \in Nat /\ m + v <= n
    BY <1>2, <1>7, <1>9
  <2> QED BY <1>6, <2>1
<1> QED BY <1>8, <1>9, <1>10

(* Two paragraphs of a table, in the order of the document: their rows,     *)
(* cells, columns and places in the cell.                                   *)
InOrder(x, y) ==
    x.index = y.index =>
        \/ x.row < y.row
        \/ /\ x.row = y.row /\ x.cell < y.cell
           /\ x.before <= x.column
           /\ x.column + x.span <= y.column
        \/ x.row = y.row /\ x.cell = y.cell /\ x.column = y.column /\ x.para < y.para

(* They are numbered in that order. *)
LEMMA PlacesFollow ==
    ASSUME NEW doc, IsTree(doc), Held(doc),
           NEW p \in Tagged(doc, "p"), NEW q \in Tagged(doc, "p"), p < q,
           NEW tc, NEW tr, NEW tbl, Place(doc, p, tc, tr, tbl),
           NEW c, NEW r, NEW t, Place(doc, q, c, r, t)
    PROVE  InOrder(Context(doc, p, tc, tr, tbl), Context(doc, q, c, r, t))
<1>1. PICK x, y : x = Context(doc, p, tc, tr, tbl) /\ y = Context(doc, q, c, r, t)
  OBVIOUS
<1>2. /\ x.index = Cardinality({s \in Tagged(doc, "tbl") : s < tbl})
      /\ x.row = IndexIn(doc, tbl, "tr", tr) /\ x.cell = IndexIn(doc, tr, "tc", tc)
      /\ x.column = LogicalColumn(doc, tr, tc) /\ x.span = doc[tc].val
      /\ x.before = doc[tr].val /\ x.para = IndexIn(doc, tc, "p", p)
  BY <1>1 DEF Context
<1>3. /\ y.index = Cardinality({s \in Tagged(doc, "tbl") : s < t})
      /\ y.row = IndexIn(doc, t, "tr", r) /\ y.cell = IndexIn(doc, r, "tc", c)
      /\ y.column = LogicalColumn(doc, r, c) /\ y.para = IndexIn(doc, c, "p", q)
  BY <1>1 DEF Context
<1>4. Within(doc, p, tc, tr, tbl) /\ Within(doc, q, c, r, t)
  BY PlaceIsWithin, TreeFacts DEF Tagged
<1>5. SUFFICES ASSUME x.index = y.index
               PROVE  \/ x.row < y.row
                      \/ /\ x.row = y.row /\ x.cell < y.cell
                         /\ x.before <= x.column
                         /\ x.column + x.span <= y.column
                      \/ /\ x.row = y.row /\ x.cell = y.cell
                         /\ x.column = y.column /\ x.para < y.para
  BY <1>1 DEF InOrder
<1>6. tbl = t
  <2>1. PICK n, S : n = Len(doc) /\ S = Tagged(doc, "tbl")
    OBVIOUS
  <2>2. n \in Nat /\ S \in SUBSET (1..n) /\ tbl \in S /\ t \in S /\ tbl \in Nat /\ t \in Nat
    BY <1>4, <2>1, TreeFacts DEF Tagged, Within
  <2>3. PICK j, k : j = Cardinality({s \in S : s < tbl}) /\ k = Cardinality({s \in S : s < t})
    OBVIOUS
  <2>4. j \in Nat /\ k \in Nat /\ (tbl < t => j < k) /\ (t < tbl => k < j)
    BY <2>2, <2>3, CountGrows
  <2>5. j = k
    BY <1>2, <1>3, <1>5, <2>1, <2>3
  <2> QED BY <2>2, <2>4, <2>5
<1>7. /\ doc[tbl].tag = "tbl" /\ doc[tr].tag = "tr" /\ doc[tc].tag = "tc"
      /\ tr \in Tagged(doc, "tr") /\ r \in Tagged(doc, "tr")
      /\ tc \in Tagged(doc, "tc") /\ c \in Tagged(doc, "tc") /\ tr \in 1..Len(doc)
  BY <1>4 DEF Within, Tagged
<1>8. /\ Innermost(doc, tr, "tbl") = tbl /\ Innermost(doc, r, "tbl") = tbl
      /\ Innermost(doc, tc, "tr") = tr /\ Innermost(doc, c, "tr") = r
      /\ Innermost(doc, p, "tc") = tc /\ Innermost(doc, q, "tc") = c
  BY <1>6 DEF Place
<1>9. tr < r \/ (tr = r /\ tc < c) \/ (tr = r /\ tc = c)
  BY <1>4, <1>6, RowsAndCellsFollow
<1>10. CASE tr < r
  <2>1. IndexIn(doc, tbl, "tr", tr) < IndexIn(doc, tbl, "tr", r)
    BY <1>7, <1>8, <1>10, IndexGrows
  <2> QED BY <1>2, <1>3, <1>6, <2>1
<1>11. CASE tr = r /\ tc < c
  <2>1. IndexIn(doc, tr, "tc", tc) < IndexIn(doc, tr, "tc", c)
    BY <1>7, <1>8, <1>11, IndexGrows
  <2>2. /\ doc[tr].val <= LogicalColumn(doc, tr, tc)
        /\ LogicalColumn(doc, tr, tc) + doc[tc].val <= LogicalColumn(doc, tr, c)
    BY <1>7, <1>8, <1>11, ColumnsFollow
  <2> QED BY <1>2, <1>3, <1>6, <1>11, <2>1, <2>2
<1>12. CASE tr = r /\ tc = c
  <2>1. IndexIn(doc, tc, "p", p) < IndexIn(doc, tc, "p", q)
    BY <1>7, <1>8, <1>12, IndexGrows
  <2> QED BY <1>2, <1>3, <1>6, <1>12, <2>1
<1> QED BY <1>9, <1>10, <1>11, <1>12
-----------------------------------------------------------------------------
(* The walk. *)

(* The paragraphs as far as e. *)
UpTo(doc, e) == {q \in Tagged(doc, "p") : q <= e}

Locations(doc) ==
    {[ordinal |-> o, para |-> p, table |-> TableContext(doc, p)] : o \in Nat, p \in Nat}

WalkInv ==
    /\ elements \in Documents
    /\ at \in Nat
    /\ ordinal = Cardinality(UpTo(elements, at))
    /\ yielded \in Seq(Locations(elements))
    /\ \A y \in 1..Len(yielded) :
         /\ yielded[y].para \in Tagged(elements, "p") /\ yielded[y].para <= at
         /\ yielded[y].ordinal =
              Cardinality(UpTo(elements, yielded[y].para))
    /\ \A x, y \in 1..Len(yielded) : x < y => yielded[x].para < yielded[y].para

(* The paragraph numbers count, and the location of each is its own.        *)
LEMMA WalkStarts ==
    ASSUME WalkInit PROVE WalkInv
<1>1. /\ elements \in Documents /\ at = 0 /\ ordinal = 0 /\ yielded = <<>>
  BY DEF WalkInit
<1>2. PICK doc : doc = elements
  OBVIOUS
<1>3. Tagged(doc, "p") \in SUBSET (1..Len(doc)) /\ Len(doc) \in Nat
  <2>1. IsTree(doc)
    BY <1>1, <1>2, DocumentsAre
  <2> QED BY <2>1, TreeFacts DEF Tagged
<1>4. UpTo(doc, 0) = {}
  BY <1>3 DEF UpTo
<1>5. yielded \in Seq(Locations(doc)) /\ Len(yielded) = 0
  BY <1>1
<1> QED BY <1>1, <1>2, <1>4, <1>5, FS_EmptySet DEF WalkInv

(* The paragraphs up to the next one are one more. *)
LEMMA OneMore ==
    ASSUME NEW doc, IsTree(doc), NEW k \in Nat, NEW p \in Tagged(doc, "p"), k < p,
           \A q \in Tagged(doc, "p") : k < q => p <= q
    PROVE  /\ Cardinality(UpTo(doc, k)) \in Nat
           /\ Cardinality(UpTo(doc, p)) = Cardinality(UpTo(doc, k)) + 1
<1>1. Tagged(doc, "p") \in SUBSET (1..Len(doc)) /\ Len(doc) \in Nat
  BY TreeFacts DEF Tagged
<1>2. PICK A, B : A = UpTo(doc, k) /\ B = UpTo(doc, p)
  OBVIOUS
<1>3. /\ A = {q \in Tagged(doc, "p") : q <= k}
      /\ B = {q \in Tagged(doc, "p") : q <= p}
  BY <1>2 DEF UpTo
<1>4. IsFiniteSet(A)
  <2>1. IsFiniteSet(1..Len(doc)) /\ A \in SUBSET (1..Len(doc))
    <3>1. PICK n : n = Len(doc)
      OBVIOUS
    <3>2. n \in Int /\ 1 \in Int
      BY <1>1, <3>1
    <3> QED BY <1>1, <1>3, <3>1, <3>2, FS_Interval
  <2> QED BY <2>1, FS_Subset
<1>5. B = A \cup {p}
  <2>1. ASSUME NEW q \in Tagged(doc, "p") PROVE q <= p <=> q <= k \/ q = p
    <3>1. q \in Nat /\ p \in Nat
      BY <1>1
    <3> QED BY <3>1
  <2> QED BY <1>3, <2>1
<1>6. p \notin A
  BY <1>1, <1>3
<1> QED BY <1>2, <1>4, <1>5, <1>6, FS_AddElement, FS_CardinalityType

(* What the walk yields is a location. *)
LEMMA LocationIs ==
    ASSUME NEW doc, NEW o \in Nat, NEW p \in Nat
    PROVE  [ordinal |-> o, para |-> p, table |-> TableContext(doc, p)] \in Locations(doc)
BY DEF Locations

(* Each paragraph is yielded after those before it. *)
LEMMA WalkGoesOn ==
    ASSUME WalkInv, NextParagraph PROVE WalkInv'
<1>1. /\ elements \in Documents /\ at \in Nat
      /\ ordinal = Cardinality(UpTo(elements, at))
      /\ yielded \in Seq(Locations(elements))
  BY DEF WalkInv
<1>2. PICK doc : doc = elements
  OBVIOUS
<1>3. IsTree(doc) /\ Tagged(doc, "p") \in SUBSET (1..Len(doc)) /\ Len(doc) \in Nat
  <2>1. IsTree(doc)
    BY <1>1, <1>2, DocumentsAre
  <2> QED BY <2>1, TreeFacts DEF Tagged
<1>4. PICK p : p = Min(Rest)
  OBVIOUS
<1>5. /\ p \in Tagged(doc, "p") /\ at < p /\ p \in Nat
      /\ \A q \in Tagged(doc, "p") : at < q => p <= q
  <2>1. Rest = {q \in Tagged(doc, "p") : q > at} /\ Rest # {}
    BY <1>2 DEF Rest, NextParagraph
  <2>2. PICK R : R = Rest
    OBVIOUS
  <2>3. R \in SUBSET Nat /\ R # {}
    BY <1>3, <2>1, <2>2
  <2>4. p \in R /\ \A q \in R : p <= q
    BY <1>4, <2>2, <2>3, MinIs
  <2> QED BY <1>1, <1>3, <2>1, <2>2, <2>4
<1>6. PICK o : o = ordinal + 1
  OBVIOUS
<1>7. /\ at' = p /\ ordinal' = o /\ elements' = doc
      /\ \/ yielded' = yielded
         \/ yielded' = Append(yielded, [ordinal |-> o, para |-> p,
                                        table |-> TableContext(doc, p)])
  BY <1>2, <1>4, <1>6 DEF NextParagraph, Counted
<1>8. o \in Nat /\ o = Cardinality(UpTo(doc, p))
  <2>1. PICK k, m, n : /\ k = at /\ m = Cardinality(UpTo(doc, k))
                       /\ n = Cardinality(UpTo(doc, p))
    OBVIOUS
  <2>2. k \in Nat /\ m = ordinal
    BY <1>1, <1>2, <2>1
  <2>3. k < p /\ \A q \in Tagged(doc, "p") : k < q => p <= q
    BY <1>5, <2>1
  <2>4. m \in Nat /\ n = m + 1
    BY <1>3, <1>5, <2>1, <2>2, <2>3, OneMore
  <2> QED BY <1>6, <2>1, <2>2, <2>4
<1>9. /\ Len(yielded) \in Nat
      /\ \A y \in 1..Len(yielded) :
           /\ yielded[y].para \in Tagged(doc, "p") /\ yielded[y].para <= at
           /\ yielded[y].ordinal = Cardinality(UpTo(doc, yielded[y].para))
      /\ \A x, y \in 1..Len(yielded) : x < y => yielded[x].para < yielded[y].para
  BY <1>1, <1>2 DEF WalkInv
<1>10. \A y \in 1..Len(yielded) : yielded[y].para \in Nat /\ yielded[y].para < p
  <2> SUFFICES ASSUME NEW y \in 1..Len(yielded)
               PROVE  yielded[y].para \in Nat /\ yielded[y].para < p
    OBVIOUS
  <2>1. PICK k : k = yielded[y].para
    OBVIOUS
  <2>2. k \in Tagged(doc, "p") /\ k <= at
    BY <1>9, <2>1
  <2>3. k \in Nat
    <3>1. k \in 1..Len(doc)
      BY <1>3, <2>2
    <3> QED BY <1>3, <3>1
  <2> QED BY <1>1, <1>5, <2>1, <2>2, <2>3
<1>11. PICK s, t : s = yielded /\ t = yielded'
  OBVIOUS
<1>12. SUFFICES /\ t \in Seq(Locations(doc))
                /\ \A y \in 1..Len(t) :
                     /\ t[y].para \in Tagged(doc, "p") /\ t[y].para <= p
                     /\ t[y].ordinal = Cardinality(UpTo(doc, t[y].para))
                /\ \A x, y \in 1..Len(t) : x < y => t[x].para < t[y].para
  BY <1>1, <1>2, <1>5, <1>7, <1>8, <1>11 DEF WalkInv
<1>13. CASE t = s
  <2>1. \A y \in 1..Len(s) : s[y].para <= p
    BY <1>5, <1>10, <1>11
  <2> QED BY <1>1, <1>2, <1>9, <1>11, <1>13, <2>1
<1>14. CASE t = Append(s, [ordinal |-> o, para |-> p, table |-> TableContext(doc, p)])
  <2>1. PICK l, n : /\ l = [ordinal |-> o, para |-> p, table |-> TableContext(doc, p)]
                    /\ n = Len(s)
    OBVIOUS
  <2>2. l \in Locations(doc) /\ l.para = p /\ l.ordinal = o
    <3>1. p \in Nat /\ p \in Tagged(doc, "p")
      BY <1>5
    <3>2. l \in Locations(doc)
      BY <1>8, <2>1, <3>1, LocationIs
    <3> QED BY <2>1, <3>2
  <2>3. s \in Seq(Locations(doc)) /\ n \in Nat
    BY <1>1, <1>2, <1>11, <2>1
  <2>4. /\ t \in Seq(Locations(doc)) /\ Len(t) = n + 1 /\ t[n + 1] = l
        /\ \A y \in 1..n : t[y] = s[y]
    BY <1>14, <2>1, <2>2, <2>3, AppendProperties
  <2>5. \A y \in 1..Len(t) : y \in 1..n \/ y = n + 1
    BY <2>3, <2>4
  <2>6. ASSUME NEW y \in 1..Len(t)
        PROVE  /\ t[y].para \in Tagged(doc, "p") /\ t[y].para <= p
               /\ t[y].ordinal = Cardinality(UpTo(doc, t[y].para))
    <3>1. CASE y \in 1..n
      BY <1>5, <1>9, <1>10, <1>11, <2>1, <2>4, <3>1
    <3>2. CASE y = n + 1
      BY <1>5, <1>8, <2>2, <2>4, <3>2
    <3> QED BY <2>5, <3>1, <3>2
  <2>7. ASSUME NEW x \in 1..Len(t), NEW y \in 1..Len(t), x < y PROVE t[x].para < t[y].para
    <3>1. x \in 1..n
      BY <2>3, <2>4, <2>7
    <3>2. CASE y \in 1..n
      BY <1>9, <1>11, <2>1, <2>4, <2>7, <3>1, <3>2
    <3>3. CASE y = n + 1
      BY <1>10, <1>11, <2>1, <2>2, <2>4, <3>1, <3>3
    <3> QED BY <2>5, <3>2, <3>3
  <2> QED BY <2>4, <2>6, <2>7
<1> QED BY <1>7, <1>11, <1>13, <1>14

(* Everything else that a reader does leaves the walk alone. *)
LEMMA WalkHolds ==
    ASSUME WalkInv, [Next]_vars PROVE WalkInv'
<1>1. CASE NextParagraph
  BY <1>1, WalkGoesOn
<1>2. CASE UNCHANGED walked
  BY <1>2 DEF walked, WalkInv
<1> QED BY <1>1, <1>2 DEF Next, Ask, Grep, vars

(* What is yielded has its own context. *)
LEMMA YieldedIs ==
    ASSUME WalkInv, NEW y \in DOMAIN yielded
    PROVE  /\ y \in 1..Len(yielded) /\ yielded[y].para \in Tagged(elements, "p")
           /\ yielded[y].table = TableContext(elements, yielded[y].para)
<1>1. yielded \in Seq(Locations(elements))
  BY DEF WalkInv
<1>2. y \in 1..Len(yielded) /\ yielded[y] \in Locations(elements)
  BY <1>1
<1>3. yielded[y].table = TableContext(elements, yielded[y].para)
  BY <1>2 DEF Locations
<1> QED BY <1>2, <1>3 DEF WalkInv

(* In every document, in every table, paragraphs are numbered in document   *)
(* order by row, cell and place in the cell, no two alike, and cells lie    *)
(* side by side in the grid (_table_context).                               *)
THEOREM WalkNumbersInOrder == Spec => []PlacesInOrder
<1>1. Init => WalkInv
  BY WalkStarts DEF Init
<1>2. WalkInv /\ [Next]_vars => WalkInv'
  BY WalkHolds
<1>3. WalkInv => PlacesInOrder
  <2> SUFFICES ASSUME WalkInv, NEW x \in InTables, NEW y \in InTables, x < y
               PROVE  InOrder(Table(x), Table(y))
    BY DEF PlacesInOrder, InOrder
  <2>1. PICK doc, p, q : doc = elements /\ p = yielded[x].para /\ q = yielded[y].para
    OBVIOUS
  <2>2. IsTree(doc) /\ Held(doc)
    BY <2>1, DocumentsAre DEF WalkInv
  <2>3. x \in DOMAIN yielded /\ y \in DOMAIN yielded
    BY DEF InTables
  <2>4. /\ p \in Tagged(doc, "p") /\ Table(x) = TableContext(doc, p) /\ Table(x) # NoTable
        /\ q \in Tagged(doc, "p") /\ Table(y) = TableContext(doc, q) /\ Table(y) # NoTable
    BY <2>1, <2>3, YieldedIs DEF InTables, Table
  <2>5. p < q
    BY <2>1, <2>3, YieldedIs DEF WalkInv
  <2>6. PICK tc, tr, tbl : Place(doc, p, tc, tr, tbl)
    BY <2>2, <2>4, ContextIs
  <2>7. PICK c, r, t : Place(doc, q, c, r, t)
    BY <2>2, <2>4, ContextIs
  <2>8. InOrder(Context(doc, p, tc, tr, tbl), Context(doc, q, c, r, t))
    BY <2>2, <2>4, <2>5, <2>6, <2>7, PlacesFollow
  <2>9. Table(x) = Context(doc, p, tc, tr, tbl) /\ Table(y) = Context(doc, q, c, r, t)
    BY <2>2, <2>4, <2>6, <2>7, ContextIs
  <2> QED BY <2>8, <2>9
<1> QED BY <1>1, <1>2, <1>3, PTL DEF Spec
-----------------------------------------------------------------------------
(* The document without the controls, and without the tables that do not    *)
(* contain the paragraph.                                                   *)

Others(doc, p) == Tagged(doc, "tbl") \ Ancestors(doc, p)

Inside(doc, p) == {e \in DOMAIN doc : ({e} \cup Ancestors(doc, e)) \cap Others(doc, p) # {}}

Alone(doc, p) == Without(doc, Tagged(doc, "sdt") \cup Inside(doc, p))

(* What a tag of a part of a table is found in. *)
HolderOf(tag, holder) ==
    \/ tag = "tr" /\ holder = "tbl"
    \/ tag = "tc" /\ holder = "tr"
    \/ tag = "p" /\ holder = "tc"

(* It has the same elements one above the other, fewer of them tagged. *)
LEMMA AloneIs ==
    ASSUME NEW doc, IsTree(doc), NEW p, NEW w, w = Alone(doc, p)
    PROVE  /\ IsTree(w) /\ Len(w) = Len(doc)
           /\ \A e \in 1..Len(doc) : w[e].up = doc[e].up /\ w[e].val = doc[e].val
           /\ \A e \in 1..Len(doc) : \A tag \in {"tbl", "tr", "tc", "p"} :
                e \in Tagged(w, tag) <=> e \in Tagged(doc, tag) /\ e \notin Inside(doc, p)
<1>1. PICK S : S = Tagged(doc, "sdt") \cup Inside(doc, p)
  OBVIOUS
<1>2. PICK tags, n, D, E : /\ D = [tag : tags, up : Nat, val : Nat] /\ doc \in Seq(D)
                           /\ E = [tag : tags \cup {"none"}, up : Nat, val : Nat]
                           /\ n = Len(doc)
  BY DEF IsTree
<1>3. n \in Nat /\ DOMAIN doc = 1..n /\ \A e \in 1..n : doc[e] \in E
  <2>1. doc \in Seq(D)
    BY <1>2
  <2>2. Len(doc) \in Nat /\ DOMAIN doc = 1..Len(doc) /\ \A e \in 1..Len(doc) : doc[e] \in D
    BY <2>1
  <2>3. \A x \in D : x \in E
    BY <1>2
  <2> QED BY <1>2, <2>2, <2>3
<1>4. w = [e \in 1..n |-> IF e \in S THEN [doc[e] EXCEPT !.tag = "none"] ELSE doc[e]]
  BY <1>1, <1>3 DEF Alone, Without
<1>5. ASSUME NEW e \in 1..n
      PROVE  /\ w[e] \in E /\ w[e].up = doc[e].up /\ w[e].val = doc[e].val
             /\ w[e].tag = IF e \in S THEN "none" ELSE doc[e].tag
  <2>1. PICK x, y : x = doc[e] /\ y = w[e]
    OBVIOUS
  <2>2. x \in E
    BY <1>3, <2>1
  <2>3. CASE e \in S
    <3>1. y = [x EXCEPT !.tag = "none"]
      BY <1>4, <2>1, <2>3
    <3>2. x \in [tag : tags \cup {"none"}, up : Nat, val : Nat]
      BY <1>2, <2>2
    <3>3. y \in [tag : tags \cup {"none"}, up : Nat, val : Nat]
      BY <3>1, <3>2
    <3>4. y.tag = "none" /\ y.up = x.up /\ y.val = x.val
      BY <3>1, <3>2
    <3> QED BY <1>2, <2>1, <2>3, <3>3, <3>4
  <2>4. CASE e \notin S
    <3>1. y = x
      BY <1>4, <2>1, <2>4
    <3> QED BY <2>1, <2>2, <2>4, <3>1
  <2> QED BY <2>3, <2>4
<1>6. w \in [1..n -> E]
  BY <1>4, <1>5
<1>7. IsTree(w) /\ Len(w) = n
  <2>1. w \in Seq(E) /\ Len(w) = n
    BY <1>3, <1>6
  <2> QED BY <1>2, <2>1 DEF IsTree
<1>8. ASSUME NEW e \in 1..n, NEW tag \in {"tbl", "tr", "tc", "p"}
      PROVE  e \in Tagged(w, tag) <=> e \in Tagged(doc, tag) /\ e \notin Inside(doc, p)
  <2>1. e \in Tagged(w, tag) <=> w[e].tag = tag
    BY <1>4 DEF Tagged
  <2>2. e \in Tagged(doc, tag) <=> doc[e].tag = tag
    BY <1>3 DEF Tagged
  <2>3. e \in S <=> doc[e].tag = "sdt" \/ e \in Inside(doc, p)
    BY <1>1, <1>3 DEF Tagged
  <2>4. tag # "none" /\ tag # "sdt"
    OBVIOUS
  <2> QED BY <1>5, <2>1, <2>2, <2>3, <2>4
<1> QED BY <1>2, <1>5, <1>7, <1>8

(* What is above an element stays above it. *)
LEMMA SameAbove ==
    ASSUME NEW doc, IsTree(doc), NEW p, NEW e \in 1..Len(doc)
    PROVE  Ancestors(Alone(doc, p), e) = Ancestors(doc, e)
<1>1. PICK w, n : w = Alone(doc, p) /\ n = Len(doc)
  OBVIOUS
<1>2. n \in Nat /\ e \in 1..n /\ \A x \in 1..n : w[x].up = doc[x].up
  BY <1>1, TreeFacts, AloneIs
<1>3. ASSUME NEW d \in 1..(e - 1)
      PROVE  (\A x \in (d + 1)..e : w[x].up >= d) <=> (\A x \in (d + 1)..e : doc[x].up >= d)
  <2>1. ASSUME NEW x \in (d + 1)..e PROVE x \in 1..n
    BY <1>2
  <2> QED BY <1>2, <2>1
<1>4. Ancestors(w, e) = Ancestors(doc, e)
  BY <1>3 DEF Ancestors
<1> QED BY <1>1, <1>4

(* The paragraph, and what is above it, is in none of the other tables. *)
LEMMA ChainIsOutside ==
    ASSUME NEW doc, IsTree(doc), NEW p \in Tagged(doc, "p"), NEW a,
           a = p \/ a \in Ancestors(doc, p)
    PROVE  a \in 1..Len(doc) /\ a \notin Inside(doc, p)
<1>1. p \in 1..Len(doc) /\ Len(doc) \in Nat /\ p \in Nat
  BY TreeFacts DEF Tagged
<1>2. a \in 1..Len(doc)
  <2>1. CASE a = p
    BY <1>1, <2>1
  <2>2. CASE a \in Ancestors(doc, p)
    BY <1>1, <2>2, AboveIsBefore
  <2> QED BY <2>1, <2>2
<1>3. ASSUME NEW t \in {a} \cup Ancestors(doc, a), t \in Tagged(doc, "tbl")
      PROVE  t \in Ancestors(doc, p)
  <2>1. p \notin Tagged(doc, "tbl")
    BY DEF Tagged
  <2>2. t # p
    BY <1>3, <2>1
  <2>3. CASE t = a
    BY <2>2, <2>3
  <2>4. CASE t \in Ancestors(doc, a)
    BY <1>1, <2>4, AboveAbove
  <2> QED BY <2>3, <2>4
<1> QED BY <1>2, <1>3 DEF Inside, Others

(* An element in none of them has the innermost ancestors that it had. *)
LEMMA SameInnermost ==
    ASSUME NEW doc, IsTree(doc), NEW p, NEW e \in 1..Len(doc), e \notin Inside(doc, p),
           NEW tag \in {"tbl", "tr", "tc", "p"}
    PROVE  /\ Ancestors(Alone(doc, p), e) \cap Tagged(Alone(doc, p), tag) =
                Ancestors(doc, e) \cap Tagged(doc, tag)
           /\ Innermost(Alone(doc, p), e, tag) = Innermost(doc, e, tag)
<1>1. PICK w : w = Alone(doc, p)
  OBVIOUS
<1>2. /\ Len(doc) \in Nat /\ e \in Nat /\ DOMAIN doc = 1..Len(doc)
      /\ Ancestors(w, e) = Ancestors(doc, e)
  BY <1>1, TreeFacts, SameAbove
<1>3. ASSUME NEW a \in Ancestors(doc, e) PROVE a \in 1..Len(doc) /\ a \notin Inside(doc, p)
  <2>1. a \in 1..Len(doc)
    BY <1>2, AboveIsBefore
  <2>2. ASSUME a \in Inside(doc, p) PROVE FALSE
    <3>1. PICK t \in {a} \cup Ancestors(doc, a) : t \in Others(doc, p)
      BY <2>2 DEF Inside
    <3>2. t \in Ancestors(doc, e)
      BY <3>1, AboveAbove
    <3> QED BY <1>2, <3>1, <3>2 DEF Inside
  <2> QED BY <2>1, <2>2
<1>4. ASSUME NEW a \in Ancestors(doc, e) PROVE a \in Tagged(w, tag) <=> a \in Tagged(doc, tag)
  BY <1>1, <1>3, AloneIs
<1>5. Ancestors(w, e) \cap Tagged(w, tag) = Ancestors(doc, e) \cap Tagged(doc, tag)
  BY <1>2, <1>4
<1> QED BY <1>1, <1>5 DEF Innermost

(* What belongs to a table around the paragraph, a row of it or a cell, is  *)
(* in none of them either: every table around it is around the paragraph.   *)
LEMMA HeldIsOutside ==
    ASSUME NEW doc, IsTree(doc), Held(doc), NEW p \in Tagged(doc, "p"),
           NEW above \in Ancestors(doc, p), NEW tag, NEW holder, HolderOf(tag, holder),
           NEW d \in Tagged(doc, tag), Innermost(doc, d, holder) = above
    PROVE  d \notin Inside(doc, p)
<1>1. /\ p \in 1..Len(doc) /\ p \in Nat /\ d \in 1..Len(doc) /\ d \in Nat \ {0}
      /\ above \in Nat \ {0} /\ above < p
  <2>1. p \in 1..Len(doc) /\ d \in 1..Len(doc) /\ Len(doc) \in Nat
    BY TreeFacts DEF Tagged
  <2> QED BY <2>1, AboveIsBefore
<1>2. above \in Ancestors(doc, d)
  <2>1. IsInnermost(doc, d, holder, above)
    BY <1>1, InnermostIs
  <2> QED BY <1>1, <2>1 DEF IsInnermost
<1>3. PICK m : m = Innermost(doc, d, "tbl")
  OBVIOUS
<1>4. m <= above /\ m \in Nat
  <2>1. m <= above
    BY <1>1, <1>3 DEF Held, HolderOf
  <2>2. IsInnermost(doc, d, "tbl", m)
    BY <1>1, <1>3, InnermostIs
  <2> QED BY <2>1, <2>2 DEF IsInnermost
<1>5. ASSUME NEW t \in {d} \cup Ancestors(doc, d), t \in Tagged(doc, "tbl")
      PROVE  t \in Ancestors(doc, p)
  <2>1. t \in Ancestors(doc, d)
    BY <1>5 DEF Tagged, HolderOf
  <2>2. t \in Nat /\ t <= m
    <3>1. IsInnermost(doc, d, "tbl", m)
      BY <1>1, <1>3, InnermostIs
    <3> QED BY <1>1, <1>5, <2>1, <3>1, AboveIsBefore DEF IsInnermost
  <2>3. CASE t = above
    BY <2>3
  <2>4. CASE t < above
    <3>1. above < d
      BY <1>1, <1>2, AboveIsBefore
    <3>2. t \in Ancestors(doc, above)
      BY <1>1, <2>1, <2>4, <3>1, AboveBetween
    <3> QED BY <1>1, <3>2, AboveAbove
  <2> QED BY <1>1, <1>4, <2>2, <2>3, <2>4
<1> QED BY <1>5 DEF Inside, Others

(* So the elements that are counted before another are the same. *)
LEMMA SameEarlier ==
    ASSUME NEW doc, IsTree(doc), Held(doc), NEW p \in Tagged(doc, "p"),
           NEW above \in Ancestors(doc, p), NEW tag, NEW holder, HolderOf(tag, holder),
           above \in Tagged(doc, holder), NEW e
    PROVE  EarlierIn(Alone(doc, p), above, tag, e) = EarlierIn(doc, above, tag, e)
<1>1. PICK w : w = Alone(doc, p)
  OBVIOUS
<1>2. tag \in {"tbl", "tr", "tc", "p"} /\ holder \in {"tbl", "tr", "tc", "p"}
  BY DEF HolderOf
<1>3. doc[above].tag = holder /\ w[above].tag = holder
  <2>1. above \in 1..Len(doc) /\ above \notin Inside(doc, p)
    BY ChainIsOutside
  <2>2. above \in Tagged(w, holder)
    BY <1>1, <1>2, <2>1, AloneIs
  <2> QED BY <2>2 DEF Tagged
<1>4. /\ Tagged(doc, tag) \in SUBSET (1..Len(doc))
      /\ Tagged(w, tag) = Tagged(doc, tag) \ Inside(doc, p)
  <2>1. DOMAIN doc = 1..Len(doc) /\ DOMAIN w = 1..Len(doc)
    <3>1. IsTree(w) /\ Len(w) = Len(doc)
      BY <1>1, AloneIs
    <3> QED BY <3>1, TreeFacts
  <2>2. Tagged(doc, tag) \in SUBSET (1..Len(doc)) /\ Tagged(w, tag) \in SUBSET (1..Len(doc))
    BY <2>1 DEF Tagged
  <2>3. \A d \in 1..Len(doc) :
            d \in Tagged(w, tag) <=> d \in Tagged(doc, tag) /\ d \notin Inside(doc, p)
    BY <1>1, <1>2, AloneIs
  <2> QED BY <2>2, <2>3
<1>5. ASSUME NEW d \in Tagged(doc, tag)
      PROVE  d \in Tagged(w, tag) /\ Innermost(w, d, holder) = above
               <=> Innermost(doc, d, holder) = above
  <2>1. CASE d \in Inside(doc, p)
    BY <1>4, <2>1, HeldIsOutside
  <2>2. CASE d \notin Inside(doc, p)
    BY <1>1, <1>2, <1>4, <2>2, SameInnermost
  <2> QED BY <2>1, <2>2
<1>6. EarlierIn(w, above, tag, e) = EarlierIn(doc, above, tag, e)
  BY <1>3, <1>4, <1>5 DEF EarlierIn
<1> QED BY <1>1, <1>6

(* The paragraph is in the same row, cell and table. *)
LEMMA SamePlace ==
    ASSUME NEW doc, IsTree(doc), NEW p \in Tagged(doc, "p"), NEW tc, NEW tr, NEW tbl
    PROVE  Place(Alone(doc, p), p, tc, tr, tbl) <=> Place(doc, p, tc, tr, tbl)
<1>1. PICK w : w = Alone(doc, p)
  OBVIOUS
<1>2. ASSUME NEW a, a = p \/ a \in Ancestors(doc, p), NEW tag \in {"tbl", "tr", "tc", "p"}
      PROVE  Innermost(w, a, tag) = Innermost(doc, a, tag)
  BY <1>1, <1>2, ChainIsOutside, SameInnermost
<1>3. p \in 1..Len(doc) /\ p \in Nat \ {0}
  BY TreeFacts DEF Tagged
<1>4. ASSUME tc = Innermost(doc, p, "tc"), tc # 0 PROVE tc \in Ancestors(doc, p) /\ tc \in Nat \ {0}
  BY <1>3, <1>4, InnermostIs DEF IsInnermost
<1>5. ASSUME tc = Innermost(doc, p, "tc"), tc # 0, tr = Innermost(doc, tc, "tr"), tr # 0
      PROVE  tr \in Ancestors(doc, p)
  <2>1. tr \in Ancestors(doc, tc)
    BY <1>4, <1>5, InnermostIs DEF IsInnermost
  <2> QED BY <1>3, <1>4, <1>5, <2>1, AboveAbove
<1>6. Innermost(w, p, "tc") = Innermost(doc, p, "tc")
  BY <1>2
<1>7. tc = Innermost(doc, p, "tc") /\ tc # 0 => Innermost(w, tc, "tr") = Innermost(doc, tc, "tr")
  BY <1>2, <1>4
<1>8. tc = Innermost(doc, p, "tc") /\ tc # 0 /\ tr = Innermost(doc, tc, "tr") /\ tr # 0
        => Innermost(w, tr, "tbl") = Innermost(doc, tr, "tbl")
  BY <1>2, <1>5
<1> QED BY <1>1, <1>6, <1>7, <1>8 DEF Place

(* And in the same place of them. *)
LEMMA SameContext ==
    ASSUME NEW doc, IsTree(doc), Held(doc), NEW p \in Tagged(doc, "p"),
           NEW tc, NEW tr, NEW tbl, Place(doc, p, tc, tr, tbl)
    PROVE  [Context(Alone(doc, p), p, tc, tr, tbl) EXCEPT !.index = 0] =
             [Context(doc, p, tc, tr, tbl) EXCEPT !.index = 0]
<1>1. PICK w : w = Alone(doc, p)
  OBVIOUS
<1>2. /\ p \in 1..Len(doc) /\ tc \in Ancestors(doc, p) /\ tr \in Ancestors(doc, p)
      /\ tbl \in Ancestors(doc, p) /\ tc \in Tagged(doc, "tc") /\ tr \in Tagged(doc, "tr")
      /\ tbl \in Tagged(doc, "tbl") /\ tc \in 1..Len(doc) /\ tr \in 1..Len(doc)
      /\ tbl \in 1..Len(doc)
  BY PlaceIsWithin, TreeFacts DEF Within, Tagged
<1>3. \A e \in 1..Len(doc) : w[e].val = doc[e].val
  BY <1>1, AloneIs
<1>4. /\ EarlierIn(w, tbl, "tr", tr) = EarlierIn(doc, tbl, "tr", tr)
      /\ EarlierIn(w, tr, "tc", tc) = EarlierIn(doc, tr, "tc", tc)
      /\ EarlierIn(w, tc, "p", p) = EarlierIn(doc, tc, "p", p)
  <2>1. HolderOf("tr", "tbl") /\ HolderOf("tc", "tr") /\ HolderOf("p", "tc")
    BY DEF HolderOf
  <2> QED BY <1>1, <1>2, <2>1, SameEarlier
<1>5. Columns(w, EarlierIn(doc, tr, "tc", tc)) = Columns(doc, EarlierIn(doc, tr, "tc", tc))
  <2>1. PICK A : A = EarlierIn(doc, tr, "tc", tc)
    OBVIOUS
  <2>2. A \in SUBSET (1..Len(doc))
    BY <2>1, TreeFacts DEF EarlierIn, Tagged
  <2>3. \A c \in A : {c} \X (1..w[c].val) = {c} \X (1..doc[c].val)
    BY <1>3, <2>2
  <2>4. Columns(w, A) = Columns(doc, A)
    BY <2>3 DEF Columns
  <2> QED BY <2>1, <2>4
<1>6. Ancestors(w, tbl) \cap Tagged(w, "tbl") = Ancestors(doc, tbl) \cap Tagged(doc, "tbl")
  BY <1>1, <1>2, ChainIsOutside, SameInnermost
<1>7. /\ IndexIn(w, tbl, "tr", tr) = IndexIn(doc, tbl, "tr", tr)
      /\ IndexIn(w, tr, "tc", tc) = IndexIn(doc, tr, "tc", tc)
      /\ IndexIn(w, tc, "p", p) = IndexIn(doc, tc, "p", p)
      /\ LogicalColumn(w, tr, tc) = LogicalColumn(doc, tr, tc)
      /\ w[tc].val = doc[tc].val /\ w[tr].val = doc[tr].val
  BY <1>2, <1>3, <1>4, <1>5 DEF IndexIn, LogicalColumn
<1>8. [Context(w, p, tc, tr, tbl) EXCEPT !.index = 0] =
        [Context(doc, p, tc, tr, tbl) EXCEPT !.index = 0]
  <2>1. PICK i, j : /\ i = Cardinality({t \in Tagged(w, "tbl") : t < tbl})
                    /\ j = Cardinality({t \in Tagged(doc, "tbl") : t < tbl})
    OBVIOUS
  <2>2. PICK r, c, l, s, b, d, n :
          /\ r = IndexIn(doc, tbl, "tr", tr) /\ c = IndexIn(doc, tr, "tc", tc)
          /\ l = LogicalColumn(doc, tr, tc) /\ s = doc[tc].val /\ b = doc[tr].val
          /\ d = Cardinality(Ancestors(doc, tbl) \cap Tagged(doc, "tbl"))
          /\ n = IndexIn(doc, tc, "p", p)
    OBVIOUS
  <2>3. /\ Context(w, p, tc, tr, tbl) = [index |-> i, row |-> r, cell |-> c, column |-> l,
                                         span |-> s, before |-> b, depth |-> d, para |-> n]
        /\ Context(doc, p, tc, tr, tbl) = [index |-> j, row |-> r, cell |-> c, column |-> l,
                                           span |-> s, before |-> b, depth |-> d, para |-> n]
    BY <1>6, <1>7, <2>1, <2>2 DEF Context
  <2> QED BY <2>3
<1> QED BY <1>1, <1>8

(* In every document, the number and the place of the last paragraph that   *)
(* was yielded do not depend on content controls, nor on the tables that    *)
(* are not around it (iter_editable_paragraphs, _table_context).            *)
THEOREM NestingMovesNothing == Spec => []NestingKeepsPlaces
<1>1. Init => WalkInv
  BY WalkStarts DEF Init
<1>2. WalkInv /\ [Next]_vars => WalkInv'
  BY WalkHolds
<1>3. WalkInv => NestingKeepsPlaces
  <2> SUFFICES ASSUME WalkInv, NEW y \in {Len(yielded)} \ {0}
               PROVE  /\ yielded[y].ordinal = Cardinality(UpTo(elements, yielded[y].para))
                      /\ LET p     == yielded[y].para
                             alone == TableContext(Alone(elements, p), p)
                         IN  /\ y \in InTables <=> alone # NoTable
                             /\ y \in InTables => [Table(y) EXCEPT !.index = 0] =
                                                    [alone EXCEPT !.index = 0]
    BY DEF NestingKeepsPlaces, UpTo, Alone, Inside, Others
  <2>1. PICK doc, p, w : doc = elements /\ p = yielded[y].para /\ w = Alone(doc, p)
    OBVIOUS
  <2>2. IsTree(doc) /\ Held(doc)
    BY <2>1, DocumentsAre DEF WalkInv
  <2>3. y \in DOMAIN yielded /\ y \in 1..Len(yielded)
    BY DEF WalkInv
  <2>4. /\ p \in Tagged(doc, "p") /\ Table(y) = TableContext(doc, p)
        /\ yielded[y].ordinal = Cardinality(UpTo(doc, p))
    BY <2>1, <2>3, YieldedIs DEF Table, WalkInv
  <2>5. y \in InTables <=> TableContext(doc, p) # NoTable
    BY <2>3, <2>4 DEF InTables, Table
  <2>6. IsTree(w) /\ p \in Tagged(w, "p")
    <3>1. p \in 1..Len(doc) /\ p \notin Inside(doc, p)
      BY <2>2, <2>4, ChainIsOutside
    <3> QED BY <2>1, <2>2, <2>4, <3>1, AloneIs
  <2>7. TableContext(w, p) # NoTable <=> TableContext(doc, p) # NoTable
    BY <2>1, <2>2, <2>4, <2>6, ContextIs, SamePlace
  <2>8. ASSUME TableContext(doc, p) # NoTable
        PROVE  [TableContext(doc, p) EXCEPT !.index = 0] = [TableContext(w, p) EXCEPT !.index = 0]
    <3>1. PICK tc, tr, tbl : Place(doc, p, tc, tr, tbl)
      BY <2>2, <2>4, <2>8, ContextIs
    <3>2. Place(w, p, tc, tr, tbl)
      BY <2>1, <2>2, <2>4, <3>1, SamePlace
    <3>3. /\ TableContext(doc, p) = Context(doc, p, tc, tr, tbl)
          /\ TableContext(w, p) = Context(w, p, tc, tr, tbl)
      BY <2>2, <2>4, <2>6, <3>1, <3>2, ContextIs
    <3> QED BY <2>1, <2>2, <2>4, <3>1, <3>3, SameContext
  <2> QED BY <2>1, <2>4, <2>5, <2>7, <2>8
<1> QED BY <1>1, <1>2, <1>3, PTL DEF Spec
-----------------------------------------------------------------------------
(* The matchers. *)

(* What a loop over a text holds. *)
Loops == [start : Nat, ranges : Seq([start : Nat, end : Nat])]

Ranged(rs) == {rs[a] : a \in 1..Len(rs)}

(* Ranges in order, that do not overlap. *)
Tidy(rs) ==
    /\ rs \in Seq([start : Nat, end : Nat])
    /\ \A a, b \in 1..Len(rs) : a < b => rs[a].start < rs[b].start /\ rs[a].end <= rs[b].start

(* They are all before the place where the loop goes on. *)
TidyLoop(loop) ==
    /\ loop \in Loops /\ Tidy(loop.ranges)
    /\ \A r \in Ranged(loop.ranges) : /\ r.start <= r.end
                                      /\ r.start < loop.start /\ r.end <= loop.start

(* The state of a loop before the first turn. *)
LEMMA NoRangesTidy ==
    TidyLoop(NoRanges) /\ NoRanges.start = 0 /\ Ranged(NoRanges.ranges) = {}
<1>1. PICK e : e = <<>>
  OBVIOUS
<1>2. e \in Seq([start : Nat, end : Nat]) /\ Len(e) = 0
  BY <1>1
<1>3. NoRanges = [start |-> 0, ranges |-> e]
  BY <1>1 DEF NoRanges
<1>4. NoRanges \in Loops /\ NoRanges.start = 0 /\ NoRanges.ranges = e
  BY <1>2, <1>3 DEF Loops
<1>5. Ranged(e) = {} /\ Tidy(e)
  BY <1>2 DEF Ranged, Tidy
<1> QED BY <1>4, <1>5 DEF TidyLoop

(* A turn adds the range from s to e, and the loop goes on at n. *)
Adds(next, loop, s, e, n) == next = [start |-> n, ranges |-> Append(loop.ranges, Span(s, e))]

Grew(next, loop, s, e, n) ==
    /\ TidyLoop(next) /\ next.start = n
    /\ Ranged(next.ranges) = Ranged(loop.ranges) \cup {Span(s, e)}

(* One more range, at or behind the place where the loop goes on. *)
LEMMA OneMoreRange ==
    ASSUME NEW loop, TidyLoop(loop), NEW s \in Nat, NEW e \in Nat, NEW n \in Nat,
           loop.start <= s, s <= e, e <= n, s < n,
           NEW next, Adds(next, loop, s, e, n)
    PROVE  Grew(next, loop, s, e, n)
<1>1. PICK S, r, rs, ts : /\ S = [start : Nat, end : Nat] /\ r = Span(s, e)
                          /\ rs = loop.ranges /\ ts = Append(rs, r)
  OBVIOUS
<1>2. r \in S /\ r.start = s /\ r.end = e
  BY <1>1 DEF Span
<1>3. rs \in Seq(S) /\ loop.start \in Nat
  BY <1>1 DEF TidyLoop, Loops
<1>4. PICK m \in Nat : m = Len(rs)
  BY <1>3
<1>5. ts \in Seq(S) /\ Len(ts) = m + 1 /\ ts[m + 1] = r /\ \A a \in 1..m : ts[a] = rs[a]
  BY <1>1, <1>2, <1>3, <1>4
<1>6. next.start = n /\ next.ranges = ts /\ next \in Loops
  BY <1>1, <1>5 DEF Loops, Adds
<1>7. Ranged(ts) = Ranged(rs) \cup {r}
  <2>1. \A a \in 1..(m + 1) : a \in 1..m \/ a = m + 1
    OBVIOUS
  <2>2. m + 1 \in 1..(m + 1) /\ \A a \in 1..m : a \in 1..(m + 1)
    OBVIOUS
  <2>3. Ranged(ts) \subseteq Ranged(rs) \cup {r}
    BY <1>4, <1>5, <2>1 DEF Ranged
  <2>4. Ranged(rs) \subseteq Ranged(ts) /\ r \in Ranged(ts)
    BY <1>4, <1>5, <2>2 DEF Ranged
  <2> QED BY <2>3, <2>4
<1>8. \A q \in Ranged(rs) : /\ q \in S /\ q.start <= q.end
                            /\ q.start < loop.start /\ q.end <= loop.start
  <2>1. \A a \in 1..m : rs[a] \in S
    BY <1>3, <1>4
  <2>2. \A q \in Ranged(rs) : q \in S
    BY <1>4, <2>1 DEF Ranged
  <2> QED BY <1>1, <2>2 DEF TidyLoop
<1>9. \A q \in Ranged(ts) : q.start <= q.end /\ q.start < n /\ q.end <= n
  <2> SUFFICES ASSUME NEW q \in Ranged(ts) PROVE q.start <= q.end /\ q.start < n /\ q.end <= n
    OBVIOUS
  <2>1. CASE q = r
    BY <1>2, <2>1
  <2>2. CASE q \in Ranged(rs)
    <3>1. q.start \in Nat /\ q.end \in Nat
      BY <1>1, <1>8, <2>2
    <3> QED BY <1>3, <1>8, <2>2, <3>1
  <2> QED BY <1>7, <2>1, <2>2
<1>10. ASSUME NEW a \in 1..(m + 1), NEW b \in 1..(m + 1), a < b
       PROVE  ts[a].start < ts[b].start /\ ts[a].end <= ts[b].start
  <2>1. a \in 1..m
    BY <1>10
  <2>2. CASE b = m + 1
    <3>1. rs[a] \in Ranged(rs)
      BY <1>4, <2>1 DEF Ranged
    <3>2. rs[a].start \in Nat /\ rs[a].end \in Nat
      BY <1>1, <1>8, <3>1
    <3> QED BY <1>2, <1>3, <1>5, <1>8, <2>1, <2>2, <3>1, <3>2
  <2>3. CASE b \in 1..m
    BY <1>1, <1>4, <1>5, <1>10, <2>1, <2>3 DEF TidyLoop, Tidy
  <2> QED BY <2>2, <2>3
<1>11. Tidy(ts)
  BY <1>1, <1>5, <1>10 DEF Tidy
<1> QED BY <1>1, <1>6, <1>7, <1>9, <1>11 DEF TidyLoop, Grew

(* Where a literal pattern occurs. *)
LEMMA OccurrencesAre ==
    ASSUME NEW C, NEW word \in Seq(C), NEW needle \in Seq(C), NEW i \in Occurrences(word, needle)
    PROVE  i \in Nat /\ i + Len(needle) <= Len(word)
<1>1. PICK m, n \in Nat : m = Len(word) /\ n = Len(needle)
  OBVIOUS
<1>2. i \in 0..(m - n)
  BY <1>1 DEF Occurrences
<1> QED BY <1>1, <1>2

LiteralInv(word, needle, k, loop) ==
    LET all == Occurrences(word, needle)
    IN  /\ TidyLoop(loop)
        /\ \A r \in Ranged(loop.ranges) : r.start \in all /\ r.end = r.start + Len(needle)
        /\ \A s \in all : s < loop.start =>
              \E r \in Ranged(loop.ranges) : Covers(r, s, s + Len(needle))
        /\ k <= loop.start \/ \A s \in all : s < loop.start

(* A turn of the loop of _find_literal. *)
LEMMA LiteralTurns ==
    ASSUME NEW C, NEW word \in Seq(C), NEW needle \in Seq(C), Len(needle) # 0,
           NEW k \in Nat, NEW loop, LiteralInv(word, needle, k, loop),
           NEW next, next = LiteralTurn(word, needle, loop)
    PROVE  LiteralInv(word, needle, k + 1, next)
<1>1. PICK all, later : /\ all = Occurrences(word, needle)
                        /\ later = {i \in all : i >= loop.start}
  OBVIOUS
<1>2. PICK n \in Nat : n = Len(needle)
  OBVIOUS
<1>3. n > 0
  BY <1>2
<1>4. PICK p \in Nat : p = loop.start
  BY DEF LiteralInv, TidyLoop, Loops
<1>5. all \in SUBSET Nat
  BY <1>1, OccurrencesAre
<1>6. /\ TidyLoop(loop)
      /\ \A r \in Ranged(loop.ranges) : r.start \in all /\ r.end = r.start + n
      /\ \A s \in all : s < p => \E r \in Ranged(loop.ranges) : Covers(r, s, s + n)
      /\ k <= p \/ \A s \in all : s < p
  BY <1>1, <1>2, <1>4 DEF LiteralInv
<1>7. CASE later = {}
  <2>1. next = loop
    BY <1>1, <1>7 DEF LiteralTurn
  <2>2. \A s \in all : s < p
    BY <1>1, <1>4, <1>5, <1>7
  <2> QED BY <1>1, <1>2, <1>4, <1>6, <2>1, <2>2 DEF LiteralInv
<1>8. CASE later # {}
  <2>1. later \in SUBSET Nat
    BY <1>1, <1>5
  <2>2. PICK m : m = Min(later)
    OBVIOUS
  <2>3. m \in later /\ \A i \in later : m <= i
    BY <1>8, <2>1, <2>2, MinIs
  <2>4. m \in Nat /\ m \in all /\ p <= m
    BY <1>1, <1>4, <1>5, <2>1, <2>3
  <2>5. PICK r, rs : r = Span(m, m + n) /\ rs = Ranged(loop.ranges)
    OBVIOUS
  <2>6. next = [start |-> m + n, ranges |-> Append(loop.ranges, Span(m, m + n))]
    BY <1>1, <1>2, <1>8, <2>2 DEF LiteralTurn
  <2>7. m + n \in Nat /\ m <= m + n /\ m < m + n /\ m + n <= m + n
    BY <1>3, <2>4
  <2>8. TidyLoop(next) /\ next.start = m + n /\ Ranged(next.ranges) = rs \cup {r}
    <3>1. PICK e \in Nat : e = m + n
      BY <2>7
    <3>2. loop.start <= m /\ m <= e /\ e <= e /\ m < e
      BY <1>4, <2>4, <2>7, <3>1
    <3>3. Adds(next, loop, m, e, e) /\ TidyLoop(loop)
      BY <1>6, <2>6, <3>1 DEF Adds
    <3>4. Grew(next, loop, m, e, e)
      BY <2>4, <3>2, <3>3, OneMoreRange
    <3> QED BY <2>5, <3>1, <3>4 DEF Grew
  <2>9. r.start = m /\ r.end = m + n
    BY <2>5 DEF Span
  <2>10. \A q \in rs \cup {r} : q.start \in all /\ q.end = q.start + n
    BY <1>6, <2>4, <2>5, <2>9
  <2>11. ASSUME NEW s \in all, s < m + n
         PROVE  \E q \in rs \cup {r} : Covers(q, s, s + n)
    <3>1. CASE s < p
      BY <1>6, <2>5, <3>1
    <3>2. CASE ~(s < p)
      <4>1. s \in Nat /\ m <= s
        BY <1>1, <1>4, <1>5, <2>3, <3>2
      <4>2. Covers(r, s, s + n)
        BY <1>3, <2>4, <2>9, <2>11, <4>1 DEF Covers
      <4> QED BY <4>2
    <3> QED BY <3>1, <3>2
  <2>12. k + 1 <= m + n \/ \A s \in all : s < m + n
    <3>1. CASE k <= p
      BY <1>3, <2>4, <3>1
    <3>2. CASE \A s \in all : s < p
      <4>1. m < p
        BY <2>4, <3>2
      <4> QED BY <2>4, <4>1
    <3> QED BY <1>6, <3>1, <3>2
  <2> QED BY <1>1, <1>2, <2>8, <2>10, <2>11, <2>12 DEF LiteralInv
<1> QED BY <1>7, <1>8

(* What a matcher finds: tidy ranges within the text, none left out.  *)
LEMMA FindLiteralFinds ==
    ASSUME NEW C, NEW word \in Seq(C), NEW needle \in Seq(C), Len(needle) # 0
    PROVE  LET all == Occurrences(word, needle)
               rs  == FindLiteral(word, needle)
           IN  /\ Tidy(rs)
               /\ \A r \in Ranged(rs) : r.start \in all /\ r.end = r.start + Len(needle)
               /\ \A s \in all : \E r \in Ranged(rs) : Covers(r, s, s + Len(needle))
<1>1. PICK n \in Nat : n = Len(word) + 1
  <2>1. Len(word) + 1 \in Nat
    OBVIOUS
  <2> QED BY <2>1
<1>2. PICK S : S = {loop \in Loops : \E k \in Nat : LiteralInv(word, needle, k, loop)}
  OBVIOUS
<1>3. LiteralInv(word, needle, 0, NoRanges)
  <2>1. \A s \in Occurrences(word, needle) : ~(s < 0)
    BY OccurrencesAre
  <2> QED BY <2>1, NoRangesTidy DEF LiteralInv
<1>4. NoRanges \in S
  BY <1>2, <1>3 DEF LiteralInv, TidyLoop
<1>5. PICK step : step = [p \in (1..n) \X S |-> LiteralTurn(word, needle, p[2])]
  OBVIOUS
<1>6. ASSUME NEW loop \in S PROVE LiteralTurn(word, needle, loop) \in S
  <2>1. PICK k \in Nat : LiteralInv(word, needle, k, loop)
    BY <1>2
  <2>2. PICK next : next = LiteralTurn(word, needle, loop)
    OBVIOUS
  <2>3. LiteralInv(word, needle, k + 1, next)
    BY <2>1, <2>2, LiteralTurns
  <2>4. k + 1 \in Nat
    OBVIOUS
  <2>5. next \in Loops
    BY <2>3 DEF LiteralInv, TidyLoop
  <2> QED BY <1>2, <2>2, <2>3, <2>4, <2>5
<1>7. step \in [(1..n) \X S -> S]
  BY <1>5, <1>6
<1>8. PICK f : Computes(f, n, S, NoRanges, step)
  BY <1>4, <1>7, Recursion
<1> DEFINE P(h) == h = [k \in 0..n |->
                        IF k = 0 THEN NoRanges ELSE LiteralTurn(word, needle, h[k - 1])]
<1>9. ASSUME NEW k \in 1..n PROVE f[k] = LiteralTurn(word, needle, f[k - 1])
  <2>1. k - 1 \in 0..n
    OBVIOUS
  <2>2. PICK l : l = f[k - 1]
    OBVIOUS
  <2>3. l \in S /\ f[k] = step[<<k, l>>]
    BY <1>8, <2>1, <2>2 DEF Computes
  <2>4. step[<<k, l>>] = LiteralTurn(word, needle, l)
    BY <1>5, <2>3
  <2> QED BY <2>2, <2>3, <2>4
<1>10. P(f)
  <2>1. ASSUME NEW k \in 0..n
        PROVE  f[k] = IF k = 0 THEN NoRanges ELSE LiteralTurn(word, needle, f[k - 1])
    <3>1. k = 0 \/ k \in 1..n
      OBVIOUS
    <3> QED BY <1>8, <1>9, <3>1 DEF Computes
  <2>2. f = [k \in 0..n |-> f[k]]
    BY <1>8 DEF Computes
  <2> QED BY <2>1, <2>2, Zenon
<1>11. PICK h : h = CHOOSE u : P(u)
  OBVIOUS
<1>12. P(h)
  BY <1>10, <1>11
<1>13. FindLiteral(word, needle) = h[n].ranges
  BY <1>1, <1>11 DEF FindLiteral
<1>14. PICK G : G = {k \in Nat : k \in 0..n => LiteralInv(word, needle, k, h[k])}
  OBVIOUS
<1>15. 0 \in G
  <2>1. 0 \in 0..n
    OBVIOUS
  <2>2. h[0] = NoRanges
    BY <1>12, <2>1
  <2> QED BY <1>3, <1>14, <2>2
<1>16. ASSUME NEW k \in G PROVE k + 1 \in G
  <2>1. k \in Nat /\ (k \in 0..n => LiteralInv(word, needle, k, h[k]))
    BY <1>14
  <2>2. ASSUME k + 1 \in 0..n PROVE LiteralInv(word, needle, k + 1, h[k + 1])
    <3>1. k \in 0..n /\ (k + 1) - 1 = k /\ k + 1 # 0
      BY <2>1, <2>2
    <3>2. h[k + 1] = LiteralTurn(word, needle, h[k])
      BY <1>12, <2>2, <3>1
    <3> QED BY <2>1, <3>1, <3>2, LiteralTurns
  <2> QED BY <1>14, <2>1, <2>2
<1>17. n \in G
  BY <1>14, <1>15, <1>16, UpFromZero
<1>18. PICK loop : loop = h[n]
  OBVIOUS
<1>19. LiteralInv(word, needle, n, loop)
  <2>1. n \in 0..n
    OBVIOUS
  <2> QED BY <1>14, <1>17, <1>18, <2>1
<1>20. \A s \in Occurrences(word, needle) : s < loop.start
  <2>1. loop.start \in Nat
    BY <1>19 DEF LiteralInv, TidyLoop, Loops
  <2>2. ASSUME NEW s \in Occurrences(word, needle) PROVE s < n
    <3>1. PICK m \in Nat : m = Len(needle)
      OBVIOUS
    <3>2. PICK w \in Nat : w = Len(word)
      OBVIOUS
    <3>3. s \in Nat /\ s + m <= w
      BY <3>1, <3>2, OccurrencesAre
    <3> QED BY <1>1, <3>2, <3>3
  <2>3. \A s \in Occurrences(word, needle) : s \in Nat
    BY OccurrencesAre
  <2> QED BY <1>19, <2>1, <2>2, <2>3 DEF LiteralInv
<1> QED BY <1>13, <1>18, <1>19, <1>20 DEF LiteralInv, TidyLoop

(* A run of c, as long as can be. *)
IsRun(word, c, s, e) ==
    /\ s < e /\ e <= Len(word)
    /\ \A i \in (s + 1)..e : word[i] = c
    /\ s > 0 => word[s] # c
    /\ e < Len(word) => word[e + 1] # c

(* The run that begins at p goes up to there. *)
LEMMA RunEndIs ==
    ASSUME NEW C, NEW word \in Seq(C), NEW c, NEW p \in 0..Len(word)
    PROVE  /\ RunEnd(word, c, p) \in p..Len(word)
           /\ RunEnd(word, c, p) < Len(word) => word[RunEnd(word, c, p) + 1] # c
           /\ \A i \in (p + 1)..RunEnd(word, c, p) : word[i] = c
<1>1. PICK w \in Nat : w = Len(word)
  OBVIOUS
<1>2. PICK S : S = {e \in p..w : e = w \/ word[e + 1] # c}
  OBVIOUS
<1>3. p \in Nat /\ p \in 0..w /\ w \in p..w
  BY <1>1
<1>4. S \in SUBSET Nat
  BY <1>2, <1>3
<1>5. S # {}
  BY <1>2, <1>3
<1>6. PICK e : e = Min(S)
  OBVIOUS
<1>7. e = RunEnd(word, c, p)
  BY <1>1, <1>2, <1>6 DEF RunEnd
<1>8. e \in S /\ \A x \in S : e <= x
  BY <1>4, <1>5, <1>6, MinIs
<1>9. e \in p..w /\ (e = w \/ word[e + 1] # c)
  BY <1>2, <1>8
<1>10. ASSUME NEW i \in (p + 1)..e PROVE word[i] = c
  <2>1. PICK x : x = i - 1
    OBVIOUS
  <2>2. x \in p..w /\ ~(e <= x) /\ x # w /\ x + 1 = i
    BY <1>3, <1>9, <2>1
  <2>3. x \notin S
    BY <1>8, <2>2
  <2> QED BY <1>2, <2>2, <2>3
<1>11. e < w => word[e + 1] # c
  BY <1>1, <1>9
<1> QED BY <1>1, <1>7, <1>9, <1>10, <1>11

(* The place p is not inside a run. *)
Clean(word, c, p) ==
    \/ p = 0 \/ p >= Len(word)
    \/ word[p] # c \/ word[p + 1] # c

StarInv(word, c, k, loop) ==
    /\ TidyLoop(loop)
    /\ Clean(word, c, loop.start)
    /\ \A r \in Ranged(loop.ranges) : /\ r.end <= Len(word)
                                      /\ r.start < r.end => IsRun(word, c, r.start, r.end)
    /\ \A s \in Nat, e \in Nat :
          IsRun(word, c, s, e) /\ s < loop.start => Span(s, e) \in Ranged(loop.ranges)
    /\ k <= loop.start \/ loop.start > Len(word)

(* A turn of finditer. *)
LEMMA StarTurns ==
    ASSUME NEW C, NEW word \in Seq(C), NEW c, NEW k \in Nat,
           NEW loop, StarInv(word, c, k, loop),
           NEW next, next = StarTurn(word, c, loop)
    PROVE  StarInv(word, c, k + 1, next)
<1>1. PICK w \in Nat : w = Len(word)
  OBVIOUS
<1>2. PICK p \in Nat : p = loop.start
  BY DEF StarInv, TidyLoop, Loops
<1>3. PICK rs : rs = Ranged(loop.ranges)
  OBVIOUS
<1>4. /\ TidyLoop(loop) /\ Clean(word, c, p)
      /\ \A r \in rs : r.end <= w /\ (r.start < r.end => IsRun(word, c, r.start, r.end))
      /\ \A s \in Nat, e \in Nat : IsRun(word, c, s, e) /\ s < p => Span(s, e) \in rs
      /\ k <= p \/ p > w
  BY <1>1, <1>2, <1>3 DEF StarInv
<1>5. CASE p > w
  <2>1. next = loop
    BY <1>1, <1>2, <1>5 DEF StarTurn
  <2> QED BY <1>1, <1>2, <1>3, <1>4, <1>5, <2>1 DEF StarInv
<1>6. CASE ~(p > w)
  <2>1. p \in 0..w
    BY <1>6
  <2>2. PICK e : e = RunEnd(word, c, p)
    OBVIOUS
  <2>3. /\ e \in p..w /\ e \in Nat /\ (e < w => word[e + 1] # c)
        /\ \A i \in (p + 1)..e : word[i] = c
    BY <1>1, <2>1, <2>2, RunEndIs
  <2>4. PICK n : n = IF e = p THEN e + 1 ELSE e
    OBVIOUS
  <2>5. n \in Nat /\ e <= n /\ p < n
    BY <2>3, <2>4
  <2>6. Adds(next, loop, p, e, n)
    BY <1>1, <1>2, <1>6, <2>2, <2>4 DEF StarTurn, Adds
  <2>7. loop.start <= p /\ p <= e
    BY <1>2, <2>3
  <2>8. Grew(next, loop, p, e, n)
    BY <1>4, <2>3, <2>5, <2>6, <2>7, OneMoreRange
  <2>9. PICK r : r = Span(p, e)
    OBVIOUS
  <2>10. /\ r.start = p /\ r.end = e
         /\ TidyLoop(next) /\ next.start = n /\ Ranged(next.ranges) = rs \cup {r}
    BY <1>3, <2>8, <2>9 DEF Grew, Span
  <2>11. p > 0 /\ p < e => word[p] # c
    <3>1. SUFFICES ASSUME p > 0, p < e PROVE word[p] # c
      OBVIOUS
    <3>2. p + 1 \in (p + 1)..e /\ ~(p >= w)
      BY <2>3, <3>1
    <3>3. word[p + 1] = c
      BY <2>3, <3>2
    <3> QED BY <1>1, <1>4, <3>1, <3>2, <3>3 DEF Clean
  <2>12. p < e => IsRun(word, c, p, e)
    BY <1>1, <2>3, <2>11 DEF IsRun
  <2>13. \A q \in rs \cup {r} : q.end <= w /\ (q.start < q.end => IsRun(word, c, q.start, q.end))
    BY <1>4, <2>3, <2>10, <2>12
  <2>14. Clean(word, c, n)
    <3>1. CASE e = p
      BY <1>1, <2>1, <2>3, <2>4, <3>1 DEF Clean
    <3>2. CASE e # p
      BY <1>1, <2>1, <2>3, <2>4, <3>2 DEF Clean
    <3> QED BY <3>1, <3>2
  <2>15. ASSUME NEW s \in Nat, NEW x \in Nat, IsRun(word, c, s, x), s < n
         PROVE  Span(s, x) \in rs \cup {r}
    <3>1. /\ s < x /\ x <= w /\ (s > 0 => word[s] # c) /\ (x < w => word[x + 1] # c)
          /\ \A i \in (s + 1)..x : word[i] = c
      BY <1>1, <2>15 DEF IsRun
    <3>2. CASE s < p
      BY <1>4, <2>15, <3>2
    <3>3. CASE s = p
      <4>1. word[p + 1] = c
        <5>1. p + 1 \in (s + 1)..x
          BY <3>1, <3>3
        <5> QED BY <3>1, <5>1
      <4>2. p < e
        <5>1. p # w
          BY <3>1, <3>3
        <5>2. e # p
          BY <2>1, <2>3, <4>1, <5>1
        <5> QED BY <2>3, <5>2
      <4>3. ~(x < e)
        <5>1. ASSUME x < e PROVE FALSE
          <6>1. x + 1 \in (p + 1)..e /\ x < w
            BY <2>3, <3>1, <3>3, <5>1
          <6> QED BY <2>3, <3>1, <6>1
        <5> QED BY <5>1
      <4>4. ~(e < x)
        <5>1. ASSUME e < x PROVE FALSE
          <6>1. e + 1 \in (s + 1)..x /\ e < w
            BY <2>3, <3>1, <3>3, <5>1
          <6> QED BY <2>3, <3>1, <6>1
        <5> QED BY <5>1
      <4>5. x = e
        BY <2>3, <4>3, <4>4
      <4> QED BY <2>9, <3>3, <4>5
    <3>4. CASE s > p
      <4>1. e # p
        BY <2>4, <2>15, <3>4
      <4>2. s \in (p + 1)..e /\ s > 0
        BY <2>3, <2>4, <2>15, <3>4, <4>1
      <4> QED BY <2>3, <3>1, <4>2
    <3> QED BY <3>2, <3>3, <3>4
  <2>16. k + 1 <= n \/ n > w
    BY <1>4, <1>6, <2>5
  <2> QED BY <1>1, <2>10, <2>13, <2>14, <2>15, <2>16 DEF StarInv
<1> QED BY <1>5, <1>6

(* What finditer finds of c*: tidy ranges within the text, and the longest  *)
(* runs of c among them.                                                    *)
LEMMA FindStarFinds ==
    ASSUME NEW C, NEW word \in Seq(C), NEW c
    PROVE  LET rs == FindStar(word, c)
           IN  /\ Tidy(rs)
               /\ \A r \in Ranged(rs) : /\ r.start <= r.end /\ r.end <= Len(word)
                                        /\ r.start < r.end => IsRun(word, c, r.start, r.end)
               /\ \A s \in Nat, e \in Nat : IsRun(word, c, s, e) => Span(s, e) \in Ranged(rs)
<1>1. PICK n \in Nat : n = Len(word) + 1
  <2>1. Len(word) + 1 \in Nat
    OBVIOUS
  <2> QED BY <2>1
<1>2. PICK S : S = {loop \in Loops : \E k \in Nat : StarInv(word, c, k, loop)}
  OBVIOUS
<1>3. StarInv(word, c, 0, NoRanges)
  <2>1. \A s \in Nat : ~(s < 0)
    OBVIOUS
  <2>2. Clean(word, c, 0)
    BY DEF Clean
  <2>3. 0 <= NoRanges.start
    BY NoRangesTidy
  <2> QED BY <2>1, <2>2, <2>3, NoRangesTidy DEF StarInv
<1>4. NoRanges \in S
  BY <1>2, <1>3 DEF StarInv, TidyLoop
<1>5. PICK step : step = [p \in (1..n) \X S |-> StarTurn(word, c, p[2])]
  OBVIOUS
<1>6. ASSUME NEW loop \in S PROVE StarTurn(word, c, loop) \in S
  <2>1. PICK k \in Nat : StarInv(word, c, k, loop)
    BY <1>2
  <2>2. PICK next : next = StarTurn(word, c, loop)
    OBVIOUS
  <2>3. StarInv(word, c, k + 1, next)
    BY <2>1, <2>2, StarTurns
  <2>4. k + 1 \in Nat
    OBVIOUS
  <2>5. next \in Loops
    BY <2>3 DEF StarInv, TidyLoop
  <2> QED BY <1>2, <2>2, <2>3, <2>4, <2>5
<1>7. step \in [(1..n) \X S -> S]
  BY <1>5, <1>6
<1>8. PICK f : Computes(f, n, S, NoRanges, step)
  BY <1>4, <1>7, Recursion
<1> DEFINE P(h) == h = [k \in 0..n |->
                        IF k = 0 THEN NoRanges ELSE StarTurn(word, c, h[k - 1])]
<1>9. ASSUME NEW k \in 1..n PROVE f[k] = StarTurn(word, c, f[k - 1])
  <2>1. k - 1 \in 0..n
    OBVIOUS
  <2>2. PICK l : l = f[k - 1]
    OBVIOUS
  <2>3. l \in S /\ f[k] = step[<<k, l>>]
    BY <1>8, <2>1, <2>2 DEF Computes
  <2>4. step[<<k, l>>] = StarTurn(word, c, l)
    BY <1>5, <2>3
  <2> QED BY <2>2, <2>3, <2>4
<1>10. P(f)
  <2>1. ASSUME NEW k \in 0..n
        PROVE  f[k] = IF k = 0 THEN NoRanges ELSE StarTurn(word, c, f[k - 1])
    <3>1. k = 0 \/ k \in 1..n
      OBVIOUS
    <3> QED BY <1>8, <1>9, <3>1 DEF Computes
  <2>2. f = [k \in 0..n |-> f[k]]
    BY <1>8 DEF Computes
  <2> QED BY <2>1, <2>2, Zenon
<1>11. PICK h : h = CHOOSE u : P(u)
  OBVIOUS
<1>12. P(h)
  BY <1>10, <1>11
<1>13. FindStar(word, c) = h[n].ranges
  BY <1>1, <1>11 DEF FindStar
<1>14. PICK G : G = {k \in Nat : k \in 0..n => StarInv(word, c, k, h[k])}
  OBVIOUS
<1>15. 0 \in G
  <2>1. 0 \in 0..n
    OBVIOUS
  <2>2. h[0] = NoRanges
    BY <1>12, <2>1
  <2> QED BY <1>3, <1>14, <2>2
<1>16. ASSUME NEW k \in G PROVE k + 1 \in G
  <2>1. k \in Nat /\ (k \in 0..n => StarInv(word, c, k, h[k]))
    BY <1>14
  <2>2. ASSUME k + 1 \in 0..n PROVE StarInv(word, c, k + 1, h[k + 1])
    <3>1. k \in 0..n /\ (k + 1) - 1 = k /\ k + 1 # 0
      BY <2>1, <2>2
    <3>2. h[k + 1] = StarTurn(word, c, h[k])
      BY <1>12, <2>2, <3>1
    <3> QED BY <2>1, <3>1, <3>2, StarTurns
  <2> QED BY <1>14, <2>1, <2>2
<1>17. n \in G
  BY <1>14, <1>15, <1>16, UpFromZero
<1>18. PICK loop : loop = h[n]
  OBVIOUS
<1>19. StarInv(word, c, n, loop)
  <2>1. n \in 0..n
    OBVIOUS
  <2> QED BY <1>14, <1>17, <1>18, <2>1
<1>20. loop.start > Len(word)
  <2>1. loop.start \in Nat
    BY <1>19 DEF StarInv, TidyLoop, Loops
  <2> QED BY <1>1, <1>19, <2>1 DEF StarInv
<1>21. ASSUME NEW s \in Nat, NEW e \in Nat, IsRun(word, c, s, e)
       PROVE  Span(s, e) \in Ranged(loop.ranges)
  <2>1. s < loop.start
    <3>1. loop.start \in Nat
      BY <1>19 DEF StarInv, TidyLoop, Loops
    <3>2. s < e /\ e <= Len(word)
      BY <1>21 DEF IsRun
    <3> QED BY <1>20, <3>1, <3>2
  <2> QED BY <1>19, <1>21, <2>1 DEF StarInv
<1> QED BY <1>13, <1>18, <1>19, <1>21 DEF StarInv, TidyLoop
-----------------------------------------------------------------------------
(* The pages. *)

(* What a pattern is said to find in a text. *)
Finds(word, rs) ==
    /\ Tidy(rs)
    /\ \A r \in Ranged(rs) : r.start <= r.end /\ r.end <= Len(word)
    /\ Complete(word, Ranged(rs))

(* It is found, whatever the pattern. *)
LEMMA FindAllFinds ==
    ASSUME pattern \in Patterns, NEW word \in Seq(STRING)
    PROVE  Finds(word, FindAll(word))
<1>1. PICK needle, rs : needle = pattern.text /\ rs = FindAll(word)
  OBVIOUS
<1>2. needle \in Seq(STRING) /\ Len(needle) # 0 /\ pattern.regex \in BOOLEAN
  <2>1. pattern.text \in Seq(STRING) \ {<<>>} /\ pattern.regex \in BOOLEAN
    BY PatternsAssumption
  <2> QED BY <1>1, <2>1, EmptySeq
<1>3. CASE pattern.regex
  <2>1. PICK c : c = needle[1]
    OBVIOUS
  <2>2. rs = FindStar(word, c)
    BY <1>1, <1>3, <2>1 DEF FindAll
  <2>3. Tidy(rs)
    BY <2>2, FindStarFinds
  <2>4. \A r \in Ranged(rs) : /\ r.start <= r.end /\ r.end <= Len(word)
                              /\ r.start < r.end => IsRun(word, c, r.start, r.end)
    BY <2>2, FindStarFinds
  <2>5. \A s \in Nat, e \in Nat : IsRun(word, c, s, e) => Span(s, e) \in Ranged(rs)
    BY <2>2, FindStarFinds
  <2>6. \A r \in Ranged(rs) : r \in [start : Nat, end : Nat]
    <3>1. PICK R : R = [start : Nat, end : Nat]
      OBVIOUS
    <3>2. rs \in Seq(R)
      BY <2>3, <3>1 DEF Tidy
    <3>3. ASSUME NEW a \in 1..Len(rs) PROVE rs[a] \in R
      BY <3>2
    <3> QED BY <3>1, <3>3 DEF Ranged
  <2>7. PICK w \in Nat : w = Len(word)
    OBVIOUS
  <2>8. PICK all : all = [start : 0..w, end : 1..w]
    OBVIOUS
  <2>9. PICK longest :
          longest = {r \in all : /\ r.start < r.end
                                 /\ \A i \in (r.start + 1)..r.end : word[i] = c
                                 /\ r.start > 0 => word[r.start] # c
                                 /\ r.end < w => word[r.end + 1] # c}
    OBVIOUS
  <2>10. ASSUME NEW r \in Ranged(rs), r.start < r.end PROVE r \in longest
    <3>1. IsRun(word, c, r.start, r.end) /\ r.end <= w
      BY <2>4, <2>7, <2>10
    <3>2. r.start \in 0..w /\ r.end \in 1..w
      BY <2>6, <2>10, <3>1
    <3>3. r = Span(r.start, r.end)
      BY <2>6 DEF Span
    <3>4. r \in all
      BY <2>8, <3>2, <3>3 DEF Span
    <3> QED BY <2>7, <2>9, <3>1, <3>4 DEF IsRun
  <2>11. ASSUME NEW r \in longest PROVE r \in Ranged(rs) /\ r.start < r.end
    <3>1. r \in all
      BY <2>9
    <3>2. PICK s, e : s = r.start /\ e = r.end
      OBVIOUS
    <3>3. r = Span(s, e)
      BY <2>8, <3>1, <3>2 DEF Span
    <3>4. r.start = s /\ r.end = e /\ s \in Nat /\ e \in Nat /\ e <= w
      BY <2>8, <3>1, <3>2
    <3>5. /\ r.start < r.end /\ \A i \in (r.start + 1)..r.end : word[i] = c
          /\ r.start > 0 => word[r.start] # c
          /\ r.end < w => word[r.end + 1] # c
      BY <2>9
    <3>6. IsRun(word, c, s, e)
      BY <2>7, <3>4, <3>5 DEF IsRun
    <3> QED BY <2>5, <3>3, <3>4, <3>5, <3>6
  <2>12. {r \in Ranged(rs) : r.start < r.end} = longest
    BY <2>10, <2>11
  <2>13. Complete(word, Ranged(rs))
    BY <1>1, <1>3, <2>1, <2>7, <2>8, <2>9, <2>12 DEF Complete
  <2> QED BY <1>1, <2>3, <2>4, <2>13 DEF Finds
<1>4. CASE ~pattern.regex
  <2>1. rs = FindLiteral(word, needle)
    BY <1>1, <1>4 DEF FindAll
  <2>2. PICK all : all = Occurrences(word, needle)
    OBVIOUS
  <2>3. /\ Tidy(rs)
        /\ \A r \in Ranged(rs) : r.start \in all /\ r.end = r.start + Len(needle)
        /\ \A s \in all : \E r \in Ranged(rs) : Covers(r, s, s + Len(needle))
    BY <1>2, <2>1, <2>2, FindLiteralFinds
  <2>4. ASSUME NEW r \in Ranged(rs) PROVE r.start <= r.end /\ r.end <= Len(word)
    <3>1. r.start \in Occurrences(word, needle) /\ r.end = r.start + Len(needle)
      BY <2>2, <2>3
    <3>2. PICK s : s = r.start
      OBVIOUS
    <3>3. s \in Nat /\ s + Len(needle) <= Len(word)
      BY <1>2, <3>1, <3>2, OccurrencesAre
    <3> QED BY <1>2, <3>1, <3>2, <3>3
  <2>5. Complete(word, Ranged(rs))
    BY <1>1, <1>4, <2>2, <2>3 DEF Complete
  <2> QED BY <1>1, <2>3, <2>4, <2>5 DEF Finds
<1> QED BY <1>2, <1>3, <1>4

Match == [para : Nat, range : [start : Nat, end : Nat]]

HitsList == [k \in 1..Len(records) |-> Hits(k)]

(* What a document holds is text, and what is found in it is what FindAll   *)
(* finds in each paragraph.                                                 *)
HitsAre(H) ==
    /\ H \in Seq(Seq(Match)) /\ Len(H) = Len(records) /\ DOMAIN records = 1..Len(records)
    /\ \A k \in 1..Len(records) :
         /\ Plain(records[k]) \in Seq(STRING)
         /\ Len(H[k]) = Len(FindAll(Plain(records[k])))
         /\ \A j \in 1..Len(H[k]) :
              H[k][j] = [para |-> k, range |-> FindAll(Plain(records[k]))[j]]

(* The records of the index are the paragraphs of the document, as text. *)
LEMMA RecordsAre ==
    ASSUME WalkInv, text \in Wordings(elements)
    PROVE  /\ records \in Seq(Seq(Seq(STRING))) /\ DOMAIN records = 1..Len(records)
           /\ DOMAIN yielded = 1..Len(records)
<1>1. PICK doc, S : doc = elements /\ S = Seq(Seq(STRING))
  OBVIOUS
<1>2. doc \in Documents /\ yielded \in Seq(Locations(doc))
  BY <1>1 DEF WalkInv
<1>3. text \in [DOMAIN doc -> S]
  <2>1. Wordings(doc) \subseteq [DOMAIN doc -> Seq(Seq(STRING))]
    BY <1>2, WordingsAssumption
  <2> QED BY <1>1, <2>1
<1>4. PICK n \in Nat : n = Len(yielded) /\ DOMAIN yielded = 1..n
  BY <1>2
<1>5. ASSUME NEW k \in 1..n PROVE text[yielded[k].para] \in S
  <2>1. yielded[k].para \in Tagged(doc, "p")
    BY <1>1, <1>4, <1>5, YieldedIs
  <2>2. yielded[k].para \in DOMAIN doc
    BY <2>1 DEF Tagged
  <2> QED BY <1>3, <2>2
<1>6. records = [k \in 1..n |-> text[yielded[k].para]]
  BY <1>4 DEF records
<1>7. records \in [1..n -> S]
  BY <1>5, <1>6
<1>8. records \in Seq(S) /\ Len(records) = n /\ DOMAIN records = 1..n
  BY <1>7
<1> QED BY <1>1, <1>4, <1>8

LEMMA HitsListIs ==
    ASSUME WalkInv, text \in Wordings(elements), pattern \in Patterns, NEW H, H = HitsList
    PROVE  HitsAre(H)
<1>1. records \in Seq(Seq(Seq(STRING))) /\ DOMAIN records = 1..Len(records)
  BY RecordsAre
<1>2. PICK n \in Nat : n = Len(records)
  <2>1. PICK S : S = Seq(Seq(STRING))
    OBVIOUS
  <2>2. records \in Seq(S)
    BY <1>1, <2>1
  <2> QED BY <2>2
<1>3. H = [k \in 1..n |-> Hits(k)]
  BY <1>2 DEF HitsList
<1>4. PICK R : R = [start : Nat, end : Nat]
  OBVIOUS
<1>5. ASSUME NEW k \in 1..n
      PROVE  /\ Plain(records[k]) \in Seq(STRING)
             /\ Hits(k) \in Seq(Match)
             /\ Len(Hits(k)) = Len(FindAll(Plain(records[k])))
             /\ \A j \in 1..Len(Hits(k)) :
                  Hits(k)[j] = [para |-> k, range |-> FindAll(Plain(records[k]))[j]]
  <2>1. PICK p : p = records[k]
    OBVIOUS
  <2>2. p \in Seq(Seq(STRING))
    <3>1. PICK S : S = Seq(Seq(STRING))
      OBVIOUS
    <3>2. records \in Seq(S)
      BY <1>1, <3>1
    <3> QED BY <1>2, <1>5, <2>1, <3>1, <3>2
  <2>3. Plain(p) \in Seq(STRING)
    BY <2>2, FlattenType DEF Plain
  <2>4. PICK rs : rs = FindAll(Plain(p))
    OBVIOUS
  <2>5. rs \in Seq(R)
    BY <1>4, <2>3, <2>4, FindAllFinds DEF Finds, Tidy
  <2>6. PICK m \in Nat : m = Len(rs)
    BY <2>5
  <2>7. Hits(k) = [j \in 1..m |-> [para |-> k, range |-> rs[j]]]
    BY <2>1, <2>4, <2>6 DEF Hits
  <2>8. ASSUME NEW j \in 1..m PROVE [para |-> k, range |-> rs[j]] \in Match
    <3>1. rs[j] \in R /\ k \in Nat
      BY <1>5, <2>5, <2>6
    <3> QED BY <1>4, <3>1 DEF Match
  <2>9. Hits(k) \in [1..m -> Match]
    BY <2>7, <2>8
  <2>10. Hits(k) \in Seq(Match) /\ Len(Hits(k)) = m
    BY <2>9
  <2> QED BY <2>1, <2>3, <2>4, <2>6, <2>7, <2>10
<1>6. PICK P : P = Seq(Match)
  OBVIOUS
<1>7. H \in [1..n -> P]
  BY <1>3, <1>5, <1>6
<1>8. H \in Seq(P) /\ Len(H) = n
  BY <1>7
<1>9. ASSUME NEW k \in 1..n PROVE H[k] = Hits(k)
  BY <1>3, <1>9
<1> QED BY <1>1, <1>2, <1>5, <1>6, <1>8, <1>9 DEF HitsAre

(* The pages have shown the first n paragraphs, the next begins behind them *)
(* or there is none.                                                        *)
Shown(H, n) ==
    /\ n \in 0..Len(H) /\ found = Upto(H, n)
    /\ n = start - 1 \/ (n = Len(H) /\ n <= start - 1)

SearchInv ==
    /\ WalkInv
    /\ text \in Wordings(elements)
    /\ \/ pattern = NoPattern /\ start = 1 /\ found = <<>>
       \/ /\ Rest = {} /\ pattern \in Patterns /\ limit \in Limits /\ start \in Nat
          /\ \E n \in Nat : Shown(HitsList, n)

(* The window of a page goes from the first paragraph of the page as far as *)
(* the limit allows (_window_slice).                                        *)
LEMMA WindowIs ==
    ASSUME NEW n \in Nat, Len(records) = n, NEW size \in Nat, NEW from \in 1..n
    PROVE  \E m \in (from - 1)..n :
             /\ WindowSlice(from, size) = [j \in 1..(m - from + 1) |-> from + j - 1]
             /\ m = from - 1 + size \/ (m = n /\ m <= from - 1 + size)
<1>1. PICK S : S = {from - 1 + size, n}
  OBVIOUS
<1>2. S \in SUBSET Nat /\ S # {}
  BY <1>1
<1>3. PICK m : m = Min(S)
  OBVIOUS
<1>4. m \in S /\ \A y \in S : m <= y
  BY <1>2, <1>3, MinIs
<1>5. m \in (from - 1)..n /\ (m = from - 1 + size \/ (m = n /\ m <= from - 1 + size))
  BY <1>1, <1>4
<1>6. ~(from - 1 >= Len(records))
  OBVIOUS
<1>7. WindowSlice(from, size) = [j \in 1..(m - from + 1) |-> from + j - 1]
  BY <1>1, <1>3, <1>6 DEF WindowSlice
<1> QED BY <1>5, <1>7

(* A page goes on where the last one ended. *)
LEMMA PageFollows ==
    ASSUME WalkInv, text \in Wordings(elements), pattern \in Patterns, limit \in Limits,
           start \in Nat, NEW H, H = HitsList, NEW n \in Nat, Shown(H, n), Grep
    PROVE  \E m \in Nat : /\ m \in 0..Len(H) /\ found' = Upto(H, m)
                          /\ start' = start + limit
                          /\ m = start' - 1 \/ (m = Len(H) /\ m <= start' - 1)
<1>1. HitsAre(H)
  BY HitsListIs
<1>2. PICK w \in Nat : w = Len(H) /\ w = Len(records)
  BY <1>1 DEF HitsAre
<1>3. limit \in Nat
  BY LimitsAssumption
<1>4. start <= w /\ start' = start + limit
  BY <1>2 DEF Grep
<1>5. n = start - 1 /\ start \in 1..w /\ found = Upto(H, n) /\ n \in 0..w
  BY <1>2, <1>4 DEF Shown
<1>6. PICK m \in (start - 1)..w :
          /\ WindowSlice(start, limit) = [j \in 1..(m - start + 1) |-> start + j - 1]
          /\ m = start - 1 + limit \/ (m = w /\ m <= start - 1 + limit)
  BY <1>2, <1>3, <1>5, WindowIs
<1>7. m \in n..w /\ m - start + 1 \in Nat /\ m \in Nat
  BY <1>5, <1>6
<1>8. PICK z \in Nat : z = m - start + 1
  BY <1>7
<1>9. PICK window : window = WindowSlice(start, limit)
  OBVIOUS
<1>10. Len(window) = z /\ \A j \in 1..z : window[j] = start + j - 1
  BY <1>6, <1>8, <1>9
<1>11. PICK a : a = [j \in 1..z |-> Hits(window[j])]
  OBVIOUS
<1>12. found' = found \o FlattenSeq(a)
  BY <1>9, <1>10, <1>11 DEF Grep
<1>13. PICK P : P = Seq(Match)
  OBVIOUS
<1>14. H \in Seq(P)
  BY <1>1, <1>13 DEF HitsAre
<1>15. PICK b : b = SubSeq(H, n + 1, m)
  OBVIOUS
<1>16. b = [j \in 1..z |-> H[n + j]]
  BY <1>5, <1>7, <1>8, <1>14, <1>15
<1>17. ASSUME NEW j \in 1..z PROVE H[n + j] = Hits(window[j])
  <2>1. window[j] = n + j /\ n + j \in 1..w
    BY <1>5, <1>7, <1>8, <1>10
  <2>2. H = [k \in 1..w |-> Hits(k)]
    BY <1>2 DEF HitsList
  <2>3. H[n + j] = Hits(n + j)
    BY <2>1, <2>2
  <2> QED BY <2>1, <2>3
<1>18. a = b
  BY <1>11, <1>16, <1>17
<1>19. Upto(H, n) \o FlattenSeq(b) = Upto(H, m)
  BY <1>2, <1>5, <1>7, <1>13, <1>14, <1>15, UptoBehind
<1>20. found' = Upto(H, m)
  BY <1>5, <1>12, <1>18, <1>19
<1>21. m = start' - 1 \/ (m = Len(H) /\ m <= start' - 1)
  BY <1>2, <1>3, <1>4, <1>6
<1>22. m \in 0..Len(H)
  BY <1>2, <1>5, <1>7
<1> QED BY <1>4, <1>7, <1>20, <1>21, <1>22

(* The pages are of the first paragraphs, before and after every step. *)
LEMMA SearchStarts ==
    ASSUME Init PROVE SearchInv
<1>1. WalkInv
  BY WalkStarts DEF Init
<1>2. text \in Wordings(elements) /\ pattern = NoPattern /\ start = 1 /\ found = <<>>
  BY DEF Init
<1> QED BY <1>1, <1>2 DEF SearchInv

LEMMA NoPatternIsNone == NoPattern \notin Patterns
  BY PatternsAssumption DEF NoPattern

LEMMA SearchHolds ==
    ASSUME SearchInv, [Next]_vars PROVE SearchInv'
<1>1. WalkInv /\ text \in Wordings(elements)
  BY DEF SearchInv
<1>2. WalkInv'
  BY <1>1, WalkHolds
<1>3. (text \in Wordings(elements))'
  <2>1. UNCHANGED <<text, elements>>
    BY DEF Next, NextParagraph, Ask, Grep, walked, vars
  <2> QED BY <1>1, <2>1
<1>4. CASE NextParagraph /\ UNCHANGED <<text, search>>
  <2>1. Rest # {} /\ UNCHANGED <<pattern, start, found>>
    BY <1>4 DEF NextParagraph, search
  <2>2. pattern = NoPattern /\ start = 1 /\ found = <<>>
    BY <2>1 DEF SearchInv
  <2>3. (pattern = NoPattern /\ start = 1 /\ found = <<>>)'
    BY <2>1, <2>2
  <2> QED BY <1>2, <1>3, <2>3 DEF SearchInv
<1>5. CASE Ask
  <2>1. /\ Rest = {} /\ pattern = NoPattern /\ pattern' \in Patterns /\ limit' \in Limits
        /\ UNCHANGED <<walked, text, start, found>>
    BY <1>5 DEF Ask
  <2>2. start = 1 /\ found = <<>>
    BY <2>1, NoPatternIsNone DEF SearchInv
  <2>3. Rest' = {}
    BY <2>1 DEF Rest, walked
  <2>4. PICK H : H = HitsList'
    OBVIOUS
  <2>5. found' = Upto(H, 0)
    <3>1. SubSeq(H, 1, 0) = <<>>
      BY SubSeqEmpty
    <3>2. PICK e : e = SubSeq(H, 1, 0)
      OBVIOUS
    <3>3. Len(e) = 0
      BY <3>1, <3>2
    <3>4. FlattenSeq(e) = e
      BY <3>3, FlattenEmpty
    <3>5. Upto(H, 0) = <<>>
      BY <3>1, <3>2, <3>4 DEF Upto
    <3> QED BY <2>1, <2>2, <3>5
  <2>6. 0 \in 0..Len(H)
    <3>1. PICK S : S = Seq(Seq(STRING))
      OBVIOUS
    <3>2. records \in Seq(S)
      BY <1>1, <3>1, RecordsAre
    <3>3. PICK n \in Nat : n = Len(records)
      BY <3>2
    <3>4. records' = records
      BY <2>1 DEF records, walked
    <3>5. H = [k \in 1..n |-> Hits(k)']
      BY <2>4, <3>3, <3>4 DEF HitsList
    <3>6. PICK Q : Q = {H[k] : k \in 1..n}
      OBVIOUS
    <3>7. H \in [1..n -> Q]
      BY <3>5, <3>6
    <3>8. Len(H) = n
      BY <3>7
    <3> QED BY <3>8
  <2>7. Shown(HitsList, 0)'
    BY <2>1, <2>2, <2>4, <2>5, <2>6 DEF Shown
  <2> QED BY <1>2, <1>3, <2>1, <2>2, <2>3, <2>7 DEF SearchInv
<1>6. CASE Grep
  <2>1. pattern # NoPattern /\ UNCHANGED <<walked, text, pattern, limit>>
    BY <1>6 DEF Grep
  <2>2. Rest = {} /\ pattern \in Patterns /\ limit \in Limits /\ start \in Nat
    BY <2>1 DEF SearchInv
  <2>3. PICK n \in Nat : Shown(HitsList, n)
    BY <2>1 DEF SearchInv
  <2>4. PICK H : H = HitsList
    OBVIOUS
  <2>5. PICK m \in Nat : /\ m \in 0..Len(H) /\ found' = Upto(H, m)
                         /\ start' = start + limit
                         /\ m = start' - 1 \/ (m = Len(H) /\ m <= start' - 1)
    BY <1>1, <1>6, <2>2, <2>3, <2>4, PageFollows
  <2>6. HitsList' = H
    BY <2>1, <2>4 DEF HitsList, Hits, FindAll, records, walked
  <2>7. Shown(HitsList, m)'
    BY <2>5, <2>6 DEF Shown
  <2>8. Rest' = {}
    BY <2>1, <2>2 DEF Rest, walked
  <2>9. start' \in Nat
    BY <2>2, <2>5, LimitsAssumption
  <2> QED BY <1>2, <1>3, <2>1, <2>2, <2>7, <2>8, <2>9 DEF SearchInv
<1>7. CASE UNCHANGED vars
  <2>1. UNCHANGED <<walked, text, pattern, limit, start, found>>
    BY <1>7 DEF vars, search
  <2>2. HitsList' = HitsList
    BY <2>1 DEF HitsList, Hits, FindAll, records, walked
  <2>3. Rest' = Rest
    BY <2>1 DEF Rest, walked
  <2> QED BY <1>2, <1>3, <2>1, <2>2, <2>3 DEF SearchInv, Shown
<1> QED BY <1>4, <1>5, <1>6, <1>7 DEF Next

(* Where the matches that the pages show are in those of the document. *)
LEMMA ShownMatches ==
    ASSUME NEW H, HitsAre(H), NEW n, Shown(H, n), start \in Nat,
           NEW k \in 1..Len(H), NEW j \in 1..Len(H[k])
    PROVE  LET i == Len(Upto(H, k - 1)) + j
           IN  /\ i \in 1..Len(FlattenSeq(H)) /\ FlattenSeq(H)[i] = H[k][j]
               /\ i <= Len(found) <=> k < start
               /\ i <= Len(found) => i \in 1..Len(found) /\ found[i] = H[k][j]
<1>1. H \in Seq(Seq(Match))
  BY DEF HitsAre
<1>2. PICK i : i = Len(Upto(H, k - 1)) + j
  OBVIOUS
<1>3. i \in 1..Len(FlattenSeq(H)) /\ FlattenSeq(H)[i] = H[k][j]
  BY <1>1, <1>2, PieceIsAt
<1>4. n \in 0..Len(H) /\ found = Upto(H, n) /\ (n = start - 1 \/ (n = Len(H) /\ n <= start - 1))
  BY DEF Shown
<1>5. i <= Len(found) <=> k <= n
  BY <1>1, <1>2, <1>4, PieceReached
<1>6. k <= n <=> k < start
  BY <1>1, <1>4
<1>7. BeginsWith(FlattenSeq(H), found)
  <2>1. Built(H, Match)
    BY <1>1, UptoSteps
  <2>2. Len(H) \in n..Len(H)
    BY <1>1, <1>4
  <2> QED BY <1>1, <1>4, <2>1, <2>2, UptoGrows DEF Built
<1>8. i <= Len(found) => i \in 1..Len(found) /\ found[i] = H[k][j]
  <2>1. found \in Seq(Match)
    BY <1>1, <1>4, UptoSteps DEF Built
  <2> QED BY <1>3, <1>7, <2>1 DEF BeginsWith
<1> QED BY <1>2, <1>3, <1>5, <1>6, <1>8

(* Element i of the pages is match j of paragraph k. *)
IsHit(H, i, k, j) ==
    /\ k \in 1..Len(H) /\ j \in 1..Len(H[k]) /\ i = Len(Upto(H, k - 1)) + j
    /\ found[i] = H[k][j] /\ k < start

(* Where a match that the pages show is from. *)
LEMMA ShownFrom ==
    ASSUME NEW H, HitsAre(H), NEW n, Shown(H, n), start \in Nat, NEW i \in 1..Len(found)
    PROVE  \E k, j : IsHit(H, i, k, j)
<1>1. H \in Seq(Seq(Match))
  BY DEF HitsAre
<1>2. n \in 0..Len(H) /\ found = Upto(H, n)
  BY DEF Shown
<1>3. Built(H, Match)
  BY <1>1, UptoSteps
<1>4. PICK f : f = FlattenSeq(H)
  OBVIOUS
<1>5. f = Upto(H, Len(H)) /\ Len(H) \in n..Len(H)
  BY <1>1, <1>2, <1>3, <1>4 DEF Built
<1>6. BeginsWith(f, found)
  BY <1>1, <1>2, <1>5, UptoGrows
<1>7. found \in Seq(Match) /\ f \in Seq(Match)
  BY <1>1, <1>2, <1>3, <1>4, FlattenType DEF Built
<1>8. i \in 1..Len(f)
  BY <1>6, <1>7 DEF BeginsWith
<1>9. PICK k \in 1..Len(H) : \E j \in 1..Len(H[k]) : i = Len(Upto(H, k - 1)) + j
  BY <1>1, <1>4, <1>8, PieceOfIndex
<1>10. PICK j \in 1..Len(H[k]) : i = Len(Upto(H, k - 1)) + j
  BY <1>9
<1>11. i <= Len(found)
  BY <1>7
<1>12. found[i] = H[k][j] /\ k < start
  BY <1>10, <1>11, ShownMatches
<1> QED BY <1>10, <1>12 DEF IsHit

(* The order of the matches is that of the paragraphs, and of the places in *)
(* them.                                                                    *)
LEMMA MatchesInOrder ==
    ASSUME NEW H, HitsAre(H), NEW k \in 1..Len(H), NEW j \in 1..Len(H[k]),
           NEW m \in 1..Len(H), NEW l \in 1..Len(H[m]),
           Len(Upto(H, k - 1)) + j < Len(Upto(H, m - 1)) + l
    PROVE  k < m \/ (k = m /\ j < l)
<1>1. H \in Seq(Seq(Match))
  BY DEF HitsAre
<1>2. PICK a, b, c : /\ a = Len(Upto(H, k - 1)) + j /\ b = Len(Upto(H, m - 1)) + l
                     /\ c = Len(Upto(H, m))
  OBVIOUS
<1>3. m \in 0..Len(H) /\ m - 1 \in 0..Len(H) /\ k - 1 \in 0..Len(H) /\ m <= m
  BY <1>1
<1>4. b <= c
  BY <1>1, <1>2, <1>3, PieceReached
<1>5. Built(H, Match)
  BY <1>1, UptoSteps
<1>6. Upto(H, m) \in Seq(Match) /\ Upto(H, m - 1) \in Seq(Match) /\ Upto(H, k - 1) \in Seq(Match)
  BY <1>3, <1>5 DEF Built
<1>7. PICK p, q, r : p = Upto(H, m - 1) /\ q = Upto(H, k - 1) /\ r = Upto(H, m)
  OBVIOUS
<1>8. Len(p) \in Nat /\ Len(q) \in Nat /\ Len(r) \in Nat
  BY <1>6, <1>7
<1>9. a \in Nat /\ b \in Nat /\ c \in Nat
  BY <1>2, <1>7, <1>8
<1>10. a <= c
  BY <1>2, <1>4, <1>9
<1>11. k <= m
  BY <1>1, <1>2, <1>3, <1>10, PieceReached
<1>12. CASE k = m
  <2>1. j < l
    BY <1>7, <1>8, <1>12
  <2> QED BY <1>12, <2>1
<1> QED BY <1>11, <1>12

(* The pages a client reads show every match of the paragraphs they reach,  *)
(* once, in order and not overlapping, as find_text lists them, whatever    *)
(* the document, the pattern and the size of the pages (grep_paragraphs,    *)
(* count_matches, _window_slice, _find_literal, _find_regex).               *)
THEOREM PagesLeaveNothingOut == Spec => []PagesShowAll
<1>1. Init => SearchInv
  BY SearchStarts
<1>2. SearchInv /\ [Next]_vars => SearchInv'
  BY SearchHolds
<1>3. SearchInv => PagesShowAll
  <2> SUFFICES ASSUME SearchInv PROVE PagesShowAll
    OBVIOUS
  <2>1. CASE pattern = NoPattern /\ start = 1 /\ found = <<>>
    <3>1. DOMAIN found = {}
      BY <2>1
    <3>2. DOMAIN records \in SUBSET (Nat \ {0})
      <4>1. DOMAIN records = 1..Len(records) /\ records \in Seq(Seq(Seq(STRING)))
        BY RecordsAre DEF SearchInv
      <4> QED BY <4>1
    <3>3. \A k \in DOMAIN records : ~(k < start) /\ Ranges(k) = {}
      BY <2>1, <3>1, <3>2 DEF Ranges
    <3> QED BY <2>1, <3>1, <3>3 DEF PagesShowAll
  <2>2. CASE /\ pattern \in Patterns /\ start \in Nat
             /\ \E n \in Nat : Shown(HitsList, n)
    <3>1. PICK H : H = HitsList
      OBVIOUS
    <3>2. PICK n \in Nat : Shown(H, n)
      BY <2>2, <3>1
    <3>3. HitsAre(H)
      BY <2>2, <3>1, HitsListIs DEF SearchInv
    <3>4. H \in Seq(Seq(Match)) /\ Len(H) = Len(records) /\ DOMAIN records = 1..Len(records)
      BY <3>3 DEF HitsAre
    <3>5. FindText = FlattenSeq(H)
      BY <3>1 DEF FindText, HitsList
    <3>6. FlattenSeq(H) \in Seq(Match) /\ found \in Seq(Match)
      BY <3>2, <3>4, FlattenType, UptoSteps DEF Built, Shown
    <3>7. DOMAIN found = 1..Len(found)
      BY <3>6
    <3>8. ASSUME NEW k \in 1..Len(H)
          PROVE  /\ Plain(records[k]) \in Seq(STRING)
                 /\ Finds(Plain(records[k]), FindAll(Plain(records[k])))
                 /\ Len(H[k]) = Len(FindAll(Plain(records[k])))
                 /\ \A j \in 1..Len(H[k]) :
                      H[k][j].para = k /\ H[k][j].range = FindAll(Plain(records[k]))[j]
      <4>1. PICK p : p = Plain(records[k])
        OBVIOUS
      <4>2. /\ p \in Seq(STRING) /\ Len(H[k]) = Len(FindAll(p))
            /\ \A j \in 1..Len(H[k]) : H[k][j] = [para |-> k, range |-> FindAll(p)[j]]
        BY <3>3, <3>4, <4>1 DEF HitsAre
      <4>3. Finds(p, FindAll(p))
        BY <2>2, <4>2, FindAllFinds
      <4>4. ASSUME NEW j \in 1..Len(H[k])
            PROVE  H[k][j].para = k /\ H[k][j].range = FindAll(p)[j]
        <5>1. PICK r : r = FindAll(p)[j]
          OBVIOUS
        <5>2. H[k][j] = [para |-> k, range |-> r]
          BY <4>2, <5>1
        <5> QED BY <5>1, <5>2
      <4> QED BY <4>1, <4>2, <4>3, <4>4
    <3>9. ASSUME NEW i \in DOMAIN found, NEW j \in DOMAIN found, i < j
          PROVE  \/ found[i].para < found[j].para
                 \/ /\ found[i].para = found[j].para /\ found[i].range # found[j].range
                    /\ found[i].range.end <= found[j].range.start
      <4>1. PICK k, a : IsHit(H, i, k, a)
        BY <2>2, <3>2, <3>3, <3>7, ShownFrom
      <4>2. /\ k \in 1..Len(H) /\ a \in 1..Len(H[k]) /\ found[i] = H[k][a]
            /\ i = Len(Upto(H, k - 1)) + a
        BY <4>1 DEF IsHit
      <4>3. PICK m, b : IsHit(H, j, m, b)
        BY <2>2, <3>2, <3>3, <3>7, ShownFrom
      <4>4. /\ m \in 1..Len(H) /\ b \in 1..Len(H[m]) /\ found[j] = H[m][b]
            /\ j = Len(Upto(H, m - 1)) + b
        BY <4>3 DEF IsHit
      <4>5. k < m \/ (k = m /\ a < b)
        BY <3>3, <3>9, <4>2, <4>4, MatchesInOrder
      <4>6. found[i].para = k /\ found[j].para = m
        BY <3>8, <4>2, <4>4
      <4>7. CASE k = m /\ a < b
        <5>1. PICK rs : rs = FindAll(Plain(records[k]))
          OBVIOUS
        <5>2. Tidy(rs) /\ a \in 1..Len(rs) /\ b \in 1..Len(rs)
          BY <3>8, <4>2, <4>4, <4>7, <5>1 DEF Finds
        <5>3. rs[a].start < rs[b].start /\ rs[a].end <= rs[b].start
          BY <4>7, <5>2 DEF Tidy
        <5>4. found[i].range = rs[a] /\ found[j].range = rs[b]
          BY <3>8, <4>2, <4>4, <4>7, <5>1
        <5>5. rs[a].start \in Nat
          <6>1. PICK R : R = [start : Nat, end : Nat]
            OBVIOUS
          <6>2. rs \in Seq(R)
            BY <5>2, <6>1 DEF Tidy
          <6>3. rs[a] \in R
            BY <5>2, <6>2
          <6> QED BY <6>1, <6>3
        <5>6. rs[a] # rs[b]
          BY <5>3, <5>5
        <5> QED BY <4>6, <4>7, <5>3, <5>4, <5>6
      <4> QED BY <4>5, <4>6, <4>7
    <3>10. ASSUME NEW k \in DOMAIN records, k < start
           PROVE  Complete(Plain(records[k]), Ranges(k))
      <4>1. k \in 1..Len(H)
        BY <3>4
      <4>2. PICK rs : rs = FindAll(Plain(records[k]))
        OBVIOUS
      <4>3. Complete(Plain(records[k]), Ranged(rs)) /\ Len(H[k]) = Len(rs)
        BY <3>8, <4>1, <4>2 DEF Finds
      <4>4. ASSUME NEW j \in 1..Len(rs) PROVE rs[j] \in Ranges(k)
        <5>1. PICK i : i = Len(Upto(H, k - 1)) + j
          OBVIOUS
        <5>2. j \in 1..Len(H[k])
          BY <4>3
        <5>3. i \in 1..Len(found) /\ found[i] = H[k][j]
          BY <2>2, <3>2, <3>3, <3>10, <4>1, <5>1, <5>2, ShownMatches
        <5>4. found[i].para = k /\ found[i].range = rs[j]
          BY <3>8, <4>1, <4>2, <5>2, <5>3
        <5> QED BY <3>7, <5>3, <5>4 DEF Ranges
      <4>5. ASSUME NEW r \in Ranges(k) PROVE r \in Ranged(rs)
        <5>1. PICK i \in DOMAIN found : found[i].para = k /\ r = found[i].range
          BY DEF Ranges
        <5>2. PICK m, b : IsHit(H, i, m, b)
          BY <2>2, <3>2, <3>3, <3>7, <5>1, ShownFrom
        <5>3. m \in 1..Len(H) /\ b \in 1..Len(H[m]) /\ found[i] = H[m][b]
          BY <5>2 DEF IsHit
        <5>4. m = k /\ r = rs[b]
          BY <3>8, <4>2, <5>1, <5>3
        <5> QED BY <4>3, <5>3, <5>4 DEF Ranged
      <4>6. Ranges(k) = Ranged(rs)
        BY <4>4, <4>5 DEF Ranged
      <4> QED BY <4>3, <4>6
    <3>11. ASSUME NEW k \in DOMAIN records, ~(k < start)
           PROVE  Ranges(k) = {}
      <4>1. ASSUME NEW i \in DOMAIN found, found[i].para = k PROVE FALSE
        <5>1. PICK m, b : IsHit(H, i, m, b)
          BY <2>2, <3>2, <3>3, <3>7, <4>1, ShownFrom
        <5>2. m \in 1..Len(H) /\ b \in 1..Len(H[m]) /\ found[i] = H[m][b] /\ m < start
          BY <5>1 DEF IsHit
        <5>3. m = k
          BY <3>8, <4>1, <5>2
        <5> QED BY <3>11, <5>2, <5>3
      <4> QED BY <4>1 DEF Ranges
    <3>12. IsPrefix(found, FindText)
      <4>1. BeginsWith(FlattenSeq(H), found)
        <5>1. n \in 0..Len(H) /\ found = Upto(H, n)
          BY <3>2 DEF Shown
        <5>2. FlattenSeq(H) = Upto(H, Len(H)) /\ Len(H) \in n..Len(H)
          <6>1. Built(H, Match)
            BY <3>4, UptoSteps
          <6>2. FlattenSeq(H) = Upto(H, Len(H))
            BY <6>1 DEF Built
          <6>3. Len(H) \in n..Len(H)
            BY <3>4, <5>1
          <6> QED BY <6>2, <6>3
        <5> QED BY <3>4, <5>1, <5>2, UptoGrows
      <4>2. PICK f : f = FlattenSeq(H)
        OBVIOUS
      <4>3. f \in Seq(Match) /\ Len(found) <= Len(f) /\ \A i \in 1..Len(found) : f[i] = found[i]
        BY <3>6, <4>1, <4>2 DEF BeginsWith
      <4>4. SubSeq(f, 1, Len(found)) = SubSeq(found, 1, Len(found))
        BY <3>6, <4>3
      <4> QED BY <3>5, <4>2, <4>3, <4>4 DEF IsPrefix
    <3>13. ASSUME NEW i \in DOMAIN FindText
           PROVE  i <= Len(found) <=> FindText[i].para < start
      <4>1. i \in 1..Len(FlattenSeq(H))
        BY <3>5, <3>6
      <4>2. PICK m \in 1..Len(H) : \E b \in 1..Len(H[m]) :
                   i = Len(Upto(H, m - 1)) + b /\ FlattenSeq(H)[i] = H[m][b]
        BY <3>4, <4>1, PieceOfIndex
      <4>3. PICK b \in 1..Len(H[m]) :
                   i = Len(Upto(H, m - 1)) + b /\ FlattenSeq(H)[i] = H[m][b]
        BY <4>2
      <4>4. i <= Len(found) <=> m < start
        BY <2>2, <3>2, <3>3, <4>3, ShownMatches
      <4>5. FindText[i].para = m
        BY <3>5, <3>8, <4>3
      <4> QED BY <4>4, <4>5
    <3> QED BY <3>9, <3>10, <3>11, <3>12, <3>13 DEF PagesShowAll
  <2> QED BY <2>1, <2>2 DEF SearchInv
<1> QED BY <1>1, <1>2, <1>3, PTL DEF Spec
-----------------------------------------------------------------------------
(* The nodes. *)

(* The nodes with text, as places in the paragraph. *)
Texts(para) == {j \in 1..Len(para) : para[j] # <<>>}

(* How many nodes with text there are before a node, and before the next. *)
LEMMA NumberGrows ==
    ASSUME NEW C, NEW para \in Seq(Seq(C)), NEW k \in 1..Len(para)
    PROVE  /\ Number(para, k) \in Nat
           /\ para[k] = <<>> => Number(para, k + 1) = Number(para, k)
           /\ para[k] # <<>> => Number(para, k + 1) = Number(para, k) + 1
<1>1. PICK A, B : /\ A = {j \in 1..(k - 1) : para[j] # <<>>}
                  /\ B = {j \in 1..((k + 1) - 1) : para[j] # <<>>}
  OBVIOUS
<1>2. PICK n \in Nat : n = k - 1
  OBVIOUS
<1>3. IsFiniteSet(1..n)
  BY FS_Interval
<1>4. A \in SUBSET (1..n)
  BY <1>1, <1>2
<1>5. IsFiniteSet(A) /\ Cardinality(A) \in Nat
  BY <1>3, <1>4, FS_Subset, FS_CardinalityType
<1>6. (k + 1) - 1 = k /\ k \notin A
  BY <1>2, <1>4
<1>7. ASSUME para[k] = <<>> PROVE B = A
  <2>1. ASSUME NEW j \in B PROVE j \in A
    <3>1. j \in 1..k /\ para[j] # <<>>
      BY <1>1, <1>6
    <3>2. j # k
      BY <1>7, <3>1
    <3> QED BY <1>1, <3>1, <3>2
  <2>2. ASSUME NEW j \in A PROVE j \in B
    BY <1>1, <1>6
  <2> QED BY <2>1, <2>2
<1>8. ASSUME para[k] # <<>> PROVE B = A \cup {k}
  <2>1. ASSUME NEW j \in B PROVE j \in A \cup {k}
    BY <1>1, <1>6
  <2>2. ASSUME NEW j \in A \cup {k} PROVE j \in B
    BY <1>1, <1>6, <1>8
  <2> QED BY <2>1, <2>2
<1>9. Number(para, k) = Cardinality(A) /\ Number(para, k + 1) = Cardinality(B)
  BY <1>1 DEF Number
<1>10. Cardinality(A \cup {k}) = Cardinality(A) + 1
  BY <1>5, <1>6, FS_AddElement
<1> QED BY <1>5, <1>7, <1>8, <1>9, <1>10

(* Two nodes with text do not have the same number. *)
LEMMA NumbersDiffer ==
    ASSUME NEW C, NEW para \in Seq(Seq(C)), NEW k \in 1..Len(para), NEW m \in 1..Len(para),
           para[k] # <<>>, para[m] # <<>>, Number(para, k) = Number(para, m)
    PROVE  k = m
<1>1. PICK n \in Nat : n = Len(para)
  OBVIOUS
<1>2. PICK S : S = Texts(para)
  OBVIOUS
<1>3. S \in SUBSET (1..n) /\ k \in S /\ m \in S
  BY <1>1, <1>2 DEF Texts
<1>4. ASSUME NEW i \in 1..n PROVE Number(para, i) = Cardinality({d \in S : d < i})
  <2>1. PICK A, B : A = {j \in 1..(i - 1) : para[j] # <<>>} /\ B = {d \in S : d < i}
    OBVIOUS
  <2>2. ASSUME NEW j \in A PROVE j \in B
    BY <1>1, <1>2, <2>1 DEF Texts
  <2>3. ASSUME NEW j \in B PROVE j \in A
    BY <1>1, <1>2, <2>1 DEF Texts
  <2>4. A = B
    BY <2>2, <2>3
  <2> QED BY <2>1, <2>4 DEF Number
<1>5. ~(k < m)
  <2>1. /\ Cardinality({d \in S : d < k}) \in Nat
        /\ k < m => Cardinality({d \in S : d < k}) < Cardinality({d \in S : d < m})
    BY <1>3, CountGrows
  <2> QED BY <1>1, <1>4, <2>1
<1>6. ~(m < k)
  <2>1. /\ Cardinality({d \in S : d < m}) \in Nat
        /\ m < k => Cardinality({d \in S : d < m}) < Cardinality({d \in S : d < k})
    BY <1>3, CountGrows
  <2> QED BY <1>1, <1>4, <2>1
<1> QED BY <1>5, <1>6

(* Of nodes with text, each character's, as Ordinals has it. *)
Pieces(nodes) == [k \in 1..Len(nodes) |-> [j \in 1..Len(nodes[k]) |-> k - 1]]

LEMMA PiecesAre ==
    ASSUME NEW C, NEW nodes \in Seq(Seq(C))
    PROVE  Pieces(nodes) \in Seq(Seq(Nat)) /\ Len(Pieces(nodes)) = Len(nodes)
<1>0. PICK P : P = Seq(Nat)
  OBVIOUS
<1>1. PICK n \in Nat : n = Len(nodes)
  OBVIOUS
<1>2. ASSUME NEW k \in 1..n PROVE [j \in 1..Len(nodes[k]) |-> k - 1] \in P
  <2>1. nodes[k] \in Seq(C)
    BY <1>1
  <2>2. PICK m \in Nat : m = Len(nodes[k])
    BY <2>1
  <2>3. [j \in 1..m |-> k - 1] \in [1..m -> Nat]
    OBVIOUS
  <2> QED BY <1>0, <2>2, <2>3
<1>3. Pieces(nodes) \in [1..n -> P]
  BY <1>1, <1>2 DEF Pieces
<1> QED BY <1>0, <1>1, <1>3

(* One more node. *)
LEMMA OnePieceMore ==
    ASSUME NEW C, NEW nodes \in Seq(Seq(C)), NEW x \in Seq(C)
    PROVE  FlattenSeq(Pieces(nodes \o <<x>>)) =
             FlattenSeq(Pieces(nodes)) \o [j \in 1..Len(x) |-> Len(nodes)]
<1>1. PICK P : P = Seq(C)
  OBVIOUS
<1>2. PICK n \in Nat : n = Len(nodes)
  OBVIOUS
<1>3. PICK t : t = nodes \o <<x>>
  OBVIOUS
<1>4. t \in Seq(P) /\ Len(t) = n + 1 /\ t[n + 1] = x /\ \A i \in 1..n : t[i] = nodes[i]
  BY <1>1, <1>2, <1>3
<1>5. PICK a, b, c : /\ a = Pieces(nodes) /\ b = Pieces(t)
                     /\ c = [j \in 1..Len(x) |-> n]
  OBVIOUS
<1>6. a \in Seq(Seq(Nat)) /\ b \in Seq(Seq(Nat)) /\ Len(a) = n /\ Len(b) = n + 1
  BY <1>1, <1>2, <1>4, <1>5, PiecesAre
<1>7. c \in Seq(Nat)
  <2>1. PICK m \in Nat : m = Len(x)
    OBVIOUS
  <2>2. c \in [1..m -> Nat]
    BY <1>5, <2>1
  <2> QED BY <2>2
<1>8. b[n + 1] = c
  <2>1. n + 1 \in 1..Len(t) /\ (n + 1) - 1 = n
    <3>1. n + 1 \in 1..(n + 1) /\ (n + 1) - 1 = n
      OBVIOUS
    <3> QED BY <1>4, <3>1
  <2>2. b[n + 1] = [j \in 1..Len(t[n + 1]) |-> (n + 1) - 1]
    BY <1>5, <2>1 DEF Pieces
  <2> QED BY <1>4, <1>5, <2>1, <2>2
<1>9. ASSUME NEW i \in 1..n PROVE b[i] = a[i]
  <2>1. i \in 1..Len(t) /\ i \in 1..Len(nodes)
    BY <1>2, <1>4
  <2>2. b[i] = [j \in 1..Len(t[i]) |-> i - 1] /\ a[i] = [j \in 1..Len(nodes[i]) |-> i - 1]
    BY <1>5, <2>1 DEF Pieces
  <2> QED BY <1>4, <2>2
<1>10. b = Append(a, c)
  <2>1. PICK Q : Q = Seq(Nat)
    OBVIOUS
  <2>2. a \in Seq(Q) /\ b \in Seq(Q) /\ c \in Q
    BY <1>6, <1>7, <2>1
  <2> QED BY <1>6, <1>8, <1>9, <2>2
<1>11. FlattenSeq(b) = FlattenSeq(a) \o c
  BY <1>6, <1>7, <1>10, FlattenMore
<1> QED BY <1>2, <1>3, <1>5, <1>11

(* What two sequences, one behind the other, hold. *)
Joins(u, s, t) ==
    /\ Len(u) = Len(s) + Len(t) /\ \A i \in 1..Len(s) : u[i] = s[i]
    /\ \A i \in 1..Len(t) : u[Len(s) + i] = t[i]

LEMMA JoinIs ==
    ASSUME NEW T, NEW s \in Seq(T), NEW t \in Seq(T), NEW u, u = s \o t
    PROVE  Joins(u, s, t)
BY DEF Joins

(* The nodes with text among the first n have their numbers, each character *)
(* has that of its node.                                                    *)
Numbered(C, para, n, nodes, ord) ==
    /\ nodes \in Seq(Seq(C)) /\ Len(nodes) = Number(para, n + 1)
    /\ ord = FlattenSeq(Pieces(nodes)) /\ Len(ord) = Len(Upto(para, n))
    /\ \A k \in 1..n : \A j \in 1..Len(para[k]) :
          ord[Len(Upto(para, k - 1)) + j] = Number(para, k)

(* An empty node adds nothing. *)
LEMMA EmptyNodeFollows ==
    ASSUME NEW C, NEW para \in Seq(Seq(C)), NEW n \in Nat, n + 1 \in 1..Len(para),
           para[n + 1] = <<>>, NEW nodes, NEW ord, Numbered(C, para, n, nodes, ord)
    PROVE  Numbered(C, para, n + 1, nodes, ord)
<1>1. PICK x : x = para[n + 1]
  OBVIOUS
<1>2. x \in Seq(C) /\ Len(x) = 0 /\ (n + 1) - 1 = n
  <2>1. PICK P : P = Seq(C)
    OBVIOUS
  <2>2. para[n + 1] \in P
    BY <2>1
  <2>3. Len(x) = 0
    BY <1>1
  <2> QED BY <1>1, <2>1, <2>2, <2>3
<1>3. Number(para, (n + 1) + 1) = Number(para, n + 1)
  BY NumberGrows
<1>4. Len(Upto(para, n + 1)) = Len(Upto(para, n))
  <2>1. Built(para, C)
    BY UptoSteps
  <2>2. PICK p, q : p = Upto(para, n) /\ q = Upto(para, n + 1)
    OBVIOUS
  <2>3. n \in 0..Len(para)
    OBVIOUS
  <2>4. p \in Seq(C) /\ q = p \o x
    BY <1>1, <1>2, <2>1, <2>2, <2>3 DEF Built
  <2> QED BY <1>2, <2>2, <2>4
<1>5. ASSUME NEW k \in 1..(n + 1), NEW j \in 1..Len(para[k])
      PROVE  ord[Len(Upto(para, k - 1)) + j] = Number(para, k)
  <2>1. k # n + 1
    BY <1>1, <1>2
  <2>2. k \in 1..n
    BY <2>1
  <2> QED BY <2>2 DEF Numbered
<1> QED BY <1>3, <1>4, <1>5 DEF Numbered

(* A node with text adds its characters. *)
LEMMA FullNodeFollows ==
    ASSUME NEW C, NEW para \in Seq(Seq(C)), NEW n \in Nat, n + 1 \in 1..Len(para),
           para[n + 1] # <<>>, NEW nodes, NEW ord, Numbered(C, para, n, nodes, ord),
           NEW more, more = nodes \o <<para[n + 1]>>,
           NEW os, os = FlattenSeq(Pieces(more))
    PROVE  Numbered(C, para, n + 1, more, os)
<1>1. PICK x, P : x = para[n + 1] /\ P = Seq(C)
  OBVIOUS
<1>2. x \in P /\ para \in Seq(P)
  BY <1>1
<1>3. PICK N \in Nat : N = Len(nodes)
  BY DEF Numbered
<1>4. PICK m \in Nat : m = Len(x)
  BY <1>1, <1>2
<1>5. nodes \in Seq(P) /\ more \in Seq(P) /\ Len(more) = N + 1
  BY <1>1, <1>2, <1>3 DEF Numbered
<1>6. PICK c : c = [j \in 1..m |-> N]
  OBVIOUS
<1>7. c \in Seq(Nat) /\ Len(c) = m
  <2>1. c \in [1..m -> Nat]
    BY <1>6
  <2> QED BY <2>1
<1>8. os = ord \o c
  BY <1>1, <1>2, <1>3, <1>4, <1>5, <1>6, OnePieceMore DEF Numbered
<1>9. ord \in Seq(Nat)
  BY <1>1, <1>5, PiecesAre, FlattenType DEF Numbered
<1>10. PICK L \in Nat : L = Len(ord) /\ L = Len(Upto(para, n))
  BY <1>9 DEF Numbered
<1>11. /\ Len(os) = L + m /\ \A i \in 1..L : os[i] = ord[i]
       /\ \A i \in 1..m : os[L + i] = N
  <2>1. Len(os) = L + m /\ (\A i \in 1..L : os[i] = ord[i]) /\ \A i \in 1..m : os[L + i] = c[i]
    <3>1. Joins(os, ord, c)
      BY <1>7, <1>8, <1>9, JoinIs
    <3> QED BY <1>7, <1>10, <3>1 DEF Joins
  <2>2. ASSUME NEW i \in 1..m PROVE os[L + i] = N
    BY <1>6, <2>1
  <2> QED BY <2>1, <2>2
<1>12. N = Number(para, n + 1) /\ Number(para, (n + 1) + 1) = N + 1
  BY <1>3, NumberGrows DEF Numbered
<1>13. Len(Upto(para, n + 1)) = L + m
  <2>1. Built(para, C)
    BY UptoSteps
  <2>2. PICK p, q : p = Upto(para, n) /\ q = Upto(para, n + 1)
    OBVIOUS
  <2>3. (n + 1) - 1 = n /\ n \in 0..Len(para)
    OBVIOUS
  <2>4. p \in Seq(C) /\ q = p \o x
    BY <1>1, <2>1, <2>2, <2>3 DEF Built
  <2> QED BY <1>1, <1>2, <1>4, <1>10, <2>2, <2>4
<1>14. ASSUME NEW k \in 1..(n + 1), NEW j \in 1..Len(para[k])
       PROVE  os[Len(Upto(para, k - 1)) + j] = Number(para, k)
  <2>1. CASE k = n + 1
    <3>1. (n + 1) - 1 = n /\ j \in 1..m
      BY <1>1, <1>4, <2>1
    <3> QED BY <1>10, <1>11, <1>12, <2>1, <3>1
  <2>2. CASE k # n + 1
    <3>1. k \in 1..n /\ k \in 1..Len(para) /\ n \in 0..Len(para)
      BY <2>2
    <3>2. PICK i : i = Len(Upto(para, k - 1)) + j
      OBVIOUS
    <3>3. i <= Len(Upto(para, n))
      BY <3>1, <3>2, PieceReached
    <3>4. i \in 1..L
      <4>1. Upto(para, k - 1) \in Seq(C)
        <5>1. Built(para, C) /\ k - 1 \in 0..Len(para)
          BY <3>1, UptoSteps
        <5> QED BY <5>1 DEF Built
      <4>2. PICK p : p = Upto(para, k - 1)
        OBVIOUS
      <4>3. Len(p) \in Nat
        BY <4>1, <4>2
      <4>4. PICK b : b = para[k]
        OBVIOUS
      <4>5. b \in Seq(C)
        BY <1>1, <1>2, <3>1, <4>4
      <4>6. j \in Nat /\ 1 <= j
        BY <4>4, <4>5
      <4> QED BY <1>10, <3>2, <3>3, <4>2, <4>3, <4>6
    <3>5. ord[i] = Number(para, k)
      BY <3>1, <3>2 DEF Numbered
    <3> QED BY <1>11, <3>2, <3>4, <3>5
  <2> QED BY <2>1, <2>2
<1> QED BY <1>1, <1>5, <1>10, <1>11, <1>12, <1>13, <1>14 DEF Numbered

(* Each character has the number of its node (visible_char_node_ordinals). *)
LEMMA OrdinalsAre ==
    ASSUME NEW C, NEW para \in Seq(Seq(C))
    PROVE  /\ Len(Ordinals(para)) = Len(Plain(para))
           /\ \A k \in 1..Len(para) : \A j \in 1..Len(para[k]) :
                Ordinals(para)[Len(Upto(para, k - 1)) + j] = Number(para, k)
<1>1. PICK K, P : K = ToSet(para) \ {<<>>} /\ P = Seq(C)
  OBVIOUS
<1>2. PICK N \in Nat : N = Len(para)
  OBVIOUS
<1>3. para \in Seq(P)
  BY <1>1
<1>4. PICK G : G = {n \in 0..N : LET nodes == Those(SubSeq(para, 1, n), K)
                                 IN  Numbered(C, para, n, nodes, FlattenSeq(Pieces(nodes)))}
  OBVIOUS
<1>5. 0 \in G
  <2>1. PICK e : e = Those(SubSeq(para, 1, 0), K)
    OBVIOUS
  <2>2. e = <<>>
    <3>1. SubSeq(para, 1, 0) = <<>>
      BY SubSeqEmpty
    <3> QED BY <2>1, <3>1, ThoseOfNone
  <2>3. e \in Seq(Seq(C)) /\ Len(e) = 0
    BY <2>2
  <2>4. PICK p : p = Pieces(e)
    OBVIOUS
  <2>5. p \in Seq(Seq(Nat)) /\ Len(p) = 0
    BY <2>3, <2>4, PiecesAre
  <2>6. FlattenSeq(p) = p
    BY <2>5, FlattenEmpty
  <2>7. Number(para, 0 + 1) = 0
    <3>1. PICK A : A = {j \in 1..((0 + 1) - 1) : para[j] # <<>>}
      OBVIOUS
    <3>2. (0 + 1) - 1 = 0 /\ 1..0 = {}
      OBVIOUS
    <3>3. A = {}
      BY <3>1, <3>2
    <3> QED BY <3>1, <3>3, FS_EmptySet DEF Number
  <2>8. Len(Upto(para, 0)) = 0
    <3>1. Built(para, C)
      BY UptoSteps
    <3>2. Upto(para, 0) = <<>>
      BY <3>1 DEF Built
    <3> QED BY <3>2
  <2>9. Numbered(C, para, 0, e, FlattenSeq(Pieces(e)))
    BY <2>3, <2>4, <2>5, <2>6, <2>7, <2>8 DEF Numbered
  <2> QED BY <1>2, <1>4, <2>1, <2>9
<1>6. ASSUME NEW n \in 0..(N - 1), n \in G PROVE n + 1 \in G
  <2>1. n \in Nat /\ n + 1 \in 1..Len(para) /\ n + 1 \in 0..N /\ n <= N
    BY <1>2
  <2>2. PICK x, s, t : x = para[n + 1] /\ s = SubSeq(para, 1, n) /\ t = SubSeq(para, 1, n + 1)
    OBVIOUS
  <2>3. x \in P
    BY <1>3, <2>1, <2>2
  <2>4. t = s \o <<x>>
    <3>1. 1 \in 1..Len(para) /\ n + 1 \in 1..Len(para) /\ (n + 1) - 1 = n
      BY <2>1
    <3> QED BY <1>3, <2>2, <3>1, SubSeqRecursiveSecond
  <2>5. s \in Seq(P)
    <3>1. \A i \in 1..n : para[i] \in P
      BY <1>2, <1>3, <2>1
    <3> QED BY <2>1, <2>2, <3>1, SubSeqProperties
  <2>6. PICK o : o = <<x>>
    OBVIOUS
  <2>7. o \in Seq(P)
    BY <2>3, <2>6
  <2>8. PICK nodes, more, one : /\ nodes = Those(s, K) /\ more = Those(t, K)
                                /\ one = Those(o, K)
    OBVIOUS
  <2>9. more = nodes \o one
    <3>1. Those(s \o o, K) = Those(s, K) \o Those(o, K)
      BY <2>5, <2>7, ThoseConcat
    <3>2. t = s \o o
      BY <2>4, <2>6
    <3> QED BY <2>8, <3>1, <3>2
  <2>10. Numbered(C, para, n, nodes, FlattenSeq(Pieces(nodes)))
    BY <1>4, <1>6, <2>2, <2>8
  <2>11. nodes \in Seq(P)
    BY <2>5, <2>8, PicksAre
  <2>12. x \in K <=> x # <<>>
    <3>1. x \in ToSet(para)
      BY <2>1, <2>2 DEF ToSet
    <3> QED BY <1>1, <3>1
  <2>13. CASE x = <<>>
    <3>1. one = <<>>
      BY <2>3, <2>6, <2>8, <2>12, <2>13, ThoseOfOne
    <3>2. more = nodes
      BY <2>9, <2>11, <3>1
    <3>3. Numbered(C, para, n + 1, nodes, FlattenSeq(Pieces(nodes)))
      BY <2>1, <2>2, <2>10, <2>13, EmptyNodeFollows
    <3> QED BY <1>4, <2>1, <2>2, <2>8, <3>2, <3>3
  <2>14. CASE x # <<>>
    <3>1. one = <<x>>
      BY <2>3, <2>6, <2>8, <2>12, <2>14, ThoseOfOne
    <3>2. more = nodes \o <<para[n + 1]>>
      BY <2>2, <2>9, <3>1
    <3>3. Numbered(C, para, n + 1, more, FlattenSeq(Pieces(more)))
      BY <2>1, <2>2, <2>10, <2>14, <3>2, FullNodeFollows
    <3> QED BY <1>4, <2>1, <2>2, <2>8, <3>3
  <2> QED BY <2>13, <2>14
<1>7. N \in G
  BY <1>5, <1>6, UpFromZero
<1>8. SubSeq(para, 1, N) = para
  BY <1>2, <1>3, SubSeqFull
<1>9. PICK nodes : nodes = Those(para, K)
  OBVIOUS
<1>10. Numbered(C, para, N, nodes, FlattenSeq(Pieces(nodes)))
  BY <1>4, <1>7, <1>8, <1>9
<1>11. Ordinals(para) = FlattenSeq(Pieces(nodes))
  BY <1>1, <1>9 DEF Ordinals, Pieces
<1>12. Plain(para) = Upto(para, N)
  BY <1>2, UptoSteps DEF Built, Plain
<1> QED BY <1>2, <1>10, <1>11, <1>12 DEF Numbered

(* The node that a range lies in is the one its characters come from. *)
LEMMA OneNodeHolds ==
    ASSUME NEW C, NEW para \in Seq(Seq(C)), NEW m \in 1..Len(para),
           NEW s \in Nat, NEW e \in Nat, s < e, Holds(para, m, Span(s, e)),
           NEW i \in (s + 1)..e,
           NEW k \in 1..Len(para), NEW j \in 1..Len(para[k]), i = Len(Upto(para, k - 1)) + j
    PROVE  k = m
<1>1. Built(para, C)
  BY UptoSteps
<1>2. PICK p, q, a : p = Upto(para, m - 1) /\ q = Upto(para, m) /\ a = para[m]
  OBVIOUS
<1>3. m - 1 \in 0..Len(para) /\ m \in 0..Len(para)
  OBVIOUS
<1>4. PICK P : P = Seq(C)
  OBVIOUS
<1>5. para \in Seq(P)
  BY <1>4
<1>6. a \in Seq(C)
  BY <1>2, <1>4, <1>5
<1>7. p \in Seq(C) /\ q = p \o a
  BY <1>1, <1>2, <1>3 DEF Built
<1>8. Len(p) \in Nat /\ Len(a) \in Nat /\ Len(q) = Len(p) + Len(a)
  BY <1>6, <1>7
<1>9. Len(p) <= s /\ e <= Len(p) + Len(a)
  BY <1>2 DEF Holds, Before, Span, Upto
<1>10. i \in Nat /\ i <= Len(q) /\ ~(i <= Len(p))
  BY <1>8, <1>9
<1>11. k <= m
  BY <1>2, <1>3, <1>10, PieceReached
<1>12. ~(k <= m - 1)
  BY <1>2, <1>3, <1>10, PieceReached
<1> QED BY <1>11, <1>12

(* The node of a character. *)
NodeOf(para, i, k) ==
    /\ k \in 1..Len(para) /\ para[k] # <<>> /\ Ordinals(para)[i] = Number(para, k)
    /\ Holds(para, k, Span(i - 1, i))
    /\ \E j \in 1..Len(para[k]) : i = Len(Upto(para, k - 1)) + j

LEMMA NodeOfIs ==
    ASSUME NEW C, NEW para \in Seq(Seq(C)), NEW i \in 1..Len(Plain(para))
    PROVE  \E k : NodeOf(para, i, k)
<1>1. PICK k \in 1..Len(para) : \E j \in 1..Len(para[k]) : i = Len(Upto(para, k - 1)) + j
  BY PieceOfIndex DEF Plain
<1>2. PICK j \in 1..Len(para[k]) : i = Len(Upto(para, k - 1)) + j
  BY <1>1
<1>3. Ordinals(para)[i] = Number(para, k)
  BY <1>2, OrdinalsAre
<1>4. PICK p, a, P : p = Upto(para, k - 1) /\ a = para[k] /\ P = Seq(C)
  OBVIOUS
<1>5. para \in Seq(P)
  BY <1>4
<1>6. a \in Seq(C)
  BY <1>4, <1>5
<1>7. p \in Seq(C)
  <2>1. Built(para, C) /\ k - 1 \in 0..Len(para)
    BY UptoSteps
  <2> QED BY <1>4, <2>1 DEF Built
<1>8. i = Len(p) + j /\ Len(p) \in Nat /\ j \in 1..Len(a)
  BY <1>2, <1>4, <1>7
<1>9. para[k] # <<>>
  <2>1. Len(a) # 0
    BY <1>6, <1>8
  <2>2. a # <<>>
    BY <2>1
  <2> QED BY <1>4, <2>2
<1>10. Holds(para, k, Span(i - 1, i))
  <2>1. Len(p) <= i - 1 /\ i <= Len(p) + Len(a)
    BY <1>6, <1>8
  <2> QED BY <1>4, <2>1 DEF Holds, Before, Span, Upto
<1> QED BY <1>2, <1>3, <1>9, <1>10 DEF NodeOf

(* The range of nodes is that of the first character to the last. *)
RangeIsRight(para, range) ==
    LET nodes == NodeRange(para, range)
    IN  /\ \E k \in DOMAIN para : /\ Number(para, k) = nodes.first
                                  /\ Holds(para, k, Span(range.start, range.start + 1))
        /\ \E k \in DOMAIN para : /\ Number(para, k) = nodes.last
                                  /\ Holds(para, k, Span(range.end - 1, range.end))
        /\ nodes.crosses <=> ~\E k \in DOMAIN para : Holds(para, k, range)

LEMMA NodeRangeIs ==
    ASSUME NEW C, NEW para \in Seq(Seq(C)), NEW s \in Nat, NEW e \in Nat, s < e,
           e <= Len(Plain(para)), NEW range, range = Span(s, e)
    PROVE  RangeIsRight(para, range)
<1>1. PICK ord : ord = Ordinals(para)
  OBVIOUS
<1>2. PICK n : n = Len(Plain(para))
  OBVIOUS
<1>3. n \in Nat /\ Len(ord) = n
  <2>1. PICK w : w = Plain(para)
    OBVIOUS
  <2>2. w \in Seq(C)
    BY <2>1, FlattenType DEF Plain
  <2> QED BY <1>1, <1>2, <2>1, <2>2, OrdinalsAre
<1>4. s + 1 \in 1..n /\ e \in 1..n /\ (s + 1) - 1 = s
  BY <1>2, <1>3
<1>5. ord # <<>>
  BY <1>3, <1>4
<1>6. PICK k : NodeOf(para, s + 1, k)
  BY <1>2, <1>4, NodeOfIs
<1>7. PICK m : NodeOf(para, e, m)
  BY <1>2, <1>4, NodeOfIs
<1>8. /\ k \in 1..Len(para) /\ para[k] # <<>> /\ ord[s + 1] = Number(para, k)
      /\ Holds(para, k, Span(s, s + 1))
  BY <1>1, <1>4, <1>6 DEF NodeOf
<1>9. /\ m \in 1..Len(para) /\ para[m] # <<>> /\ ord[e] = Number(para, m)
      /\ Holds(para, m, Span(e - 1, e))
  BY <1>1, <1>7 DEF NodeOf
<1>10. range.start = s /\ range.end = e
  BY DEF Span
<1>11. /\ NodeRange(para, range).first = ord[s + 1] /\ NodeRange(para, range).last = ord[e]
       /\ NodeRange(para, range).crosses <=> ord[s + 1] # ord[e]
  <2>1. s < Len(ord) /\ 0 < e /\ e <= Len(ord)
    BY <1>3, <1>4
  <2>2. NodeRange(para, range) =
           [first |-> ord[s + 1], last |-> ord[e], crosses |-> ord[s + 1] # ord[e]]
    BY <1>1, <1>5, <1>10, <2>1 DEF NodeRange
  <2>3. NodeRange(para, range).first = ord[s + 1] /\ NodeRange(para, range).last = ord[e]
    BY <2>2
  <2>4. NodeRange(para, range).crosses <=> ord[s + 1] # ord[e]
    <3>1. PICK c : c = (ord[s + 1] # ord[e])
      OBVIOUS
    <3>2. NodeRange(para, range) = [first |-> ord[s + 1], last |-> ord[e], crosses |-> c]
      BY <2>2, <3>1
    <3>3. NodeRange(para, range).crosses = c
      BY <3>2
    <3> QED BY <3>1, <3>3
  <2> QED BY <2>3, <2>4
<1>12. DOMAIN para = 1..Len(para)
  OBVIOUS
<1>13. ord[s + 1] = ord[e] <=> k = m
  BY <1>8, <1>9, NumbersDiffer
<1>14. ASSUME k = m PROVE Holds(para, k, range)
  BY <1>8, <1>9, <1>10, <1>14 DEF Holds, Span
<1>15. ASSUME NEW l \in 1..Len(para), Holds(para, l, range) PROVE k = m
  <2>1. s + 1 \in (s + 1)..e /\ e \in (s + 1)..e
    OBVIOUS
  <2>2. Holds(para, l, Span(s, e))
    BY <1>15
  <2>3. k = l
    <3>1. PICK j \in 1..Len(para[k]) : s + 1 = Len(Upto(para, k - 1)) + j
      BY <1>6 DEF NodeOf
    <3> QED BY <1>8, <1>15, <2>1, <2>2, <3>1, OneNodeHolds
  <2>4. m = l
    <3>1. PICK j \in 1..Len(para[m]) : e = Len(Upto(para, m - 1)) + j
      BY <1>7 DEF NodeOf
    <3> QED BY <1>9, <1>15, <2>1, <2>2, <3>1, OneNodeHolds
  <2> QED BY <2>3, <2>4
<1> QED BY <1>8, <1>9, <1>10, <1>11, <1>12, <1>13, <1>14, <1>15 DEF RangeIsRight

(* A match is said to reach from the node of its first character to that of *)
(* its last, and to cross nodes exactly if no node holds all of it, in      *)
(* every document and for every pattern (find_text,                         *)
(* visible_char_node_ordinals).                                             *)
THEOREM MatchesNameTheirNodes == Spec => []NodesAreWhereTheTextIs
<1>1. Init => SearchInv
  BY SearchStarts
<1>2. SearchInv /\ [Next]_vars => SearchInv'
  BY SearchHolds
<1>3. SearchInv => NodesAreWhereTheTextIs
  <2> SUFFICES ASSUME SearchInv, NEW i \in DOMAIN found,
                      found[i].range.start < found[i].range.end
               PROVE  RangeIsRight(records[found[i].para], found[i].range)
    BY DEF NodesAreWhereTheTextIs, RangeIsRight
  <2>1. CASE pattern = NoPattern /\ start = 1 /\ found = <<>>
    BY <2>1
  <2>2. CASE /\ pattern \in Patterns /\ start \in Nat
             /\ \E n \in Nat : Shown(HitsList, n)
    <3>1. PICK H : H = HitsList
      OBVIOUS
    <3>2. PICK n \in Nat : Shown(H, n)
      BY <2>2, <3>1
    <3>3. HitsAre(H)
      BY <2>2, <3>1, HitsListIs DEF SearchInv
    <3>4. H \in Seq(Seq(Match)) /\ Len(H) = Len(records)
      BY <3>3 DEF HitsAre
    <3>5. found \in Seq(Match)
      BY <3>2, <3>4, UptoSteps DEF Built, Shown
    <3>6. i \in 1..Len(found)
      BY <3>5
    <3>7. PICK k, j : IsHit(H, i, k, j)
      BY <2>2, <3>2, <3>3, <3>6, ShownFrom
    <3>8. k \in 1..Len(records) /\ j \in 1..Len(H[k]) /\ found[i] = H[k][j]
      BY <3>4, <3>7 DEF IsHit
    <3>9. PICK w, rs : w = Plain(records[k]) /\ rs = FindAll(w)
      OBVIOUS
    <3>10. w \in Seq(STRING) /\ Len(H[k]) = Len(rs) /\ H[k][j] = [para |-> k, range |-> rs[j]]
      BY <3>3, <3>8, <3>9 DEF HitsAre
    <3>11. Finds(w, rs)
      BY <2>2, <3>9, <3>10, FindAllFinds
    <3>12. PICK r : r = rs[j]
      OBVIOUS
    <3>13. r \in Ranged(rs) /\ r.end <= Len(w)
      BY <3>8, <3>10, <3>11, <3>12 DEF Finds, Ranged
    <3>14. r \in [start : Nat, end : Nat]
      <4>1. PICK R : R = [start : Nat, end : Nat]
        OBVIOUS
      <4>2. rs \in Seq(R)
        BY <3>11, <4>1 DEF Finds, Tidy
      <4>3. j \in 1..Len(rs)
        BY <3>8, <3>10
      <4>4. rs[j] \in R
        BY <4>2, <4>3
      <4> QED BY <3>12, <4>1, <4>4
    <3>15. r = Span(r.start, r.end)
      BY <3>14 DEF Span
    <3>16. found[i].para = k /\ found[i].range = r
      BY <3>8, <3>10, <3>12
    <3>17. PICK para : para = records[k]
      OBVIOUS
    <3>18. para \in Seq(Seq(STRING))
      <4>1. PICK S : S = Seq(Seq(STRING))
        OBVIOUS
      <4>2. records \in Seq(S)
        BY <4>1, RecordsAre DEF SearchInv
      <4> QED BY <3>8, <3>17, <4>1, <4>2
    <3>19. r.start \in Nat /\ r.end \in Nat /\ r.start < r.end
      BY <3>14, <3>16
    <3>20. RangeIsRight(para, r)
      BY <3>9, <3>13, <3>15, <3>17, <3>18, <3>19, NodeRangeIs
    <3> QED BY <3>16, <3>17, <3>20
  <2> QED BY <2>1, <2>2 DEF SearchInv
<1> QED BY <1>1, <1>2, <1>3, PTL DEF Spec
=============================================================================
