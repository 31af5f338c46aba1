--------------------------- MODULE OutlineProofs ---------------------------
(***************************************************************************)
(* What holds of the sections of every document, and of every write:       *)
(* list_sections and get_section of document.py, insert_para_before,       *)
(* insert_para_after and copy_paragraphs_from.  All of it rests on one     *)
(* invariant, IsDoc: an ID is given to one paragraph, and the next ID to   *)
(* none.  Sections are described by positions: a paragraph lies in the     *)
(* section of a heading before it if every heading from there to the       *)
(* paragraph is deeper (Deeper, Above); a write is described by the pieces *)
(* it puts together (Pieces).                                              *)
(***************************************************************************)
EXTENDS Outline, WellFoundedInduction, SequenceTheorems, TLAPS

(* A set of numbers that is not empty has a smallest, and one of positions  *)
(* has a largest.                                                           *)
LEMMA SmallestExists ==
    ASSUME NEW S \in SUBSET Nat, S # {}
    PROVE  \E x \in S : \A y \in S : x <= y
<1>1. PICK R : R = OpToRel(<, Nat)
  OBVIOUS
<1>2. IsWellFoundedOn(R, Nat)
  BY <1>1, NatLessThanWellFounded
<1>3. \E x \in S : \A y \in S : ~(<<y, x>> \in R)
  BY <1>2, WFMin
<1>4. \A x, y \in Nat : x < y => <<x, y>> \in R
  BY <1>1 DEF OpToRel
<1>5. PICK x \in S : \A y \in S : ~(<<y, x>> \in R)
  BY <1>3
<1>6. ASSUME NEW y \in S PROVE x <= y
  <2>1. ~(y < x)
    BY <1>4, <1>5
  <2> QED BY <2>1
<1> QED BY <1>5, <1>6

(* Min of a set of numbers is in it, and nothing in it is smaller. *)
LEMMA MinIs ==
    ASSUME NEW S \in SUBSET Nat, S # {}
    PROVE  Min(S) \in S /\ \A y \in S : Min(S) <= y
  BY SmallestExists DEF Min

(* So is Max of a set of numbers up to n, and nothing in it is larger. *)
LEMMA MaxIs ==
    ASSUME NEW n \in Nat, NEW S \in SUBSET (0..n), S # {}
    PROVE  Max(S) \in S /\ \A y \in S : y <= Max(S)
<1>1. PICK T : T = {n - k : k \in S}
  OBVIOUS
<1>2. T \in SUBSET Nat /\ T # {}
  <2>1. ASSUME NEW k \in S PROVE n - k \in Nat
    BY <2>1
  <2> QED BY <1>1, <2>1
<1>3. PICK t \in T : \A y \in T : t <= y
  BY <1>2, SmallestExists
<1>4. PICK x \in S : t = n - x
  BY <1>1, <1>3
<1>5. ASSUME NEW y \in S PROVE y <= x
  <2>1. n - y \in T
    BY <1>1
  <2>2. n - x <= n - y
    BY <1>3, <1>4, <2>1
  <2> QED BY <2>2
<1>6. \E z \in S : \A y \in S : z >= y
  BY <1>4, <1>5
<1>7. Max(S) \in S /\ \A y \in S : Max(S) >= y
  BY <1>6 DEF Max
<1> QED BY <1>7
-----------------------------------------------------------------------------
(* What a document is: its paragraphs, with one ID each, all of them given  *)
(* out.                                                                     *)
Level == {NotHeading} \cup Nat

Para == [id : Nat, level : Level, place : STRING]

OneIdEach(d) == \A j, k \in DOMAIN d : d[j].id = d[k].id => j = k

IsDoc(d, n) ==
    /\ d \in Seq(Para)
    /\ OneIdEach(d)
    /\ n \in Nat /\ \A k \in DOMAIN d : d[k].id < n

(* The types of what a document holds. *)
LEMMA DocFacts ==
    ASSUME NEW d \in Seq(Para)
    PROVE  /\ Len(d) \in Nat /\ DOMAIN d = 1..Len(d)
           /\ \A k \in 1..Len(d) : d[k] \in Para /\ d[k].id \in Nat /\ d[k].level \in Int
           /\ \A h \in Headings(d) : h \in 1..Len(d) /\ d[h].level \in Nat
<1>1. Len(d) \in Nat /\ DOMAIN d = 1..Len(d)
  OBVIOUS
<1>2. \A k \in 1..Len(d) : d[k] \in Para
  BY <1>1
<1> QED BY <1>1, <1>2 DEF Para, Level, Headings, NotHeading

(* A paragraph behind a heading lies in its section if no heading of its    *)
(* level or a higher one comes between.                                     *)
Deeper(d, h, k) ==
    \A j \in Headings(d) : h < j /\ j <= k => d[h].level < d[j].level

(* EndOfSection is the last paragraph that lies in the section. *)
LEMMA EndIs ==
    ASSUME NEW d \in Seq(Para), NEW h \in Headings(d), NEW e, e = EndOfSection(d, h)
    PROVE  /\ e \in h..Len(d)
           /\ \A k \in 1..Len(d) : h < k => (k <= e <=> Deeper(d, h, k))
<1>1. /\ Len(d) \in Nat /\ h \in 1..Len(d)
      /\ \A j \in Headings(d) : j \in 1..Len(d) /\ d[j].level \in Nat
  BY DocFacts
<1>2. PICK after : after = {j \in Headings(d) : j > h /\ d[j].level <= d[h].level}
  OBVIOUS
<1>3. e = IF after = {} THEN Len(d) ELSE Min(after) - 1
  BY <1>2 DEF EndOfSection
<1>4. CASE after = {}
  <2>1. ASSUME NEW k \in 1..Len(d) PROVE Deeper(d, h, k)
    <3>1. SUFFICES ASSUME NEW j \in Headings(d), h < j PROVE d[h].level < d[j].level
      BY DEF Deeper
    <3>2. ~(d[j].level <= d[h].level)
      BY <1>2, <1>4, <3>1
    <3>3. d[j].level \in Nat /\ d[h].level \in Nat
      BY <1>1
    <3> QED BY <3>2, <3>3
  <2> QED BY <1>1, <1>3, <1>4, <2>1
<1>5. CASE after # {}
  <2>1. after \in SUBSET Nat
    <3>1. ASSUME NEW j \in after PROVE j \in Nat
      BY <1>1, <1>2
    <3> QED BY <3>1
  <2>2. PICK m : m = Min(after)
    OBVIOUS
  <2>3. m \in after /\ \A j \in after : m <= j
    BY <1>5, <2>1, <2>2, MinIs
  <2>4. /\ m \in Headings(d) /\ m \in 1..Len(d) /\ h < m
        /\ d[m].level <= d[h].level /\ d[m].level \in Nat /\ d[h].level \in Nat
    BY <1>1, <1>2, <2>3
  <2>5. e = m - 1
    BY <1>3, <1>5, <2>2
  <2>6. ASSUME NEW k \in 1..Len(d), h < k, k <= e PROVE Deeper(d, h, k)
    <3>1. SUFFICES ASSUME NEW j \in Headings(d), h < j, j <= k, ~(d[h].level < d[j].level)
                   PROVE  FALSE
      BY DEF Deeper
    <3>2. j \in after
      BY <1>1, <1>2, <3>1
    <3> QED BY <1>1, <2>3, <2>4, <2>5, <2>6, <3>1, <3>2
  <2>7. ASSUME NEW k \in 1..Len(d), h < k, Deeper(d, h, k) PROVE k <= e
    <3>1. m <= k => d[h].level < d[m].level
      BY <2>4, <2>7 DEF Deeper
    <3> QED BY <1>1, <2>4, <2>5, <3>1
  <2> QED BY <1>1, <2>4, <2>5, <2>6, <2>7
<1> QED BY <1>4, <1>5

(* A section, by positions: its heading is at h, its last paragraph at e.   *)
SectionAt(d, s, h, e) ==
    /\ s.heading = d[h].id /\ s.level = d[h].level
    /\ Len(s.body) = e - h /\ DOMAIN s.body = 1..(e - h)
    /\ \A k \in 1..(e - h) : s.body[k] = d[h + k].id
    /\ ToSet(s.body) = {d[k].id : k \in (h + 1)..e}
    /\ AllIds(s) = [k \in 1..(e - h + 1) |-> d[h + k - 1].id]
    /\ ToSet(AllIds(s)) = {d[k].id : k \in h..e}

(* What list_sections has of a heading, by positions. *)
LEMMA SectionIs ==
    ASSUME NEW d \in Seq(Para), NEW h \in Headings(d), NEW e, e = EndOfSection(d, h),
           NEW s, s = Section(d, h)
    PROVE  SectionAt(d, s, h, e)
<1>1. Len(d) \in Nat /\ h \in 1..Len(d) /\ e \in h..Len(d)
  BY DocFacts, EndIs
<1>2. PICK b : b = [k \in 1..(e - h) |-> d[h + k].id]
  OBVIOUS
<1>3. s = [heading |-> d[h].id, level |-> d[h].level, body |-> b]
  BY <1>2 DEF Section
<1>4. s.heading = d[h].id /\ s.level = d[h].level /\ s.body = b
  BY <1>3
<1>5. Len(b) = e - h /\ DOMAIN b = 1..(e - h) /\ \A k \in 1..(e - h) : b[k] = d[h + k].id
  BY <1>1, <1>2
<1>6. b \in Seq(Nat)
  <2>1. \A k \in 1..(e - h) : d[h + k].id \in Nat
    <3> SUFFICES ASSUME NEW k \in 1..(e - h) PROVE d[h + k].id \in Nat
      OBVIOUS
    <3>1. h + k \in 1..Len(d)
      BY <1>1
    <3> QED BY <3>1, DocFacts
  <2>2. b \in [1..(e - h) -> Nat] /\ e - h \in Nat
    BY <1>1, <1>2, <2>1
  <2> QED BY <2>2
<1>7. ToSet(b) = {d[k].id : k \in (h + 1)..e}
  <2>1. ToSet(b) = {d[h + k].id : k \in 1..(e - h)}
    BY <1>5 DEF ToSet
  <2>2. ASSUME NEW k \in (h + 1)..e PROVE k - h \in 1..(e - h) /\ k = h + (k - h)
    BY <1>1
  <2>3. ASSUME NEW k \in 1..(e - h) PROVE h + k \in (h + 1)..e
    BY <1>1
  <2> QED BY <2>1, <2>2, <2>3
<1>8. PICK a : a = <<d[h].id>> \o b
  OBVIOUS
<1>9. AllIds(s) = a
  BY <1>4, <1>8 DEF AllIds
<1>10. Len(a) = e - h + 1 /\ DOMAIN a = 1..(e - h + 1)
       /\ \A k \in 1..(e - h + 1) : a[k] = d[h + k - 1].id
  <2>1. d[h].id \in Nat
    BY <1>1, DocFacts
  <2>2. Len(a) = e - h + 1 /\ a \in Seq(Nat)
    BY <1>1, <1>5, <1>6, <1>8, <2>1
  <2>3. ASSUME NEW k \in 1..(e - h + 1) PROVE a[k] = d[h + k - 1].id
    <3>1. CASE k = 1
      BY <1>1, <1>6, <1>8, <2>1, <3>1
    <3>2. CASE k # 1
      <4>1. k - 1 \in 1..(e - h) /\ h + (k - 1) = h + k - 1
        BY <1>1, <3>2
      <4>2. a[k] = b[k - 1]
        BY <1>1, <1>5, <1>6, <1>8, <2>1, <3>2
      <4> QED BY <1>5, <4>1, <4>2
    <3> QED BY <3>1, <3>2
  <2> QED BY <1>1, <2>2, <2>3
<1>11. a = [k \in 1..(e - h + 1) |-> d[h + k - 1].id]
  <2>1. a \in Seq(Nat)
    <3>1. d[h].id \in Nat
      BY <1>1, DocFacts
    <3> QED BY <1>6, <1>8, <3>1
  <2> QED BY <1>10, <2>1
<1>12. ToSet(a) = {d[k].id : k \in h..e}
  <2>1. ToSet(a) = {d[h + k - 1].id : k \in 1..(e - h + 1)}
    BY <1>10 DEF ToSet
  <2>2. ASSUME NEW k \in h..e PROVE k - h + 1 \in 1..(e - h + 1) /\ k = h + (k - h + 1) - 1
    BY <1>1
  <2>3. ASSUME NEW k \in 1..(e - h + 1) PROVE h + k - 1 \in h..e
    BY <1>1
  <2> QED BY <2>1, <2>2, <2>3
<1> QED BY <1>4, <1>5, <1>7, <1>9, <1>11, <1>12 DEF SectionAt
-----------------------------------------------------------------------------
(* Sections nest. *)

(* Of two headings with a paragraph in common the later one is inside the   *)
(* section of the earlier one, to its end.                                  *)
LEMMA LaterIsInner ==
    ASSUME NEW d, NEW n, IsDoc(d, n), NEW h \in Headings(d), NEW g \in Headings(d), h < g,
           NEW s, s = Section(d, h), NEW t, t = Section(d, g),
           ToSet(AllIds(s)) \cap ToSet(AllIds(t)) # {}
    PROVE  /\ ToSet(AllIds(t)) \subseteq ToSet(s.body)
           /\ s.level < t.level
<1>1. /\ d \in Seq(Para) /\ Len(d) \in Nat /\ DOMAIN d = 1..Len(d)
      /\ \A j \in Headings(d) : j \in 1..Len(d) /\ d[j].level \in Nat
  BY DocFacts DEF IsDoc
<1>2. PICK e, f : e = EndOfSection(d, h) /\ f = EndOfSection(d, g)
  OBVIOUS
<1>3. SectionAt(d, s, h, e) /\ SectionAt(d, t, g, f)
  BY <1>1, <1>2, SectionIs
<1>4. /\ e \in h..Len(d) /\ \A k \in 1..Len(d) : h < k => (k <= e <=> Deeper(d, h, k))
      /\ f \in g..Len(d) /\ \A k \in 1..Len(d) : g < k => (k <= f <=> Deeper(d, g, k))
  BY <1>1, <1>2, EndIs
<1>5. PICK j \in h..e, k \in g..f : d[j].id = d[k].id
  <2>1. PICK x : x \in ToSet(AllIds(s)) /\ x \in ToSet(AllIds(t))
    OBVIOUS
  <2>2. ToSet(AllIds(s)) = {d[k].id : k \in h..e}
    BY <1>3 DEF SectionAt
  <2>3. ToSet(AllIds(t)) = {d[k].id : k \in g..f}
    BY <1>3 DEF SectionAt
  <2>4. (\E j \in h..e : x = d[j].id) /\ (\E k \in g..f : x = d[k].id)
    BY <2>1, <2>2, <2>3
  <2> QED BY <2>4
<1>6. j = k
  BY <1>1, <1>4, <1>5 DEF IsDoc, OneIdEach
<1>7. g <= e
  BY <1>1, <1>4, <1>6
<1>8. Deeper(d, h, g) /\ d[h].level < d[g].level
  BY <1>1, <1>4, <1>7 DEF Deeper
<1>9. f <= e
  <2>1. CASE f = g
    BY <1>7, <2>1
  <2>2. CASE g < f
    <3>1. Deeper(d, g, f)
      BY <1>1, <1>4, <2>2
    <3>2. ASSUME NEW i \in Headings(d), h < i, i <= f PROVE d[h].level < d[i].level
      <4>1. CASE i <= g
        BY <1>8, <3>2, <4>1 DEF Deeper
      <4>2. CASE g < i
        <5>1. d[g].level < d[i].level
          BY <3>1, <3>2, <4>2 DEF Deeper
        <5> QED BY <1>1, <1>8, <5>1
      <4> QED BY <1>1, <4>1, <4>2
    <3>3. Deeper(d, h, f)
      BY <3>2 DEF Deeper
    <3> QED BY <1>1, <1>4, <2>2, <3>3
  <2> QED BY <1>1, <1>4, <2>1, <2>2
<1>10. g..f \subseteq (h + 1)..e
  BY <1>1, <1>4, <1>9
<1> QED BY <1>3, <1>8, <1>10 DEF SectionAt

(* The headings of the sections around the paragraph at position k. *)
Above(d, k) == {j \in Headings(d) : j < k /\ Deeper(d, j, k)}

(* The sections around a paragraph, by positions. *)
LEMMA AroundIs ==
    ASSUME NEW d, NEW n, IsDoc(d, n), NEW k \in 1..Len(d)
    PROVE  Around(d, d[k].id) = {d[j].id : j \in Above(d, k)}
<1>1. /\ d \in Seq(Para) /\ Len(d) \in Nat /\ DOMAIN d = 1..Len(d)
      /\ \A j \in Headings(d) : j \in 1..Len(d) /\ d[j].level \in Nat
  BY DocFacts DEF IsDoc
<1>2. ASSUME NEW h \in Headings(d)
      PROVE  d[k].id \in ToSet(Section(d, h).body) <=> h \in Above(d, k)
  <2>1. PICK e : e = EndOfSection(d, h)
    OBVIOUS
  <2>2. ToSet(Section(d, h).body) = {d[i].id : i \in (h + 1)..e}
    <3>1. PICK s : s = Section(d, h)
      OBVIOUS
    <3>2. SectionAt(d, s, h, e)
      BY <1>1, <2>1, <3>1, SectionIs
    <3> QED BY <3>1, <3>2 DEF SectionAt
  <2>3. /\ h \in 1..Len(d) /\ e \in h..Len(d)
        /\ h < k => (k <= e <=> Deeper(d, h, k))
    BY <1>1, <2>1, EndIs
  <2>4. \A i \in (h + 1)..e : d[i].id = d[k].id => i = k
    BY <1>1, <2>3 DEF IsDoc, OneIdEach
  <2>5. d[k].id \in ToSet(Section(d, h).body) <=> k \in (h + 1)..e
    BY <2>2, <2>4
  <2>6. k \in (h + 1)..e <=> h < k /\ k <= e
    BY <1>1, <2>3
  <2> QED BY <2>3, <2>5, <2>6 DEF Above
<1>3. \A h \in Headings(d) : Section(d, h).heading = d[h].id
  BY DEF Section
<1>4. PICK x : x = d[k].id
  OBVIOUS
<1>5. Around(d, x) =
        {Section(d, h).heading : h \in {j \in Headings(d) : x \in ToSet(Section(d, j).body)}}
  BY DEF Around, ListSections
<1>6. {j \in Headings(d) : x \in ToSet(Section(d, j).body)} = Above(d, k)
  BY <1>2, <1>4 DEF Above
<1> QED BY <1>3, <1>4, <1>5, <1>6 DEF Above

(* In a document with one ID for each paragraph the sections nest. *)
LEMMA Nests ==
    ASSUME IsDoc(doc, next) PROVE OutlineNests
<1>1. /\ doc \in Seq(Para) /\ Len(doc) \in Nat /\ DOMAIN doc = 1..Len(doc)
      /\ \A j \in Headings(doc) : j \in 1..Len(doc) /\ doc[j].level \in Nat
  BY DocFacts DEF IsDoc
<1>2. ASSUME NEW s \in ListSections(doc), NEW t \in ListSections(doc), s # t,
             ToSet(AllIds(s)) \cap ToSet(AllIds(t)) # {}
      PROVE  \E outer \in {s, t} : LET inner == IF outer = s THEN t ELSE s
                                   IN  /\ ToSet(AllIds(inner)) \subseteq ToSet(outer.body)
                                       /\ outer.level < inner.level
  <2>1. PICK h \in Headings(doc), g \in Headings(doc) : s = Section(doc, h) /\ t = Section(doc, g)
    BY DEF ListSections
  <2>2. h < g \/ g < h
    BY <1>1, <1>2, <2>1
  <2>3. CASE h < g
    <3>1. ToSet(AllIds(t)) \subseteq ToSet(s.body) /\ s.level < t.level
      BY <1>2, <2>1, <2>3, LaterIsInner
    <3> QED BY <3>1
  <2>4. CASE g < h
    <3>1. ToSet(AllIds(s)) \subseteq ToSet(t.body) /\ t.level < s.level
      BY <1>2, <2>1, <2>4, LaterIsInner
    <3> QED BY <1>2, <3>1
  <2> QED BY <2>2, <2>3, <2>4
<1>3. ASSUME NEW k \in DOMAIN doc \ Headings(doc), NEW h \in Headings(doc), h < k,
             \A j \in (h + 1)..k : j \notin Headings(doc)
      PROVE  doc[h].id \in Around(doc, doc[k].id)
  <2>1. Deeper(doc, h, k)
    BY <1>1, <1>3 DEF Deeper
  <2>2. h \in Above(doc, k)
    BY <1>3, <2>1 DEF Above
  <2>3. k \in 1..Len(doc)
    BY <1>1
  <2>4. Around(doc, doc[k].id) = {doc[j].id : j \in Above(doc, k)}
    BY <2>3, AroundIs
  <2> QED BY <2>2, <2>4
<1> QED BY <1>2, <1>3 DEF OutlineNests
-----------------------------------------------------------------------------
(* What the writes make of the document. *)

(* The paragraphs up to position p, new ones with the levels, and those     *)
(* from position q on.                                                      *)
Pieces(e, p, q, levels, place) ==
    /\ e \in Seq(Para)
    /\ Len(e) = p + Len(levels) + (Len(doc) + 1 - q)
    /\ \A k \in 1..p : e[k] = doc[k]
    /\ \A k \in 1..Len(levels) :
         e[p + k] = [id |-> next + k - 1, level |-> levels[k], place |-> place]
    /\ \A k \in q..Len(doc) : e[p + Len(levels) + (k + 1 - q)] = doc[k]

(* The sequence a of length m, and then the sequence b of length n. *)
IsConcat(c, a, b, m, n, S) ==
    /\ m \in Nat /\ n \in Nat
    /\ c \in Seq(S) /\ Len(c) = m + n
    /\ \A k \in 1..m : c[k] = a[k]
    /\ \A k \in 1..n : c[m + k] = b[k]

(* What a concatenation holds at each position. *)
LEMMA Concatenated ==
    ASSUME NEW S, NEW a \in Seq(S), NEW b \in Seq(S), NEW c, c = a \o b,
           NEW m, Len(a) = m, NEW n, Len(b) = n
    PROVE  IsConcat(c, a, b, m, n, S)
<1>1. m \in Nat /\ n \in Nat /\ c \in Seq(S) /\ Len(c) = m + n
  <2>1. m \in Nat /\ n \in Nat
    OBVIOUS
  <2>2. c \in Seq(S) /\ Len(c) = Len(a) + Len(b)
    BY ConcatProperties
  <2> QED BY <2>1, <2>2
<1>2. \A k \in 1..(m + n) : c[k] = IF k <= m THEN a[k] ELSE b[k - m]
  BY ConcatProperties
<1>3. ASSUME NEW k \in 1..m PROVE c[k] = a[k]
  BY <1>1, <1>2
<1>4. ASSUME NEW k \in 1..n PROVE c[m + k] = b[k]
  <2>1. m + k \in 1..(m + n) /\ ~(m + k <= m) /\ (m + k) - m = k
    BY <1>1
  <2> QED BY <1>2, <2>1
<1> QED BY <1>1, <1>3, <1>4 DEF IsConcat

(* SubSeq and concatenation put the pieces where they are said to be. *)
LEMMA PiecesAre ==
    ASSUME IsDoc(doc, next), NEW p \in Nat, NEW q \in (p + 1)..(Len(doc) + 1),
           NEW levels \in Seq(Level), NEW place \in STRING,
           NEW e, e = SubSeq(doc, 1, p) \o New(levels, place) \o SubSeq(doc, q, Len(doc))
    PROVE  Pieces(e, p, q, levels, place)
<1>1. /\ doc \in Seq(Para) /\ Len(doc) \in Nat /\ next \in Nat /\ p \in 0..Len(doc)
      /\ \A k \in 1..Len(doc) : doc[k] \in Para
  <2>1. doc \in Seq(Para) /\ next \in Nat
    BY DEF IsDoc
  <2>2. Len(doc) \in Nat /\ \A k \in 1..Len(doc) : doc[k] \in Para
    BY <2>1, DocFacts
  <2> QED BY <2>1, <2>2
<1>2. PICK a, b, c : a = SubSeq(doc, 1, p) /\ b = New(levels, place) /\ c = SubSeq(doc, q, Len(doc))
  OBVIOUS
<1>3. a \in Seq(Para) /\ Len(a) = p /\ \A k \in 1..p : a[k] = doc[k]
  BY <1>1, <1>2
<1>4. PICK l : l = Len(levels)
  OBVIOUS
<1>5. l \in Nat /\ \A k \in 1..l : levels[k] \in Level
  BY <1>4
<1>6. b = [k \in 1..l |-> [id |-> next + k - 1, level |-> levels[k], place |-> place]]
  BY <1>2, <1>4 DEF New
<1>7. \A k \in 1..l : [id |-> next + k - 1, level |-> levels[k], place |-> place] \in Para
  <2> SUFFICES ASSUME NEW k \in 1..l
               PROVE  [id |-> next + k - 1, level |-> levels[k], place |-> place] \in Para
    OBVIOUS
  <2>1. next + k - 1 \in Nat /\ levels[k] \in Level
    BY <1>1, <1>5
  <2> QED BY <2>1 DEF Para
<1>8. b \in Seq(Para) /\ Len(b) = l
  <2>1. b \in [1..l -> Para]
    BY <1>6, <1>7
  <2> QED BY <1>5, <2>1
<1>9. PICK r : r = Len(doc) + 1 - q
  OBVIOUS
<1>10. c \in Seq(Para) /\ Len(c) = r /\ \A k \in 1..r : c[k] = doc[q + k - 1]
  <2>1. q \in 1..(Len(doc) + 1)
    BY <1>1
  <2>2. CASE q <= Len(doc)
    BY <1>1, <1>2, <1>9, <2>1, <2>2
  <2>3. CASE q = Len(doc) + 1
    BY <1>1, <1>2, <1>9, <2>1, <2>3
  <2> QED BY <1>1, <2>1, <2>2, <2>3
<1>11. PICK f : f = a \o b
  OBVIOUS
<1>12. e = f \o c
  BY <1>2, <1>11
<1>13. /\ f \in Seq(Para) /\ Len(f) = p + l
       /\ \A k \in 1..p : f[k] = a[k]
       /\ \A k \in 1..l : f[p + k] = b[k]
  <2>1. IsConcat(f, a, b, p, l, Para)
    BY <1>3, <1>8, <1>11, Concatenated
  <2> QED BY <2>1 DEF IsConcat
<1>14. /\ e \in Seq(Para) /\ Len(e) = (p + l) + r /\ r \in Nat
       /\ \A k \in 1..(p + l) : e[k] = f[k]
       /\ \A k \in 1..r : e[(p + l) + k] = c[k]
  <2>1. PICK n : n = p + l
    OBVIOUS
  <2>2. IsConcat(e, f, c, n, r, Para)
    BY <1>10, <1>12, <1>13, <2>1, Concatenated
  <2> QED BY <2>1, <2>2 DEF IsConcat
<1>15. ASSUME NEW k \in 1..p PROVE e[k] = doc[k]
  <2>1. k \in 1..(p + l)
    BY <1>5
  <2> QED BY <1>3, <1>13, <1>14, <2>1
<1>16. ASSUME NEW k \in 1..l
       PROVE  e[p + k] = [id |-> next + k - 1, level |-> levels[k], place |-> place]
  <2>1. p + k \in 1..(p + l)
    BY <1>5
  <2> QED BY <1>6, <1>13, <1>14, <2>1
<1>17. ASSUME NEW k \in q..Len(doc)
       PROVE  e[p + l + (k + 1 - q)] = doc[k]
  <2>1. k + 1 - q \in 1..r /\ q + (k + 1 - q) - 1 = k
    BY <1>1, <1>9
  <2>2. c[k + 1 - q] = doc[k]
    BY <1>10, <2>1
  <2> QED BY <1>14, <2>1, <2>2
<1> QED BY <1>4, <1>9, <1>14, <1>15, <1>16, <1>17 DEF Pieces

(* Where the paragraph at position k comes from. *)
FromFront(e, p, k) == k \in 1..p /\ k \in 1..Len(doc) /\ e[k] = doc[k]
FromNew(e, p, levels, place, k) ==
    /\ k - p \in 1..Len(levels)
    /\ e[k] = [id |-> next + (k - p) - 1, level |-> levels[k - p], place |-> place]
FromBack(e, p, q, levels, k) ==
    LET i == k - p - Len(levels) - 1 + q
    IN  i \in q..Len(doc) /\ i \in 1..Len(doc) /\ e[k] = doc[i]

(* Each position of the result is in one of the three pieces. *)
LEMMA PieceOf ==
    ASSUME IsDoc(doc, next), NEW p \in Nat, NEW q \in (p + 1)..(Len(doc) + 1),
           NEW levels \in Seq(Level), NEW place \in STRING,
           NEW e, Pieces(e, p, q, levels, place), NEW k \in 1..Len(e)
    PROVE  \/ FromFront(e, p, k)
           \/ FromNew(e, p, levels, place, k)
           \/ FromBack(e, p, q, levels, k)
<1>1. Len(doc) \in Nat /\ next \in Nat
  BY DEF IsDoc
<1>2. PICK l : l = Len(levels)
  OBVIOUS
<1>3. l \in Nat
  BY <1>2
<1>4. k \in 1..(p + l + (Len(doc) + 1 - q))
  BY <1>2 DEF Pieces
<1>5. CASE k <= p
  <2>1. k \in 1..p /\ k \in 1..Len(doc)
    BY <1>1, <1>4, <1>5
  <2>2. e[k] = doc[k]
    BY <2>1 DEF Pieces
  <2> QED BY <2>1, <2>2 DEF FromFront
<1>6. CASE p < k /\ k <= p + l
  <2>1. PICK i : i = k - p
    OBVIOUS
  <2>2. i \in 1..l /\ p + i = k
    BY <1>3, <1>4, <1>6, <2>1
  <2>3. e[p + i] = [id |-> next + i - 1, level |-> levels[i], place |-> place]
    BY <1>2, <2>2 DEF Pieces
  <2> QED BY <1>2, <2>1, <2>2, <2>3 DEF FromNew
<1>7. CASE p + l < k
  <2>1. PICK i : i = k - p - l - 1 + q
    OBVIOUS
  <2>2. i \in q..Len(doc) /\ i \in 1..Len(doc) /\ p + l + (i + 1 - q) = k
    BY <1>1, <1>3, <1>4, <1>7, <2>1
  <2>3. e[p + l + (i + 1 - q)] = doc[i]
    BY <1>2, <2>2 DEF Pieces
  <2> QED BY <1>2, <2>1, <2>2, <2>3 DEF FromBack
<1>8. k <= p \/ (p < k /\ k <= p + l) \/ p + l < k
  BY <1>3, <1>4
<1> QED BY <1>5, <1>6, <1>7, <1>8

(* A document stays one. *)
LEMMA PiecesDoc ==
    ASSUME IsDoc(doc, next), NEW p \in Nat, NEW q \in (p + 1)..(Len(doc) + 1),
           NEW levels \in Seq(Level), NEW place \in STRING,
           NEW e, Pieces(e, p, q, levels, place), NEW m, m = next + Len(levels)
    PROVE  IsDoc(e, m)
<1>1. /\ Len(doc) \in Nat /\ next \in Nat
      /\ \A k \in 1..Len(doc) : doc[k].id \in Nat /\ doc[k].id < next
      /\ \A j, k \in 1..Len(doc) : doc[j].id = doc[k].id => j = k
  <2>1. /\ doc \in Seq(Para) /\ next \in Nat /\ OneIdEach(doc)
        /\ \A k \in DOMAIN doc : doc[k].id < next
    BY DEF IsDoc
  <2>2. Len(doc) \in Nat /\ DOMAIN doc = 1..Len(doc) /\ \A k \in 1..Len(doc) : doc[k].id \in Nat
    BY <2>1, DocFacts
  <2>3. \A j, k \in 1..Len(doc) : doc[j].id = doc[k].id => j = k
    BY <2>1, <2>2 DEF OneIdEach
  <2> QED BY <2>1, <2>2, <2>3
<1>2. PICK l : l = Len(levels)
  OBVIOUS
<1>3. l \in Nat /\ m = next + l /\ m \in Nat
  BY <1>1, <1>2
<1>4. e \in Seq(Para)
  BY DEF Pieces
<1>5. DOMAIN e = 1..Len(e) /\ Len(e) \in Nat /\ \A k \in 1..Len(e) : e[k].id \in Nat
  BY <1>4, DocFacts
<1> DEFINE Ahead(k) == k \in 1..p /\ k \in 1..Len(doc) /\ e[k].id = doc[k].id
           Middle(k, i) == i = k - p /\ i \in 1..l /\ e[k].id = next + i - 1
           Back(k, i) == i = k - p - l - 1 + q /\ i \in q..Len(doc) /\ i \in 1..Len(doc)
                         /\ e[k].id = doc[i].id
<1>6. ASSUME NEW k \in 1..Len(e)
      PROVE  Ahead(k) \/ (\E i : Middle(k, i)) \/ \E i : Back(k, i)
  <2>1. CASE FromFront(e, p, k)
    BY <2>1 DEF FromFront
  <2>2. CASE FromNew(e, p, levels, place, k)
    BY <1>2, <2>2 DEF FromNew
  <2>3. CASE FromBack(e, p, q, levels, k)
    BY <1>2, <2>3 DEF FromBack
  <2> QED BY <2>1, <2>2, <2>3, PieceOf
<1>7. /\ p \in Nat /\ q \in Nat /\ p < q /\ l \in Nat /\ next \in Nat
      /\ \A k \in 1..Len(e) : k \in Int
  BY <1>1, <1>3, <1>5
(* An old paragraph has an old ID, a new one a new ID. *)
<1>8. ASSUME NEW k \in 1..Len(e), Ahead(k) \/ \E i : Back(k, i)
      PROVE  e[k].id \in Nat /\ e[k].id < next
  BY <1>1, <1>8
<1>9. ASSUME NEW k \in 1..Len(e), NEW i, Middle(k, i)
      PROVE  e[k].id \in Nat /\ next <= e[k].id /\ e[k].id < m
  <2>1. i \in Int /\ 1 <= i /\ i <= l
    BY <1>7, <1>9
  <2>2. e[k].id = next + i - 1
    BY <1>9
  <2> QED BY <1>3, <1>7, <2>1, <2>2
<1>10. ASSUME NEW j \in 1..Len(e), NEW k \in 1..Len(e), e[j].id = e[k].id PROVE j = k
  <2>1. j \in Int /\ k \in Int
    BY <1>7
  <2>2. CASE Ahead(j) /\ Ahead(k)
    BY <1>1, <1>10, <2>2
  <2>3. ASSUME Ahead(j), NEW i, Back(k, i) PROVE FALSE
    <3>1. j = i
      BY <1>1, <1>10, <2>3
    <3>2. j <= p /\ q <= i
      BY <1>7, <2>1, <2>3
    <3> HIDE DEF Ahead, Back
    <3> QED BY <1>7, <2>1, <3>1, <3>2
  <2>4. ASSUME Ahead(k), NEW i, Back(j, i) PROVE FALSE
    <3>1. k = i
      BY <1>1, <1>10, <2>4
    <3>2. k <= p /\ q <= i
      BY <1>7, <2>1, <2>4
    <3> HIDE DEF Ahead, Back
    <3> QED BY <1>7, <2>1, <3>1, <3>2
  <2>5. ASSUME NEW i, NEW x, Back(j, i), Back(k, x) PROVE j = k
    <3>1. i = x
      BY <1>1, <1>10, <2>5
    <3>2. j - p - l - 1 + q = k - p - l - 1 + q
      BY <2>5, <3>1
    <3> HIDE DEF Back
    <3> QED BY <1>7, <2>1, <3>2
  <2>6. ASSUME NEW i, NEW x, Middle(j, i), Middle(k, x) PROVE j = k
    <3>1. i \in Int /\ x \in Int /\ j = p + i /\ k = p + x
      BY <1>7, <2>1, <2>6
    <3>2. next + i - 1 = next + x - 1
      BY <1>10, <2>6
    <3> HIDE DEF Middle
    <3> QED BY <1>7, <3>1, <3>2
  <2> DEFINE Old(k0) == Ahead(k0) \/ \E i : Back(k0, i)
             Fresh(k0) == \E i : Middle(k0, i)
  <2>7. ~(Old(j) /\ Fresh(k)) /\ ~(Fresh(j) /\ Old(k))
    <3>1. \A k0 \in 1..Len(e) : Old(k0) => e[k0].id \in Nat /\ e[k0].id < next
      BY <1>8
    <3>2. \A k0 \in 1..Len(e) : Fresh(k0) => e[k0].id \in Nat /\ next <= e[k0].id
      BY <1>9
    <3> HIDE DEF Old, Fresh
    <3> QED BY <1>7, <1>10, <3>1, <3>2
  <2>8. (Old(j) \/ Fresh(j)) /\ (Old(k) \/ Fresh(k))
    BY <1>6
  <2>9. CASE Old(j) /\ Old(k)
    <3> HIDE DEF Ahead, Back
    <3> QED BY <2>2, <2>3, <2>4, <2>5, <2>9
  <2>10. CASE Fresh(j) /\ Fresh(k)
    BY <2>6, <2>10
  <2> QED BY <2>7, <2>8, <2>9, <2>10
<1>11. ASSUME NEW k \in 1..Len(e) PROVE e[k].id < m
  <2>1. ASSUME e[k].id \in Nat, e[k].id < next PROVE e[k].id < m
    BY <1>3, <1>7, <2>1
  <2> QED BY <1>6, <1>8, <1>9, <2>1
<1> HIDE DEF Ahead, Middle, Back
<1> QED BY <1>3, <1>4, <1>5, <1>10, <1>11 DEF IsDoc, OneIdEach
-----------------------------------------------------------------------------
(* The writes, each as the pieces it puts together. *)

(* A target is one of the paragraphs. *)
LEMMA PosIs ==
    ASSUME NEW d, NEW n, IsDoc(d, n), NEW t \in 1..Len(d), NEW id, id = d[t].id
    PROVE  (CHOOSE k \in DOMAIN d : d[k].id = id) = t
<1>1. DOMAIN d = 1..Len(d) /\ OneIdEach(d)
  BY DocFacts DEF IsDoc
<1>2. t \in DOMAIN d /\ \A k \in DOMAIN d : d[k].id = id => k = t
  BY <1>1 DEF OneIdEach
<1> QED BY <1>2

IsTarget(id, t) == t \in 1..Len(doc) /\ t = PosOf(id) /\ doc[t].id = id

(* The target of a write is at one position. *)
LEMMA TargetIs ==
    ASSUME IsDoc(doc, next), NEW id \in IdsOf(doc)
    PROVE  \E t : IsTarget(id, t)
<1>1. DOMAIN doc = 1..Len(doc)
  BY DocFacts DEF IsDoc
<1>2. PICK t \in 1..Len(doc) : doc[t].id = id
  BY <1>1 DEF IdsOf
<1>3. t = PosOf(id)
  BY <1>2, PosIs DEF PosOf
<1> QED BY <1>2, <1>3 DEF IsTarget

(* The text before the target, or the target itself, gives the style. *)
LEMMA StyleIs ==
    ASSUME IsDoc(doc, next), NEW id, NEW t, IsTarget(id, t)
    PROVE  /\ StyleBefore(id) \in Level
           /\ t > 1 /\ doc[t - 1].place = doc[t].place => StyleBefore(id) = doc[t - 1].level
<1>1. Len(doc) \in Nat /\ t \in 1..Len(doc) /\ \A k \in 1..Len(doc) : doc[k].level \in Level
  BY DocFacts DEF IsDoc, IsTarget, Para
<1>2. PICK before : before = {k \in 1..(t - 1) : doc[k].place = doc[t].place}
  OBVIOUS
<1>3. StyleBefore(id) = IF before = {} THEN doc[t].level ELSE doc[Max(before)].level
  BY <1>2 DEF StyleBefore, IsTarget
<1>4. CASE before = {}
  <2>1. ~(t > 1 /\ doc[t - 1].place = doc[t].place)
    <3>1. t > 1 => t - 1 \in 1..(t - 1)
      BY <1>1
    <3> QED BY <1>2, <1>4, <3>1
  <2> QED BY <1>1, <1>3, <1>4, <2>1
<1>5. CASE before # {}
  <2>1. t - 1 \in Nat
    BY <1>1
  <2>2. before \in SUBSET (0..(t - 1))
    <3>1. ASSUME NEW k \in before PROVE k \in 0..(t - 1)
      BY <1>1, <1>2
    <3> QED BY <3>1
  <2>3. PICK m : m = Max(before)
    OBVIOUS
  <2>4. m \in before /\ \A k \in before : k <= m
    BY <1>5, <2>1, <2>2, <2>3, MaxIs
  <2>5. m \in 1..(t - 1) /\ m \in 1..Len(doc)
    BY <1>1, <1>2, <2>4
  <2>6. ASSUME t > 1, doc[t - 1].place = doc[t].place PROVE m = t - 1
    <3>1. t - 1 \in before
      BY <1>1, <1>2, <2>6
    <3>2. t - 1 <= m
      BY <2>4, <3>1
    <3> QED BY <1>1, <2>5, <3>2
  <2> QED BY <1>1, <1>3, <1>5, <2>3, <2>5, <2>6
<1> QED BY <1>4, <1>5

(* n new paragraphs have the one level. *)
LEMMA AlikeIs ==
    ASSUME NEW level \in Level, NEW n \in Nat, NEW l, l = Alike(level, n)
    PROVE  l \in Seq(Level) /\ Len(l) = n /\ \A k \in 1..n : l[k] = level
<1>1. l = [k \in 1..n |-> level]
  BY DEF Alike
<1>2. l \in [1..n -> Level]
  BY <1>1
<1> QED BY <1>1, <1>2

(* n paragraphs of one level come between those up to p and those from q on.*)
Puts(p, q, level, n) ==
    \E levels, place :
        /\ p \in Nat /\ q \in (p + 1)..(Len(doc) + 1)
        /\ levels \in Seq(Level) /\ place \in STRING
        /\ Len(levels) = n /\ n \in Nat /\ \A k \in 1..n : levels[k] = level
        /\ Pieces(doc', p, q, levels, place)
        /\ next' = next + n

(* A write that puts pieces together so puts them there. *)
LEMMA PutsAre ==
    ASSUME IsDoc(doc, next), NEW p \in Nat, NEW q \in (p + 1)..(Len(doc) + 1),
           NEW level \in Level, NEW n \in Nat, NEW place \in STRING,
           doc' = SubSeq(doc, 1, p) \o New(Alike(level, n), place) \o SubSeq(doc, q, Len(doc)),
           next' = next + n
    PROVE  Puts(p, q, level, n)
<1>1. PICK l : l = Alike(level, n)
  OBVIOUS
<1>2. l \in Seq(Level) /\ Len(l) = n /\ \A k \in 1..n : l[k] = level
  BY <1>1, AlikeIs
<1>3. PICK e : e = doc'
  OBVIOUS
<1>4. e = SubSeq(doc, 1, p) \o New(l, place) \o SubSeq(doc, q, Len(doc))
  BY <1>1, <1>3
<1>5. Pieces(e, p, q, l, place)
  BY <1>2, <1>4, PiecesAre
<1> QED BY <1>2, <1>3, <1>5 DEF Puts

(* The positions around a target. *)
LEMMA TargetFacts ==
    ASSUME IsDoc(doc, next), NEW id, NEW t, IsTarget(id, t)
    PROVE  /\ t \in 1..Len(doc) /\ t = PosOf(id) /\ Len(doc) \in Nat
           /\ t - 1 \in Nat /\ t \in Nat /\ (t - 1) + 1 = t
           /\ t \in ((t - 1) + 1)..(Len(doc) + 1)
           /\ t + 1 \in (t + 1)..(Len(doc) + 1) /\ t + 1 \in ((t - 1) + 1)..(Len(doc) + 1)
           /\ doc[t].level \in Level /\ doc[t].place \in STRING
<1>1. t \in 1..Len(doc) /\ t = PosOf(id) /\ Len(doc) \in Nat /\ doc[t] \in Para
  BY DocFacts DEF IsTarget, IsDoc
<1> QED BY <1>1 DEF Para

(* insert_para_before: the new paragraphs come right before the target. *)
LEMMA BeforePuts ==
    ASSUME IsDoc(doc, next), NEW id, NEW t, IsTarget(id, t), NEW n \in Nat, InsertParaBefore(id, n)
    PROVE  Puts(t - 1, t, StyleBefore(id), n)
<1>1. doc' = SubSeq(doc, 1, t - 1) \o New(Alike(StyleBefore(id), n), doc[t].place)
             \o SubSeq(doc, (t - 1) + 1, Len(doc))
  BY DEF InsertParaBefore, Inserted, IsTarget
<1>2. (t - 1) + 1 = t
  BY TargetFacts
<1>3. next' = next + n
  BY DEF InsertParaBefore, Wrote
<1> QED BY <1>1, <1>2, <1>3, TargetFacts, StyleIs, PutsAre

(* insert_para_after: they come right after it. *)
LEMMA AfterPuts ==
    ASSUME IsDoc(doc, next), NEW id, NEW t, IsTarget(id, t), NEW n \in Nat, InsertParaAfter(id, n)
    PROVE  Puts(t, t + 1, doc[t].level, n)
<1>1. doc' = SubSeq(doc, 1, t) \o New(Alike(doc[t].level, n), doc[t].place)
             \o SubSeq(doc, t + 1, Len(doc))
  BY DEF InsertParaAfter, InsertedAfter, Inserted, IsTarget
<1>3. next' = next + n
  BY DEF InsertParaAfter, Wrote
<1> QED BY <1>1, <1>3, TargetFacts, PutsAre

(* replace_para: they come in its place. *)
LEMMA ReplacePuts ==
    ASSUME IsDoc(doc, next), NEW id, NEW t, IsTarget(id, t), NEW n \in Nat, ReplacePara(id, n)
    PROVE  Puts(t - 1, t + 1, doc[t].level, n)
<1>1. doc' = SubSeq(doc, 1, t - 1) \o New(Alike(doc[t].level, n), doc[t].place)
             \o SubSeq(doc, t + 1, Len(doc))
  BY DEF ReplacePara, IsTarget
<1>3. next' = next + n
  BY DEF ReplacePara, Wrote
<1> QED BY <1>1, <1>3, TargetFacts, PutsAre

(* delete_para: nothing comes in its place. *)
LEMMA DeletePuts ==
    ASSUME IsDoc(doc, next), NEW id, NEW t, IsTarget(id, t), DeletePara(id)
    PROVE  Puts(t - 1, t + 1, doc[t].level, 0)
<1>1. doc' = SubSeq(doc, 1, t - 1) \o SubSeq(doc, t + 1, Len(doc))
  BY DEF DeletePara, RemoveAt, IsTarget
<1>2. New(Alike(doc[t].level, 0), doc[t].place) = <<>>
  <2>1. PICK l : l = Alike(doc[t].level, 0)
    OBVIOUS
  <2>2. Len(l) = 0
    BY <2>1, TargetFacts, AlikeIs
  <2>3. New(l, doc[t].place) = [k \in 1..0 |->
             [id |-> next + k - 1, level |-> l[k], place |-> doc[t].place]]
    BY <2>2 DEF New
  <2> QED BY <2>1, <2>3
<1>3. PICK a : a = SubSeq(doc, 1, t - 1)
  OBVIOUS
<1>4. a \in Seq(Para)
  <2>1. doc \in Seq(Para)
    BY DEF IsDoc
  <2> QED BY <1>3, <2>1, TargetFacts
<1>5. a \o <<>> = a
  BY <1>4, ConcatEmptySeq
<1>6. doc' = SubSeq(doc, 1, t - 1) \o New(Alike(doc[t].level, 0), doc[t].place)
             \o SubSeq(doc, t + 1, Len(doc))
  BY <1>1, <1>2, <1>3, <1>5
<1>7. next' = next + 0
  BY DEF DeletePara, Wrote
<1> QED BY <1>6, <1>7, TargetFacts, PutsAre

(* get_section finds the section of a heading. *)
LEMMA SectionFound ==
    ASSUME NEW d, NEW n, IsDoc(d, n), NEW h \in Headings(d), NEW id, id = d[h].id
    PROVE  GetSection(d, id) = Section(d, h)
<1>1. Section(d, h) \in ListSections(d) /\ Section(d, h).heading = id
  BY DEF ListSections, Section
<1>2. ASSUME NEW s \in ListSections(d), s.heading = id PROVE s = Section(d, h)
  <2>1. PICK g \in Headings(d) : s = Section(d, g)
    BY DEF ListSections
  <2>2. d[g].id = d[h].id
    BY <1>2, <2>1 DEF Section
  <2>3. g = h
    BY <2>2 DEF IsDoc, OneIdEach, Headings
  <2> QED BY <2>1, <2>3
<1> QED BY <1>1, <1>2 DEF GetSection

(* The section from h to e comes once more, after its end. *)
Copies(h, e) ==
    /\ h \in Headings(doc) /\ e = EndOfSection(doc, h)
    /\ next' = next + (e - h + 1)
    /\ write' = [name |-> "copy", target |-> doc[h].id,
                 new |-> {next + k - 1 : k \in 1..(e - h + 1)}]
    /\ \E levels, place :
        /\ levels \in Seq(Level) /\ place \in STRING
        /\ Len(levels) = e - h + 1
        /\ \A k \in 1..(e - h + 1) : levels[k] = doc[h + k - 1].level
        /\ Pieces(doc', e, e + 1, levels, place)

(* The copy of a section, as it is written. *)
LEMMA CopyCopies ==
    ASSUME IsDoc(doc, next), NEW id, NEW h, IsTarget(id, h), h \in Headings(doc),
           NEW e, e = EndOfSection(doc, h), DuplicateSection(id)
    PROVE  Copies(h, e)
<1>1. /\ doc \in Seq(Para) /\ Len(doc) \in Nat /\ DOMAIN doc = 1..Len(doc)
      /\ \A k \in 1..Len(doc) : doc[k] \in Para
      /\ h \in 1..Len(doc) /\ e \in h..Len(doc)
  BY DocFacts, EndIs DEF IsDoc
<1>2. h = PosOf(id) /\ doc[h].id = id
  BY DEF IsTarget
<1>3. PICK s : s = Section(doc, h)
  OBVIOUS
<1>4. GetSection(doc, id) = s
  BY <1>2, <1>3, SectionFound
<1>5. PICK all : all = AllIds(s)
  OBVIOUS
<1>6. PICK m : m = e - h + 1
  OBVIOUS
<1>7. m \in Nat /\ m \in 1..m /\ h + m - 1 = e
  BY <1>1, <1>6
<1>8. all = [k \in 1..m |-> doc[h + k - 1].id]
  <2>1. SectionAt(doc, s, h, e)
    BY <1>1, <1>3, SectionIs
  <2> QED BY <1>5, <1>6, <2>1 DEF SectionAt
<1>9. Last(all) = doc[e].id
  <2>1. Len(all) = m
    BY <1>7, <1>8
  <2> QED BY <1>7, <1>8, <2>1 DEF Last
<1>10. PICK end : end = doc[e].id
  OBVIOUS
<1>11. PosOf(end) = e
  BY <1>1, <1>10, PosIs DEF PosOf
<1>12. PICK levels : levels = CopyParagraphs(id, end)
  OBVIOUS
<1>13. levels = [k \in 1..m |-> doc[h + k - 1].level]
  BY <1>2, <1>6, <1>11, <1>12 DEF CopyParagraphs
<1>14. \A k \in 1..m : doc[h + k - 1].level \in Level
  <2> SUFFICES ASSUME NEW k \in 1..m PROVE doc[h + k - 1].level \in Level
    OBVIOUS
  <2>1. h + k - 1 \in 1..Len(doc)
    BY <1>1, <1>6
  <2>2. doc[h + k - 1] \in Para
    BY <1>1, <2>1
  <2> QED BY <2>2 DEF Para
<1>15. levels \in Seq(Level) /\ Len(levels) = m /\ \A k \in 1..m : levels[k] = doc[h + k - 1].level
  <2>1. levels \in [1..m -> Level]
    BY <1>13, <1>14
  <2> QED BY <1>7, <1>13, <2>1
<1>16. PICK place : place = doc[e].place
  OBVIOUS
<1>17. place \in STRING
  <2>1. doc[e] \in Para
    BY <1>1
  <2> QED BY <1>16, <2>1 DEF Para
<1>18. doc' = InsertedAfter(e, levels, place) /\ Wrote("copy", id, m)
  BY <1>4, <1>5, <1>9, <1>10, <1>11, <1>12, <1>15, <1>16 DEF DuplicateSection
<1>19. PICK d : d = doc'
  OBVIOUS
<1>20. d = SubSeq(doc, 1, e) \o New(levels, place) \o SubSeq(doc, e + 1, Len(doc))
  BY <1>18, <1>19 DEF InsertedAfter, Inserted
<1>21. e \in Nat /\ e + 1 \in (e + 1)..(Len(doc) + 1)
  BY <1>1
<1>22. Pieces(d, e, e + 1, levels, place)
  BY <1>15, <1>17, <1>20, <1>21, PiecesAre
<1> QED BY <1>2, <1>6, <1>15, <1>17, <1>18, <1>19, <1>22 DEF Copies, Wrote
-----------------------------------------------------------------------------
(* Every document is one. *)

(* The document that is opened has one ID for each paragraph. *)
LEMMA OpenedIs ==
    ASSUME Init PROVE IsDoc(doc, next)
<1>1. PICK shape \in Outlines :
         /\ doc = [k \in 1..Len(shape) |->
                     [id |-> k, level |-> shape[k].level, place |-> shape[k].place]]
         /\ next = Len(shape) + 1
  BY DEF Init
<1>2. shape \in Seq([level : Level, place : STRING])
  BY OutlineAssumption DEF Level
<1>3. PICK l : l = Len(shape)
  OBVIOUS
<1>4. l \in Nat /\ \A k \in 1..l : shape[k].level \in Level /\ shape[k].place \in STRING
  <2>1. PICK S : S = [level : Level, place : STRING]
    OBVIOUS
  <2>2. shape \in Seq(S)
    BY <1>2, <2>1
  <2>3. l \in Nat /\ \A k \in 1..l : shape[k] \in S
    BY <1>3, <2>2
  <2> QED BY <2>1, <2>3
<1>5. doc \in [1..l -> Para]
  BY <1>1, <1>3, <1>4 DEF Para
<1>6. doc \in Seq(Para) /\ DOMAIN doc = 1..l
  BY <1>4, <1>5
<1>7. \A k \in 1..l : doc[k].id = k
  BY <1>1, <1>3
<1> QED BY <1>1, <1>3, <1>4, <1>6, <1>7 DEF IsDoc, OneIdEach

(* So has the one that a write leaves. *)
LEMMA PutsKeep ==
    ASSUME IsDoc(doc, next), NEW p, NEW q, NEW level, NEW n, Puts(p, q, level, n)
    PROVE  IsDoc(doc', next')
<1>1. PICK levels, place :
        /\ p \in Nat /\ q \in (p + 1)..(Len(doc) + 1)
        /\ levels \in Seq(Level) /\ place \in STRING
        /\ Len(levels) = n
        /\ Pieces(doc', p, q, levels, place)
        /\ next' = next + n
  BY DEF Puts
<1>2. PICK e, m : e = doc' /\ m = next'
  OBVIOUS
<1>3. IsDoc(e, m)
  BY <1>1, <1>2, PiecesDoc
<1> QED BY <1>2, <1>3

(* So has the one that a copied section leaves. *)
LEMMA CopiesKeep ==
    ASSUME IsDoc(doc, next), NEW h, NEW e, Copies(h, e)
    PROVE  IsDoc(doc', next')
<1>1. PICK levels, place :
        /\ levels \in Seq(Level) /\ place \in STRING
        /\ Len(levels) = e - h + 1
        /\ Pieces(doc', e, e + 1, levels, place)
  BY DEF Copies
<1>2. h \in 1..Len(doc) /\ Len(doc) \in Nat /\ e \in h..Len(doc)
  BY DocFacts, EndIs DEF IsDoc, Copies
<1>3. e \in Nat /\ e + 1 \in (e + 1)..(Len(doc) + 1)
  BY <1>2
<1>4. PICK d, m : d = doc' /\ m = next'
  OBVIOUS
<1>5. m = next + Len(levels)
  BY <1>1, <1>4 DEF Copies
<1>6. IsDoc(d, m)
  BY <1>1, <1>3, <1>4, <1>5, PiecesDoc
<1> QED BY <1>4, <1>6

(* A write of a paragraph is one of those five. *)
Write(id, t) ==
    /\ IsTarget(id, t)
    /\ \/ \E n \in 1..MaxItems : \/ InsertParaBefore(id, n)
                                 \/ InsertParaAfter(id, n)
                                 \/ ReplacePara(id, n)
       \/ DeletePara(id)
       \/ t \in Headings(doc) /\ DuplicateSection(id)

(* Every step is one of the writes, of a paragraph there is. *)
LEMMA NextWrites ==
    ASSUME IsDoc(doc, next), Next PROVE \E id, t : Write(id, t)
<1>1. PICK id \in IdsOf(doc) :
        \/ \E n \in 1..MaxItems : \/ InsertParaBefore(id, n)
                                  \/ InsertParaAfter(id, n)
                                  \/ ReplacePara(id, n)
        \/ DeletePara(id)
        \/ doc[PosOf(id)].level # NotHeading /\ DuplicateSection(id)
  BY DEF Next
<1>2. PICK t : IsTarget(id, t)
  BY TargetIs
<1>3. doc[PosOf(id)].level # NotHeading => t \in Headings(doc)
  BY <1>2, DocFacts DEF IsTarget, Headings, IsDoc
<1> QED BY <1>1, <1>2, <1>3 DEF Write

(* No step gives an ID twice. *)
LEMMA WritesKeep ==
    ASSUME IsDoc(doc, next), [Next]_vars PROVE IsDoc(doc', next')
<1>1. CASE Next
  <2>1. PICK id, t : Write(id, t)
    BY <1>1, NextWrites
  <2>2. IsTarget(id, t)
    BY <2>1 DEF Write
  <2>3. ASSUME NEW n \in 1..MaxItems, InsertParaBefore(id, n) PROVE IsDoc(doc', next')
    <3>1. n \in Nat
      BY BoundAssumption
    <3> QED BY <2>2, <2>3, <3>1, BeforePuts, PutsKeep
  <2>4. ASSUME NEW n \in 1..MaxItems, InsertParaAfter(id, n) PROVE IsDoc(doc', next')
    <3>1. n \in Nat
      BY BoundAssumption
    <3> QED BY <2>2, <2>4, <3>1, AfterPuts, PutsKeep
  <2>5. ASSUME NEW n \in 1..MaxItems, ReplacePara(id, n) PROVE IsDoc(doc', next')
    <3>1. n \in Nat
      BY BoundAssumption
    <3> QED BY <2>2, <2>5, <3>1, ReplacePuts, PutsKeep
  <2>6. CASE DeletePara(id)
    BY <2>2, <2>6, DeletePuts, PutsKeep
  <2>7. CASE t \in Headings(doc) /\ DuplicateSection(id)
    <3>1. PICK e : e = EndOfSection(doc, t)
      OBVIOUS
    <3>2. Copies(t, e)
      BY <2>2, <2>7, <3>1, CopyCopies
    <3> QED BY <3>2, CopiesKeep
  <2> QED BY <2>1, <2>3, <2>4, <2>5, <2>6, <2>7 DEF Write
<1>2. CASE UNCHANGED vars
  BY <1>2 DEF vars
<1> QED BY <1>1, <1>2

(* Whatever is written, sections nest: of two with a paragraph in common    *)
(* one lies in the other, deeper, and body text belongs to the last heading *)
(* before it (list_sections).                                               *)
THEOREM SectionsNest == Spec => []OutlineNests
<1>1. Init => IsDoc(doc, next)
  BY OpenedIs
<1>2. IsDoc(doc, next) /\ [Next]_vars => IsDoc(doc, next)'
  BY WritesKeep
<1>3. IsDoc(doc, next) => OutlineNests
  BY Nests
<1> QED BY <1>1, <1>2, <1>3, PTL DEF Spec
-----------------------------------------------------------------------------
(* A section is copied whole. *)

(* The end of a section, by what it holds and what comes next. *)
Spans(d, h, e) ==
    /\ e \in h..Len(d)
    /\ \A j \in (h + 1)..e : j \in Headings(d) => d[h].level < d[j].level
    /\ e < Len(d) => e + 1 \in Headings(d) /\ d[e + 1].level <= d[h].level

(* The end of a section is such a position. *)
LEMMA EndSpans ==
    ASSUME NEW d \in Seq(Para), NEW h \in Headings(d), NEW e, e = EndOfSection(d, h)
    PROVE  Spans(d, h, e)
<1>1. /\ Len(d) \in Nat /\ h \in 1..Len(d)
      /\ \A j \in Headings(d) : j \in 1..Len(d) /\ d[j].level \in Nat
  BY DocFacts
<1>2. e \in h..Len(d) /\ \A k \in 1..Len(d) : h < k => (k <= e <=> Deeper(d, h, k))
  BY EndIs
<1>3. ASSUME NEW j \in (h + 1)..e, j \in Headings(d) PROVE d[h].level < d[j].level
  <2>1. Deeper(d, h, j)
    BY <1>1, <1>2, <1>3
  <2> QED BY <1>1, <1>3, <2>1 DEF Deeper
<1>4. ASSUME e < Len(d) PROVE e + 1 \in Headings(d) /\ d[e + 1].level <= d[h].level
  <2>1. ~Deeper(d, h, e + 1)
    BY <1>1, <1>2, <1>4
  <2>2. PICK j \in Headings(d) : h < j /\ j <= e + 1 /\ ~(d[h].level < d[j].level)
    BY <2>1 DEF Deeper
  <2>3. ~(j \in (h + 1)..e)
    BY <1>3, <2>2
  <2>4. j = e + 1
    <3>1. j \in Nat /\ h \in Nat /\ e \in Nat
      BY <1>1, <1>2
    <3>2. ~(j <= e)
      BY <2>2, <2>3, <3>1
    <3> QED BY <2>2, <3>1, <3>2
  <2> QED BY <1>1, <2>2, <2>4
<1> QED BY <1>2, <1>3, <1>4 DEF Spans

(* And such a position is its end. *)
LEMMA SpansEnd ==
    ASSUME NEW d \in Seq(Para), NEW h \in Headings(d), NEW e, Spans(d, h, e)
    PROVE  EndOfSection(d, h) = e
<1>1. /\ Len(d) \in Nat /\ h \in 1..Len(d)
      /\ \A j \in Headings(d) : j \in 1..Len(d) /\ d[j].level \in Nat
  BY DocFacts
<1>2. PICK f : f = EndOfSection(d, h)
  OBVIOUS
<1>3. Spans(d, h, f)
  BY <1>2, EndSpans
<1>4. e \in h..Len(d) /\ f \in h..Len(d)
  BY <1>3 DEF Spans
<1>5. CASE e < f
  <2>1. e + 1 \in Headings(d) /\ d[e + 1].level <= d[h].level /\ e + 1 \in (h + 1)..f
    BY <1>1, <1>4, <1>5 DEF Spans
  <2>2. d[h].level < d[e + 1].level
    BY <1>3, <2>1 DEF Spans
  <2> QED BY <1>1, <2>1, <2>2
<1>6. CASE f < e
  <2>1. f + 1 \in Headings(d) /\ d[f + 1].level <= d[h].level /\ f + 1 \in (h + 1)..e
    BY <1>1, <1>3, <1>4, <1>6 DEF Spans
  <2>2. d[h].level < d[f + 1].level
    BY <2>1 DEF Spans
  <2> QED BY <1>1, <2>1, <2>2
<1> QED BY <1>1, <1>2, <1>4, <1>5, <1>6

(* The levels of a section are those from its heading to its end. *)
LEMMA LevelsAre ==
    ASSUME NEW d, NEW n, IsDoc(d, n), NEW h \in Headings(d), NEW e, e = EndOfSection(d, h)
    PROVE  Levels(d, Section(d, h)) = [k \in 1..(e - h + 1) |-> d[h + k - 1].level]
<1>1. /\ d \in Seq(Para) /\ Len(d) \in Nat /\ DOMAIN d = 1..Len(d)
      /\ h \in 1..Len(d) /\ e \in h..Len(d)
  BY DocFacts, EndIs DEF IsDoc
<1>2. PICK s, all, m : s = Section(d, h) /\ all = AllIds(s) /\ m = e - h + 1
  OBVIOUS
<1>3. all = [k \in 1..m |-> d[h + k - 1].id]
  <2>1. SectionAt(d, s, h, e)
    BY <1>1, <1>2, SectionIs
  <2> QED BY <1>2, <2>1 DEF SectionAt
<1>4. m \in Nat /\ Len(all) = m
  BY <1>1, <1>2, <1>3
<1>5. ASSUME NEW k \in 1..m PROVE LevelOf(d, all[k]) = d[h + k - 1].level
  <2>1. PICK j : j = h + k - 1
    OBVIOUS
  <2>2. j \in 1..Len(d)
    BY <1>1, <1>2, <2>1
  <2>3. (CHOOSE i \in DOMAIN d : d[i].id = d[j].id) = j
    BY <2>2, PosIs
  <2> QED BY <1>3, <2>1, <2>3 DEF LevelOf
<1> QED BY <1>2, <1>4, <1>5 DEF Levels

(* The document with the section twice, by positions. *)
Twice(d, h, e, m) ==
    /\ IsDoc(d, next + m) /\ Len(d) = Len(doc) + m
    /\ \A k \in 1..e : d[k] = doc[k]
    /\ \A k \in 1..m : d[e + k].id = next + k - 1 /\ d[e + k].level = doc[h + k - 1].level
    /\ \A k \in (e + 1)..Len(doc) : d[m + k] = doc[k]

(* Where the paragraphs of the section and of its copy are. *)
LEMMA CopiesTwice ==
    ASSUME IsDoc(doc, next), NEW h, NEW e, Copies(h, e), NEW m, m = e - h + 1, NEW d, d = doc'
    PROVE  Twice(d, h, e, m)
<1>1. PICK levels, place :
        /\ levels \in Seq(Level) /\ place \in STRING
        /\ Len(levels) = m
        /\ \A k \in 1..m : levels[k] = doc[h + k - 1].level
        /\ Pieces(d, e, e + 1, levels, place)
  BY DEF Copies
<1>2. h \in 1..Len(doc) /\ Len(doc) \in Nat /\ e \in h..Len(doc)
  BY DocFacts, EndIs DEF IsDoc, Copies
<1>3. IsDoc(d, next + m)
  <2>1. PICK n : n = next + m
    OBVIOUS
  <2>2. next' = n /\ IsDoc(doc', next')
    BY <2>1, CopiesKeep DEF Copies
  <2> QED BY <2>1, <2>2
<1>4. Len(d) = Len(doc) + m
  BY <1>1, <1>2 DEF Pieces
<1>5. \A k \in 1..e : d[k] = doc[k]
  BY <1>1 DEF Pieces
<1>6. ASSUME NEW k \in 1..m
      PROVE  d[e + k].id = next + k - 1 /\ d[e + k].level = doc[h + k - 1].level
  <2>1. d[e + k] = [id |-> next + k - 1, level |-> levels[k], place |-> place]
    BY <1>1 DEF Pieces
  <2>2. levels[k] = doc[h + k - 1].level
    BY <1>1
  <2> QED BY <2>1, <2>2
<1>7. ASSUME NEW k \in (e + 1)..Len(doc) PROVE d[m + k] = doc[k]
  <2>1. e + m + (k + 1 - (e + 1)) = m + k
    BY <1>2
  <2>2. d[e + m + (k + 1 - (e + 1))] = doc[k]
    BY <1>1 DEF Pieces
  <2> QED BY <2>1, <2>2
<1> QED BY <1>3, <1>4, <1>5, <1>6, <1>7 DEF Twice

(* The section stays as it is, and the copy ends where it should. *)
LEMMA TwiceSpans ==
    ASSUME IsDoc(doc, next), NEW h \in Headings(doc), NEW e, e = EndOfSection(doc, h),
           NEW m, m = e - h + 1, NEW d, Twice(d, h, e, m)
    PROVE  /\ h \in Headings(d) /\ Spans(d, h, e)
           /\ e + 1 \in Headings(d) /\ Spans(d, e + 1, e + m)
<1>1. /\ doc \in Seq(Para) /\ Len(doc) \in Nat /\ DOMAIN doc = 1..Len(doc)
      /\ h \in 1..Len(doc) /\ doc[h].level \in Nat /\ doc[h].level # NotHeading
      /\ \A k \in 1..Len(doc) : doc[k].level \in Int
  BY DocFacts DEF IsDoc, Headings
<1>2. e \in h..Len(doc) /\ Spans(doc, h, e)
  BY <1>1, EndSpans DEF Spans
<1>3. m \in Nat /\ 1 \in 1..m /\ h + 1 - 1 = h /\ e \in Nat /\ h \in Nat /\ h <= e
  BY <1>1, <1>2
<1>4. DOMAIN d = 1..Len(d) /\ Len(d) = Len(doc) + m
  BY DocFacts DEF IsDoc, Twice
<1>5. h \in Headings(d) /\ d[h].level = doc[h].level
  <2>1. h \in 1..e /\ h \in 1..Len(d)
    BY <1>1, <1>2, <1>3, <1>4
  <2>2. d[h] = doc[h]
    BY <2>1 DEF Twice
  <2> QED BY <1>1, <1>4, <2>1, <2>2 DEF Headings
<1>6. e + 1 \in Headings(d) /\ d[e + 1].level = doc[h].level
  <2>1. d[e + 1].level = doc[h].level
    BY <1>3 DEF Twice
  <2>2. e + 1 \in 1..Len(d)
    BY <1>1, <1>2, <1>3, <1>4
  <2> QED BY <1>1, <1>4, <2>1, <2>2 DEF Headings
<1>7. Spans(d, h, e)
  <2>1. e \in h..Len(d)
    BY <1>1, <1>2, <1>3, <1>4
  <2>2. ASSUME NEW j \in (h + 1)..e, j \in Headings(d) PROVE d[h].level < d[j].level
    <3>1. j \in 1..e /\ j \in 1..Len(doc)
      BY <1>1, <1>2
    <3>2. d[j] = doc[j]
      BY <3>1 DEF Twice
    <3>3. j \in Headings(doc)
      BY <1>1, <2>2, <3>1, <3>2 DEF Headings
    <3>4. doc[h].level < doc[j].level
      BY <1>2, <3>3 DEF Spans
    <3> QED BY <1>5, <3>2, <3>4
  <2>3. e + 1 \in Headings(d) /\ d[e + 1].level <= d[h].level
    BY <1>1, <1>5, <1>6
  <2> QED BY <2>1, <2>2, <2>3 DEF Spans
<1>8. Spans(d, e + 1, e + m)
  <2>1. e + m \in (e + 1)..Len(d)
    BY <1>1, <1>2, <1>3, <1>4
  <2>2. ASSUME NEW j \in ((e + 1) + 1)..(e + m), j \in Headings(d)
        PROVE  d[e + 1].level < d[j].level
    <3>1. PICK k : k = j - e
      OBVIOUS
    <3>2. k \in 1..m /\ j = e + k
      <4>1. j \in Nat /\ e + 2 <= j /\ j <= e + m
        BY <1>3
      <4> QED BY <1>3, <3>1, <4>1
    <3>3. PICK i : i = h + k - 1
      OBVIOUS
    <3>4. d[j].level = doc[i].level
      BY <3>2, <3>3 DEF Twice
    <3>5. i \in (h + 1)..e /\ i \in 1..Len(doc)
      <4>1. k \in Nat /\ 2 <= k /\ k <= e - h + 1
        <5>1. j \in Nat /\ e + 2 <= j
          BY <1>3
        <5> QED BY <1>3, <3>1, <3>2, <5>1
      <4>2. i \in Nat /\ h + 1 <= i /\ i <= e
        BY <1>3, <3>3, <4>1
      <4> QED BY <1>1, <1>2, <1>3, <4>2
    <3>6. i \in Headings(doc)
      BY <1>1, <2>2, <3>4, <3>5 DEF Headings
    <3>7. doc[h].level < doc[i].level
      BY <1>2, <3>5, <3>6 DEF Spans
    <3> QED BY <1>6, <3>4, <3>7
  <2>3. ASSUME e + m < Len(d)
        PROVE  (e + m) + 1 \in Headings(d) /\ d[(e + m) + 1].level <= d[e + 1].level
    <3>1. e + 1 \in (e + 1)..Len(doc) /\ e < Len(doc)
      BY <1>1, <1>2, <1>3, <1>4, <2>3
    <3>2. d[m + (e + 1)] = doc[e + 1] /\ m + (e + 1) = (e + m) + 1
      <4>1. \A k \in (e + 1)..Len(doc) : d[m + k] = doc[k]
        BY DEF Twice
      <4>2. d[m + (e + 1)] = doc[e + 1]
        BY <3>1, <4>1
      <4>3. m + (e + 1) = (e + m) + 1
        BY <1>3
      <4> QED BY <4>2, <4>3
    <3>3. e + 1 \in Headings(doc) /\ doc[e + 1].level <= doc[h].level
      BY <1>2, <3>1 DEF Spans
    <3>4. (e + m) + 1 \in 1..Len(d)
      <4>1. Len(d) \in Nat
        BY <1>1, <1>3, <1>4
      <4> QED BY <1>3, <2>3, <4>1
    <3> QED BY <1>4, <1>6, <3>2, <3>3, <3>4 DEF Headings
  <2> QED BY <2>1, <2>2, <2>3 DEF Spans
<1> QED BY <1>5, <1>6, <1>7, <1>8

(* The copy has the levels of the section, which is as it was. *)
LEMMA CopyIsWhole ==
    ASSUME IsDoc(doc, next), NEW h, NEW e, Copies(h, e)
    PROVE  LET twin == GetSection(doc', Min(write'.new))
               orig == GetSection(doc, write'.target)
           IN  /\ Levels(doc', twin) = Levels(doc, orig)
               /\ GetSection(doc', write'.target) = orig
<1>1. PICK d, m : d = doc' /\ m = e - h + 1
  OBVIOUS
<1>2. /\ h \in Headings(doc) /\ e = EndOfSection(doc, h)
      /\ write'.target = doc[h].id /\ write'.new = {next + k - 1 : k \in 1..m}
  BY <1>1 DEF Copies
<1>3. /\ doc \in Seq(Para) /\ Len(doc) \in Nat /\ next \in Nat
      /\ h \in 1..Len(doc) /\ e \in h..Len(doc)
  BY <1>2, DocFacts, EndIs DEF IsDoc
<1>4. m \in Nat /\ 1 \in 1..m /\ h \in 1..e
  BY <1>1, <1>3
<1>5. Twice(d, h, e, m)
  BY <1>1, CopiesTwice
<1>6. /\ h \in Headings(d) /\ Spans(d, h, e)
      /\ e + 1 \in Headings(d) /\ Spans(d, e + 1, e + m)
  BY <1>1, <1>2, <1>5, TwiceSpans
<1>7. IsDoc(d, next + m) /\ d \in Seq(Para) /\ d[h] = doc[h] /\ d[e + 1].id = next
  BY <1>3, <1>4, <1>5 DEF Twice, IsDoc
<1>8. EndOfSection(d, h) = e /\ EndOfSection(d, e + 1) = e + m
  BY <1>6, <1>7, SpansEnd
<1>9. Min(write'.new) = next
  <2>1. PICK S : S = write'.new
    OBVIOUS
  <2>2. next \in S /\ \A y \in S : y \in Nat /\ next <= y
    BY <1>2, <1>3, <1>4, <2>1
  <2>3. Min(S) \in S /\ \A y \in S : Min(S) <= y
    <3>1. S \in SUBSET Nat /\ S # {}
      BY <2>2
    <3> QED BY <3>1, MinIs
  <2>4. PICK x : x = Min(S)
    OBVIOUS
  <2>5. x \in S /\ x <= next
    BY <2>2, <2>3, <2>4
  <2>6. x \in Nat /\ next <= x
    BY <2>2, <2>5
  <2>7. x = next
    BY <1>3, <2>5, <2>6
  <2> QED BY <2>1, <2>4, <2>7
<1>10. GetSection(d, next) = Section(d, e + 1)
  BY <1>6, <1>7, SectionFound
<1>11. GetSection(d, doc[h].id) = Section(d, h) /\ GetSection(doc, doc[h].id) = Section(doc, h)
  BY <1>2, <1>6, <1>7, SectionFound
<1>12. Section(d, h) = Section(doc, h)
  <2>1. \A k \in 1..(e - h) : d[h + k].id = doc[h + k].id
    <3> SUFFICES ASSUME NEW k \in 1..(e - h) PROVE d[h + k].id = doc[h + k].id
      OBVIOUS
    <3>1. h + k \in 1..e
      BY <1>3
    <3> QED BY <1>5, <3>1 DEF Twice
  <2> QED BY <1>2, <1>7, <1>8, <2>1 DEF Section
<1>13. Levels(d, Section(d, e + 1)) = Levels(doc, Section(doc, h))
  <2>1. PICK g, f : g = e + 1 /\ f = e + m
    OBVIOUS
  <2>2. Levels(d, Section(d, g)) = [k \in 1..(f - g + 1) |-> d[g + k - 1].level]
    <3>1. PICK n : n = next + m
      OBVIOUS
    <3>2. IsDoc(d, n) /\ g \in Headings(d) /\ f = EndOfSection(d, g)
      BY <1>6, <1>7, <1>8, <2>1, <3>1
    <3> QED BY <3>2, LevelsAre
  <2>3. Levels(doc, Section(doc, h)) = [k \in 1..m |-> doc[h + k - 1].level]
    BY <1>1, <1>2, LevelsAre
  <2>4. f - g + 1 = m
    BY <1>3, <1>4, <2>1
  <2>5. ASSUME NEW k \in 1..m PROVE d[g + k - 1].level = doc[h + k - 1].level
    <3>1. g + k - 1 = e + k
      BY <1>3, <2>1
    <3> QED BY <1>5, <3>1 DEF Twice
  <2> QED BY <2>1, <2>2, <2>3, <2>4, <2>5
<1> QED BY <1>1, <1>2, <1>9, <1>10, <1>11, <1>12, <1>13

(* A section copied after its own end is there twice, and the first one is  *)
(* not changed by it, wherever its paragraphs are (copy_paragraphs_from,    *)
(* list_sections).                                                          *)
THEOREM CopiesAreWhole == Spec => SectionsCopyWhole
<1>1. Init => IsDoc(doc, next)
  BY OpenedIs
<1>2. IsDoc(doc, next) /\ [Next]_vars => IsDoc(doc, next)'
  BY WritesKeep
<1>3. IsDoc(doc, next) /\ [Next]_vars => [CopyStep]_vars
  <2> SUFFICES ASSUME IsDoc(doc, next), Next, write'.name = "copy" PROVE CopyStep
    BY DEF CopyStep, vars
  <2>1. PICK id, t : Write(id, t)
    BY NextWrites
  <2>2. t \in Headings(doc) /\ DuplicateSection(id) /\ IsTarget(id, t)
    BY <2>1 DEF Write, InsertParaBefore, InsertParaAfter, ReplacePara, DeletePara, Wrote
  <2>3. PICK e : e = EndOfSection(doc, t)
    OBVIOUS
  <2>4. Copies(t, e)
    BY <2>2, <2>3, CopyCopies
  <2> QED BY <2>4, CopyIsWhole DEF CopyStep
<1> QED BY <1>1, <1>2, <1>3, PTL DEF Spec, SectionsCopyWhole
-----------------------------------------------------------------------------
(* Text moves nothing into or out of a section. *)

(* The document with n paragraphs of body text after position p. *)
Texts(d, p, n) ==
    /\ p \in 0..Len(doc) /\ n \in Nat
    /\ IsDoc(d, next + n) /\ Len(d) = Len(doc) + n
    /\ \A k \in 1..p : d[k] = doc[k]
    /\ \A k \in 1..n : d[p + k].id = next + k - 1 /\ d[p + k].level = NotHeading
    /\ \A k \in (p + 1)..Len(doc) : d[n + k] = doc[k]

Moved(p, n, j) == IF j <= p THEN j ELSE n + j

(* An insertion of body text, by positions. *)
LEMMA PutsTexts ==
    ASSUME IsDoc(doc, next), NEW p, NEW n, Puts(p, p + 1, NotHeading, n), NEW d, d = doc'
    PROVE  Texts(d, p, n)
<1>1. PICK levels, place :
        /\ p \in Nat /\ p + 1 \in (p + 1)..(Len(doc) + 1)
        /\ levels \in Seq(Level) /\ place \in STRING
        /\ Len(levels) = n /\ n \in Nat /\ \A k \in 1..n : levels[k] = NotHeading
        /\ Pieces(d, p, p + 1, levels, place)
        /\ next' = next + n
  BY DEF Puts
<1>2. Len(doc) \in Nat /\ p \in 0..Len(doc)
  BY <1>1, DocFacts DEF IsDoc
<1>3. IsDoc(d, next + n)
  <2>1. IsDoc(doc', next')
    BY PutsKeep
  <2> QED BY <1>1, <2>1
<1>4. Len(d) = Len(doc) + n
  BY <1>1, <1>2 DEF Pieces
<1>5. \A k \in 1..p : d[k] = doc[k]
  BY <1>1 DEF Pieces
<1>6. ASSUME NEW k \in 1..n PROVE d[p + k].id = next + k - 1 /\ d[p + k].level = NotHeading
  <2>1. d[p + k] = [id |-> next + k - 1, level |-> levels[k], place |-> place]
    BY <1>1 DEF Pieces
  <2>2. levels[k] = NotHeading
    BY <1>1
  <2> QED BY <2>1, <2>2
<1>7. ASSUME NEW k \in (p + 1)..Len(doc) PROVE d[n + k] = doc[k]
  <2>1. p + n + (k + 1 - (p + 1)) = n + k
    BY <1>1
  <2>2. d[p + n + (k + 1 - (p + 1))] = doc[k]
    BY <1>1 DEF Pieces
  <2> QED BY <2>1, <2>2
<1> QED BY <1>1, <1>2, <1>3, <1>4, <1>5, <1>6, <1>7 DEF Texts

(* A paragraph moves with its heading level, and the headings are the old ones. *)
LEMMA HeadingsMove ==
    ASSUME IsDoc(doc, next), NEW p, NEW n, NEW d, Texts(d, p, n)
    PROVE  /\ \A k \in 1..Len(doc) : Moved(p, n, k) \in 1..Len(d) /\ d[Moved(p, n, k)] = doc[k]
           /\ \A j \in Headings(doc) : Moved(p, n, j) \in Headings(d)
           /\ \A g \in Headings(d) : \E j \in Headings(doc) : g = Moved(p, n, j)
<1>1. /\ Len(doc) \in Nat /\ DOMAIN doc = 1..Len(doc) /\ p \in 0..Len(doc) /\ n \in Nat
      /\ DOMAIN d = 1..Len(d) /\ Len(d) = Len(doc) + n
  BY DocFacts DEF IsDoc, Texts
<1>2. ASSUME NEW k \in 1..Len(doc)
      PROVE  Moved(p, n, k) \in 1..Len(d) /\ d[Moved(p, n, k)] = doc[k]
  <2>1. CASE k <= p
    <3>1. k \in 1..p /\ k \in 1..Len(d)
      BY <1>1, <2>1
    <3> QED BY <2>1, <3>1 DEF Texts, Moved
  <2>2. CASE ~(k <= p)
    <3>1. k \in (p + 1)..Len(doc) /\ n + k \in 1..Len(d)
      BY <1>1, <2>2
    <3> QED BY <2>2, <3>1 DEF Texts, Moved
  <2> QED BY <2>1, <2>2
<1>3. \A j \in Headings(doc) : Moved(p, n, j) \in Headings(d)
  BY <1>1, <1>2 DEF Headings
<1>4. ASSUME NEW g \in Headings(d) PROVE \E j \in Headings(doc) : g = Moved(p, n, j)
  <2>1. g \in 1..Len(d) /\ d[g].level # NotHeading
    BY <1>1 DEF Headings
  <2>2. CASE g <= p
    <3>1. g \in 1..Len(doc) /\ Moved(p, n, g) = g
      BY <1>1, <2>1, <2>2 DEF Moved
    <3> QED BY <1>1, <1>2, <2>1, <3>1 DEF Headings
  <2>3. CASE p < g /\ g <= p + n
    <3>1. PICK k : k = g - p
      OBVIOUS
    <3>2. k \in 1..n /\ g = p + k
      BY <1>1, <2>1, <2>3, <3>1
    <3>3. d[g].level = NotHeading
      BY <3>2 DEF Texts
    <3> QED BY <2>1, <3>3
  <2>4. CASE p + n < g
    <3>1. PICK k : k = g - n
      OBVIOUS
    <3>2. k \in 1..Len(doc) /\ ~(k <= p) /\ n + k = g
      BY <1>1, <2>1, <2>4, <3>1
    <3>3. Moved(p, n, k) = g
      BY <3>2 DEF Moved
    <3> QED BY <1>1, <1>2, <2>1, <3>2, <3>3 DEF Headings
  <2>5. g <= p \/ (p < g /\ g <= p + n) \/ p + n < g
    BY <1>1, <2>1
  <2> QED BY <2>2, <2>3, <2>4, <2>5
<1> QED BY <1>2, <1>3, <1>4

(* A position with the same headings before it as another had lies in the   *)
(* same sections.                                                           *)
LEMMA AboveMoves ==
    ASSUME IsDoc(doc, next), NEW p, NEW n, NEW d, Texts(d, p, n),
           NEW k \in 1..Len(d), NEW c \in 1..Len(doc),
           \A j \in Headings(doc) : /\ Moved(p, n, j) < k <=> j < c
                                    /\ Moved(p, n, j) <= k <=> j <= c
    PROVE  Around(d, d[k].id) = Around(doc, doc[c].id)
<1>1. /\ Len(doc) \in Nat /\ p \in Nat /\ n \in Nat
      /\ \A j \in Headings(doc) : j \in 1..Len(doc)
  BY DocFacts DEF IsDoc, Texts
<1> DEFINE M(j) == Moved(p, n, j)
<1>2. /\ \A j \in Headings(doc) : M(j) \in Headings(d) /\ d[M(j)] = doc[j]
      /\ \A g \in Headings(d) : \E j \in Headings(doc) : g = M(j)
  BY <1>1, HeadingsMove
<1>3. \A i, j \in Headings(doc) : M(i) < M(j) <=> i < j
  <2> SUFFICES ASSUME NEW i \in Headings(doc), NEW j \in Headings(doc)
               PROVE  M(i) < M(j) <=> i < j
    OBVIOUS
  <2>1. i \in Nat /\ j \in Nat
    BY <1>1
  <2> QED BY <1>1, <2>1 DEF Moved
<1>4. \A j \in Headings(doc) : (M(j) < k <=> j < c) /\ (M(j) <= k <=> j <= c)
  OBVIOUS
<1> HIDE DEF M
<1>5. ASSUME NEW j \in Headings(doc) PROVE Deeper(d, M(j), k) <=> Deeper(doc, j, c)
  <2>1. ASSUME Deeper(d, M(j), k), NEW i \in Headings(doc), j < i, i <= c
        PROVE  doc[j].level < doc[i].level
    <3>1. M(i) \in Headings(d) /\ M(j) < M(i) /\ M(i) <= k
      BY <1>2, <1>3, <1>4, <2>1
    <3>2. d[M(j)].level < d[M(i)].level
      BY <2>1, <3>1 DEF Deeper
    <3> QED BY <1>2, <3>2
  <2>2. ASSUME Deeper(doc, j, c), NEW g \in Headings(d), M(j) < g, g <= k
        PROVE  d[M(j)].level < d[g].level
    <3>1. PICK i \in Headings(doc) : g = M(i)
      BY <1>2
    <3>2. j < i /\ i <= c
      BY <1>3, <1>4, <2>2, <3>1
    <3>3. doc[j].level < doc[i].level
      BY <2>2, <3>2 DEF Deeper
    <3> QED BY <1>2, <3>1, <3>3
  <2> QED BY <2>1, <2>2 DEF Deeper
<1>6. ASSUME NEW j \in Headings(doc) PROVE M(j) \in Above(d, k) <=> j \in Above(doc, c)
  BY <1>2, <1>4, <1>5 DEF Above
<1>7. {d[g].id : g \in Above(d, k)} = {doc[j].id : j \in Above(doc, c)}
  <2>1. ASSUME NEW g \in Above(d, k) PROVE \E j \in Above(doc, c) : d[g].id = doc[j].id
    <3>1. PICK j \in Headings(doc) : g = M(j)
      BY <1>2 DEF Above
    <3> QED BY <1>2, <1>6, <3>1
  <2>2. ASSUME NEW j \in Above(doc, c) PROVE \E g \in Above(d, k) : d[g].id = doc[j].id
    <3>1. j \in Headings(doc)
      BY DEF Above
    <3> QED BY <1>2, <1>6, <3>1
  <2> QED BY <2>1, <2>2
<1>8. Around(d, d[k].id) = {d[g].id : g \in Above(d, k)}
  <2>1. PICK m : m = next + n
    OBVIOUS
  <2>2. IsDoc(d, m)
    BY <2>1 DEF Texts
  <2> QED BY <2>2, AroundIs
<1>9. Around(doc, doc[c].id) = {doc[j].id : j \in Above(doc, c)}
  BY AroundIs
<1> QED BY <1>7, <1>8, <1>9

(* The IDs that a write of n paragraphs gives. *)
NewIds(n) == {next + k - 1 : k \in 1..n}

(* What was there lies where it lay. *)
LEMMA OldStays ==
    ASSUME IsDoc(doc, next), NEW p, NEW n, NEW d, Texts(d, p, n), NEW id \in IdsOf(doc)
    PROVE  Around(d, id) = Around(doc, id)
<1>1. /\ DOMAIN doc = 1..Len(doc) /\ Len(doc) \in Nat /\ p \in Nat /\ n \in Nat
      /\ \A j \in Headings(doc) : j \in 1..Len(doc)
  BY DocFacts DEF IsDoc, Texts
<1>2. PICK c \in 1..Len(doc) : id = doc[c].id
  BY <1>1 DEF IdsOf
<1>3. PICK k : k = Moved(p, n, c)
  OBVIOUS
<1>4. k \in 1..Len(d) /\ d[k] = doc[c]
  BY <1>3, HeadingsMove
<1>5. ASSUME NEW j \in Headings(doc)
      PROVE  (Moved(p, n, j) < k <=> j < c) /\ (Moved(p, n, j) <= k <=> j <= c)
  <2>1. j \in Nat /\ c \in Nat
    BY <1>1
  <2> QED BY <1>1, <1>3, <2>1 DEF Moved
<1>6. Around(d, d[k].id) = Around(doc, doc[c].id)
  BY <1>4, <1>5, AboveMoves
<1> QED BY <1>2, <1>4, <1>6

(* What is new lies in the sections of the text that it follows. *)
LEMMA NewJoins ==
    ASSUME IsDoc(doc, next), NEW p, NEW n, NEW d, Texts(d, p, n),
           p \in 1..Len(doc), doc[p].level = NotHeading,
           NEW id \in NewIds(n)
    PROVE  Around(d, id) = Around(doc, doc[p].id)
<1>1. /\ Len(doc) \in Nat /\ p \in Nat /\ n \in Nat /\ Len(d) = Len(doc) + n
      /\ \A j \in Headings(doc) : j \in 1..Len(doc) /\ j # p
  BY DocFacts DEF IsDoc, Texts, Headings
<1>2. PICK i \in 1..n : id = next + i - 1
  BY DEF NewIds
<1>3. PICK k : k = p + i
  OBVIOUS
<1>4. k \in 1..Len(d) /\ d[k].id = id
  <2>1. k \in 1..Len(d)
    BY <1>1, <1>3
  <2> QED BY <1>2, <1>3, <2>1 DEF Texts
<1>5. ASSUME NEW j \in Headings(doc)
      PROVE  (Moved(p, n, j) < k <=> j < p) /\ (Moved(p, n, j) <= k <=> j <= p)
  <2>1. j \in Nat /\ j # p /\ i \in Nat /\ 1 <= i /\ i <= n
    BY <1>1
  <2> QED BY <1>1, <1>3, <2>1 DEF Moved
<1>6. Around(d, d[k].id) = Around(doc, doc[p].id)
  BY <1>4, <1>5, AboveMoves
<1> QED BY <1>4, <1>6

(* If no heading was written, the new paragraphs are text. *)
LEMMA NoHeadingIsText ==
    ASSUME IsDoc(doc, next), NEW p, NEW q, NEW level, NEW n, Puts(p, q, level, n), 1 <= n,
           \A id \in {next + k - 1 : k \in 1..n} : LevelOf(doc', id) = NotHeading
    PROVE  level = NotHeading
<1>1. PICK d, m : d = doc' /\ m = next'
  OBVIOUS
<1>2. PICK levels, place :
        /\ p \in Nat /\ q \in (p + 1)..(Len(doc) + 1)
        /\ levels \in Seq(Level) /\ place \in STRING
        /\ Len(levels) = n /\ n \in Nat /\ \A k \in 1..n : levels[k] = level
        /\ Pieces(d, p, q, levels, place)
  BY <1>1 DEF Puts
<1>3. IsDoc(d, m)
  <2>1. IsDoc(doc', next')
    BY PutsKeep
  <2> QED BY <1>1, <2>1
<1>4. 1 \in 1..n /\ next \in Nat /\ next + 1 - 1 = next /\ Len(doc) \in Nat
  BY <1>2, DocFacts DEF IsDoc
<1>5. p + 1 \in 1..Len(d)
  <2>1. Len(d) = p + n + (Len(doc) + 1 - q)
    BY <1>2 DEF Pieces
  <2> QED BY <1>2, <1>4, <2>1
<1>6. d[p + 1].id = next /\ d[p + 1].level = level
  <2>1. d[p + 1] = [id |-> next + 1 - 1, level |-> levels[1], place |-> place]
    BY <1>2, <1>4 DEF Pieces
  <2>2. levels[1] = level
    BY <1>2, <1>4
  <2> QED BY <1>4, <2>1, <2>2
<1>7. LevelOf(d, next) = level
  <2>1. (CHOOSE k \in DOMAIN d : d[k].id = next) = p + 1
    BY <1>3, <1>5, <1>6, PosIs
  <2> QED BY <1>6, <2>1 DEF LevelOf
<1>8. next \in {next + k - 1 : k \in 1..n}
  BY <1>4
<1> QED BY <1>1, <1>7, <1>8

(* insert_para_before, of any number of paragraphs. *)
LEMMA BeforeKeeps ==
    ASSUME IsDoc(doc, next), NEW id, NEW t, IsTarget(id, t),
           NEW n \in Nat, 1 <= n, InsertParaBefore(id, n)
    PROVE  FlowStep /\ HeadingStep
<1>1. /\ t = PosOf(id) /\ t \in 1..Len(doc) /\ Len(doc) \in Nat
      /\ t - 1 \in Nat /\ (t - 1) + 1 = t
  BY TargetFacts
<1>2. PICK p, level : p = t - 1 /\ level = StyleBefore(id)
  OBVIOUS
<1>3. Puts(p, p + 1, level, n)
  BY <1>1, <1>2, BeforePuts
<1>4. /\ write'.name = "insert_para_before" /\ write'.target = id
      /\ write'.new = {next + k - 1 : k \in 1..n}
  BY DEF InsertParaBefore, Wrote
<1>5. PICK d : d = doc'
  OBVIOUS
<1>6. level = NotHeading => Texts(d, p, n)
  BY <1>3, <1>5, PutsTexts
<1>7. FlowStep
  <2> SUFFICES ASSUME NoHeadingWritten, NEW x \in IdsOf(doc)
               PROVE  Around(doc', x) = Around(doc, x)
    BY <1>4 DEF FlowStep
  <2>1. \A y \in {next + k - 1 : k \in 1..n} : LevelOf(doc', y) = NotHeading
    BY <1>4 DEF NoHeadingWritten
  <2>2. level = NotHeading
    BY <1>3, <2>1, NoHeadingIsText
  <2> QED BY <1>5, <1>6, <2>2, OldStays
<1>8. HeadingStep
  <2> SUFFICES ASSUME t > 1, doc[t - 1].place = doc[t].place, doc[t - 1].level = NotHeading,
                      NEW x \in write'.new
               PROVE  Around(doc', x) = Around(doc, doc[t - 1].id)
    BY <1>1, <1>4 DEF HeadingStep
  <2>1. level = NotHeading
    BY <1>2, StyleIs
  <2>2. p \in 1..Len(doc) /\ doc[p].level = NotHeading
    BY <1>1, <1>2
  <2>3. x \in NewIds(n)
    BY <1>4 DEF NewIds
  <2>4. Texts(d, p, n)
    BY <1>6, <2>1
  <2>5. Around(d, x) = Around(doc, doc[p].id)
    BY <2>2, <2>3, <2>4, NewJoins
  <2> QED BY <1>2, <1>5, <2>5
<1> QED BY <1>7, <1>8

(* insert_para_after, of any number of paragraphs. *)
LEMMA AfterKeeps ==
    ASSUME IsDoc(doc, next), NEW id, NEW t, IsTarget(id, t),
           NEW n \in Nat, 1 <= n, InsertParaAfter(id, n)
    PROVE  FlowStep /\ HeadingStep
<1>1. t \in 1..Len(doc) /\ doc[t].id = id
  BY DEF IsTarget
<1>2. PICK level : level = doc[t].level
  OBVIOUS
<1>3. Puts(t, t + 1, level, n)
  BY <1>2, AfterPuts
<1>4. /\ write'.name = "insert_para_after" /\ write'.target = id
      /\ write'.new = {next + k - 1 : k \in 1..n}
  BY DEF InsertParaAfter, Wrote
<1>5. PICK d : d = doc'
  OBVIOUS
<1>6. level = NotHeading => Texts(d, t, n)
  BY <1>3, <1>5, PutsTexts
<1>7. ASSUME NoHeadingWritten PROVE level = NotHeading
  <2>1. \A y \in {next + k - 1 : k \in 1..n} : LevelOf(doc', y) = NotHeading
    BY <1>4, <1>7 DEF NoHeadingWritten
  <2> QED BY <1>3, <2>1, NoHeadingIsText
<1>8. ASSUME NoHeadingWritten, NEW x \in IdsOf(doc) PROVE Around(doc', x) = Around(doc, x)
  BY <1>5, <1>6, <1>7, <1>8, OldStays
<1>9. ASSUME NoHeadingWritten, NEW x \in write'.new
      PROVE  Around(doc', x) = Around(doc, write'.target)
  <2>1. level = NotHeading
    BY <1>7, <1>9
  <2>2. x \in NewIds(n)
    BY <1>4, <1>9 DEF NewIds
  <2>3. Texts(d, t, n) /\ doc[t].level = NotHeading
    BY <1>2, <1>6, <2>1
  <2>4. Around(d, x) = Around(doc, doc[t].id)
    BY <1>1, <2>2, <2>3, NewJoins
  <2> QED BY <1>1, <1>4, <1>5, <2>4
<1>10. FlowStep
  BY <1>8, <1>9 DEF FlowStep
<1>11. HeadingStep
  BY <1>4 DEF HeadingStep
<1> QED BY <1>10, <1>11

(* Text written beside text moves no other paragraph into or out of a       *)
(* section, and lies in the sections of what it was written beside          *)
(* (insert_para_after, insert_para_before with its style anchor).           *)
THEOREM TextLeavesSections == Spec => TextKeepsOutline
<1>1. Init => IsDoc(doc, next)
  BY OpenedIs
<1>2. IsDoc(doc, next) /\ [Next]_vars => IsDoc(doc, next)'
  BY WritesKeep
<1>3. IsDoc(doc, next) /\ [Next]_vars => [write' # write => FlowStep /\ HeadingStep]_vars
  <2> SUFFICES ASSUME IsDoc(doc, next), Next PROVE FlowStep /\ HeadingStep
    BY DEF vars
  <2>1. PICK id, t : Write(id, t)
    BY NextWrites
  <2>2. IsTarget(id, t)
    BY <2>1 DEF Write
  <2>3. \A n \in 1..MaxItems : n \in Nat /\ 1 <= n
    BY BoundAssumption
  <2>4. ASSUME NEW n \in 1..MaxItems, InsertParaBefore(id, n) PROVE FlowStep /\ HeadingStep
    BY <2>2, <2>3, <2>4, BeforeKeeps
  <2>5. ASSUME NEW n \in 1..MaxItems, InsertParaAfter(id, n) PROVE FlowStep /\ HeadingStep
    BY <2>2, <2>3, <2>5, AfterKeeps
  <2>6. write'.name \notin {"insert_para_before", "insert_para_after"} => FlowStep /\ HeadingStep
    BY DEF FlowStep, HeadingStep
  <2>7. ASSUME NEW n \in 1..MaxItems, ReplacePara(id, n) PROVE FlowStep /\ HeadingStep
    BY <2>6, <2>7 DEF ReplacePara, Wrote
  <2>8. CASE DeletePara(id)
    BY <2>6, <2>8 DEF DeletePara, Wrote
  <2>9. CASE DuplicateSection(id)
    BY <2>6, <2>9 DEF DuplicateSection, Wrote
  <2> QED BY <2>1, <2>4, <2>5, <2>7, <2>8, <2>9 DEF Write
<1> QED BY <1>1, <1>2, <1>3, PTL DEF Spec, TextKeepsOutline
=============================================================================
