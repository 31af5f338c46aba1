--------------------------- MODULE DocumentProofs ---------------------------
(***************************************************************************)
(* The document, for every file, every content and every bound: the types, *)
(* the soundness of the anchor manifest, the tree without repetitions, and *)
(* the promise that an ID never changes its paragraph and never comes back.*)
(*                                                                         *)
(* None of these is inductive alone: that BindNew leaves the tables each   *)
(* other's inverse needs that the nodes it binds have no ID yet and are    *)
(* distinct, which is a matter of the tree (no node twice, every node      *)
(* below the next fresh one).  DocInv puts them together; TreeInv adds     *)
(* what links the anchors to the tree.                                     *)
(*                                                                         *)
(* The first two parts are about the operators of AnchorManifest: what     *)
(* they make of a sound manifest, and that the loops of the code come to   *)
(* the closed forms.                                                       *)
(***************************************************************************)
EXTENDS Document, FiniteSetTheorems, SequenceLemmas

-----------------------------------------------------------------------------
(* Selecting from a sequence. *)

(* A set of positions is finite. *)
LEMMA PositionsFinite ==
    ASSUME NEW n \in Nat, NEW K \in SUBSET (1..n)
    PROVE  IsFiniteSet(K) /\ Cardinality(K) \in Nat
<1>1. IsFiniteSet(1..n)
  <2>1. 1 \in Int /\ n \in Int
    OBVIOUS
  <2> QED BY <2>1, FS_Interval
<1>2. IsFiniteSet(K)
  BY <1>1, FS_Subset
<1> QED BY <1>2, FS_CardinalityType

(* Two members of a set of positions have different ranks in it. *)
LEMMA RankIsInjective ==
    ASSUME NEW n \in Nat, NEW K \in SUBSET (1..n), NEW i \in K, NEW j \in K,
           Cardinality({x \in K : x <= i}) = Cardinality({x \in K : x <= j})
    PROVE  i = j
<1> DEFINE R(k) == {x \in K : x <= k}
<1>1. IsFiniteSet(K)
  BY PositionsFinite
<1>2. \A k \in K : IsFiniteSet(R(k)) /\ R(k) \subseteq K
  BY <1>1, FS_Subset
<1>3. ASSUME NEW a \in K, NEW b \in K, a < b,
             Cardinality(R(a)) = Cardinality(R(b))
      PROVE  FALSE
  <2>1. R(a) \in SUBSET R(b)
    <3>1. \A x \in K : x \in Int
      OBVIOUS
    <3>2. ASSUME NEW x \in K, x <= a PROVE x <= b
      BY <3>1, <3>2, <1>3
    <3> QED BY <3>2
  <2>2. R(a) = R(b)
    BY <2>1, <1>2, <1>3, FS_Subset
  <2>3. b \in R(b) /\ b \notin R(a)
    BY <1>3
  <2> QED BY <2>2, <2>3
<1>4. i < j \/ j < i \/ i = j
  OBVIOUS
<1> QED BY <1>3, <1>4

(* Nth(K, k) is the member of K whose rank in K is k. *)
LEMMA NthProperties ==
    ASSUME NEW n \in Nat, NEW K \in SUBSET (1..n), NEW k \in 1..Cardinality(K)
    PROVE  /\ Nth(K, k) \in K
           /\ Cardinality({x \in K : x <= Nth(K, k)}) = k
<1> DEFINE R(i) == {x \in K : x <= i}
           c == Cardinality(K)
           rank == [i \in K |-> Cardinality(R(i))]
<1>1. IsFiniteSet(K) /\ c \in Nat
  BY PositionsFinite
<1>2. ASSUME NEW i \in K
      PROVE  Cardinality(R(i)) \in 1..c
  <2>1. R(i) \in SUBSET K /\ i \in R(i)
    OBVIOUS
  <2>2. IsFiniteSet(R(i)) /\ Cardinality(R(i)) <= c
    BY <2>1, <1>1, FS_Subset
  <2>3. Cardinality(R(i)) \in Nat /\ Cardinality(R(i)) # 0
    BY <2>1, <2>2, FS_CardinalityType, FS_EmptySet
  <2> QED BY <2>2, <2>3, <1>1
<1>3. rank \in [K -> 1..c]
  BY <1>2
<1>4. \A i, j \in K : rank[i] = rank[j] => i = j
  BY RankIsInjective
<1>5. rank \in Injection(K, 1..c)
  BY <1>3, <1>4 DEF Injection, IsInjective
<1>6. IsFiniteSet(1..c) /\ Cardinality(1..c) = c
  BY <1>1, FS_Interval
<1>7. rank \in Surjection(K, 1..c)
  BY <1>5, <1>6, FS_Injection
<1>8. PICK i \in K : rank[i] = k
  BY <1>7 DEF Surjection
<1>9. Cardinality({x \in K : x <= i}) = k
  BY <1>8
<1> QED BY <1>9 DEF Nth

(* Keep(s, K) is a sequence of the elements of s at K, one for each.       *)
LEMMA KeepProperties ==
    ASSUME NEW S, NEW s \in Seq(S), NEW K \in SUBSET (1..Len(s))
    PROVE  /\ Keep(s, K) \in Seq(S)
           /\ Len(Keep(s, K)) = Cardinality(K)
           /\ Cardinality(K) \in Nat
           /\ Elems(Keep(s, K)) = {s[i] : i \in K}
           /\ IsOneToOne(s) => IsOneToOne(Keep(s, K))
<1> DEFINE t == Keep(s, K)
           c == Cardinality(K)
<1>1. Len(s) \in Nat /\ DOMAIN s = 1..Len(s) /\ \A i \in 1..Len(s) : s[i] \in S
  BY LenProperties
<1>2. IsFiniteSet(K) /\ c \in Nat
  BY <1>1, PositionsFinite
<1>3. \A k \in 1..c : Nth(K, k) \in K /\ Cardinality({x \in K : x <= Nth(K, k)}) = k
  BY <1>1, NthProperties
<1>4. t = [k \in 1..c |-> s[Nth(K, k)]]
  BY DEF Keep
<1>5. \A k \in 1..c : s[Nth(K, k)] \in S
  BY <1>1, <1>3
<1>6. t \in Seq(S) /\ Len(t) = c /\ DOMAIN t = 1..c
  <2>1. t \in [1..c -> S]
    BY <1>4, <1>5
  <2> QED BY <2>1, <1>2
<1>7. Elems(t) = {s[i] : i \in K}
  <2>1. ASSUME NEW i \in K
        PROVE  \E k \in 1..c : Nth(K, k) = i
    <3> DEFINE k == Cardinality({x \in K : x <= i})
    <3>1. {x \in K : x <= i} \in SUBSET K /\ i \in {x \in K : x <= i}
      BY <1>1
    <3>2. /\ IsFiniteSet({x \in K : x <= i})
          /\ k <= c
          /\ k \in Nat
          /\ k # 0
      BY <3>1, <1>2, FS_Subset, FS_CardinalityType, FS_EmptySet
    <3>3. k \in 1..c
      BY <3>2, <1>2
    <3>4. /\ Nth(K, k) \in K
          /\ Cardinality({x \in K : x <= Nth(K, k)}) = Cardinality({x \in K : x <= i})
      BY <3>3, <1>3
    <3>5. PICK j \in K : j = Nth(K, k)
      BY <3>4
    <3>6. Cardinality({x \in K : x <= j}) = Cardinality({x \in K : x <= i})
      BY <3>4, <3>5
    <3>7. Len(s) \in Nat /\ K \in SUBSET (1..Len(s))
      BY <1>1
    <3> HIDE DEF k
    <3>8. j = i
      BY <3>6, <3>7, RankIsInjective
    <3> QED BY <3>3, <3>5, <3>8
  <2>2. \A k \in 1..c : t[k] = s[Nth(K, k)] /\ Nth(K, k) \in K
    BY <1>3, <1>4
  <2>3. Elems(t) = {t[k] : k \in 1..c}
    BY <1>6 DEF Elems
  <2>4. ASSUME NEW e \in {t[k] : k \in 1..c} PROVE e \in {s[i] : i \in K}
    BY <2>2
  <2>5. ASSUME NEW e \in {s[i] : i \in K} PROVE e \in {t[k] : k \in 1..c}
    BY <2>1, <2>2
  <2> QED BY <2>3, <2>4, <2>5
<1>8. ASSUME IsOneToOne(s) PROVE IsOneToOne(t)
  <2> SUFFICES ASSUME NEW a \in 1..c, NEW b \in 1..c, t[a] = t[b] PROVE a = b
    BY <1>6 DEF IsOneToOne
  <2>1. Nth(K, a) = Nth(K, b)
    BY <1>1, <1>3, <1>4, <1>8 DEF IsOneToOne
  <2> QED BY <2>1, <1>3
<1> QED BY <1>2, <1>6, <1>7, <1>8

-----------------------------------------------------------------------------
(* Joining and filtering sequences. *)

(* The elements of a joined sequence are those of its parts. *)
LEMMA ElemsOfConcat ==
    ASSUME NEW S, NEW s \in Seq(S), NEW t \in Seq(S)
    PROVE  Elems(s \o t) = Elems(s) \cup Elems(t)
<1>1. /\ Len(s) \in Nat /\ DOMAIN s = 1..Len(s)
      /\ Len(t) \in Nat /\ DOMAIN t = 1..Len(t)
  BY LenProperties
<1>2. /\ s \o t \in Seq(S)
      /\ Len(s \o t) = Len(s) + Len(t)
      /\ \A i \in 1..(Len(s) + Len(t)) :
            (s \o t)[i] = IF i <= Len(s) THEN s[i] ELSE t[i - Len(s)]
  BY ConcatProperties
<1>3. DOMAIN (s \o t) = 1..(Len(s) + Len(t))
  BY <1>2, LenProperties
<1>4. ASSUME NEW i \in 1..(Len(s) + Len(t))
      PROVE  (s \o t)[i] \in Elems(s) \cup Elems(t)
  <2>1. CASE i <= Len(s)
    <3>1. i \in DOMAIN s /\ (s \o t)[i] = s[i]
      BY <1>1, <1>2, <2>1
    <3> QED BY <3>1 DEF Elems
  <2>2. CASE ~(i <= Len(s))
    <3>1. i - Len(s) \in DOMAIN t /\ (s \o t)[i] = t[i - Len(s)]
      BY <1>1, <1>2, <2>2
    <3> QED BY <3>1 DEF Elems
  <2> QED BY <2>1, <2>2
<1>5. ASSUME NEW i \in DOMAIN s PROVE s[i] \in Elems(s \o t)
  <2>1. i \in 1..(Len(s) + Len(t)) /\ (s \o t)[i] = s[i]
    BY <1>1, <1>2
  <2> QED BY <2>1, <1>3 DEF Elems
<1>6. ASSUME NEW i \in DOMAIN t PROVE t[i] \in Elems(s \o t)
  <2>1. i + Len(s) \in 1..(Len(s) + Len(t)) /\ (s \o t)[i + Len(s)] = t[i]
    BY <1>1, <1>2
  <2> QED BY <2>1, <1>3 DEF Elems
<1>7. Elems(s \o t) = {(s \o t)[i] : i \in 1..(Len(s) + Len(t))}
  BY <1>3 DEF Elems
<1>8. Elems(s) = {s[i] : i \in DOMAIN s} /\ Elems(t) = {t[i] : i \in DOMAIN t}
  BY DEF Elems
<1>9. Elems(s) \subseteq Elems(s \o t)
  BY <1>5, <1>8
<1>10. Elems(t) \subseteq Elems(s \o t)
  BY <1>6, <1>8
<1>11. Elems(s \o t) \subseteq Elems(s) \cup Elems(t)
  BY <1>4, <1>7
<1> QED BY <1>9, <1>10, <1>11

(* Joining two sequences that share nothing repeats nothing. *)
LEMMA OneToOneConcat ==
    ASSUME NEW S, NEW s \in Seq(S), NEW t \in Seq(S),
           IsOneToOne(s), IsOneToOne(t), Elems(s) \cap Elems(t) = {}
    PROVE  IsOneToOne(s \o t)
<1>1. /\ Len(s) \in Nat /\ DOMAIN s = 1..Len(s)
      /\ Len(t) \in Nat /\ DOMAIN t = 1..Len(t)
  BY LenProperties
<1>2. /\ s \o t \in Seq(S)
      /\ Len(s \o t) = Len(s) + Len(t)
      /\ \A i \in 1..(Len(s) + Len(t)) :
            (s \o t)[i] = IF i <= Len(s) THEN s[i] ELSE t[i - Len(s)]
  BY ConcatProperties
<1>3. DOMAIN (s \o t) = 1..(Len(s) + Len(t))
  BY <1>2, LenProperties
<1>4. \A i \in DOMAIN s, j \in DOMAIN t : s[i] # t[j]
  BY DEF Elems
<1> SUFFICES ASSUME NEW i \in 1..(Len(s) + Len(t)), NEW j \in 1..(Len(s) + Len(t)),
                    (s \o t)[i] = (s \o t)[j]
             PROVE  i = j
  BY <1>3 DEF IsOneToOne
<1>5. CASE i <= Len(s) /\ j <= Len(s)
  <2>1. i \in DOMAIN s /\ j \in DOMAIN s /\ s[i] = s[j]
    BY <1>1, <1>2, <1>5
  <2> QED BY <2>1 DEF IsOneToOne
<1>6. CASE ~(i <= Len(s)) /\ ~(j <= Len(s))
  <2>1. /\ i - Len(s) \in DOMAIN t /\ j - Len(s) \in DOMAIN t
        /\ t[i - Len(s)] = t[j - Len(s)]
    BY <1>1, <1>2, <1>6
  <2>2. i - Len(s) = j - Len(s)
    BY <2>1 DEF IsOneToOne
  <2> QED BY <2>2, <1>1
<1>7. CASE i <= Len(s) /\ ~(j <= Len(s))
  <2>1. i \in DOMAIN s /\ j - Len(s) \in DOMAIN t /\ s[i] = t[j - Len(s)]
    BY <1>1, <1>2, <1>7
  <2> QED BY <2>1, <1>4
<1>8. CASE ~(i <= Len(s)) /\ j <= Len(s)
  <2>1. j \in DOMAIN s /\ i - Len(s) \in DOMAIN t /\ s[j] = t[i - Len(s)]
    BY <1>1, <1>2, <1>8
  <2> QED BY <2>1, <1>4
<1> QED BY <1>5, <1>6, <1>7, <1>8

(* A sequence is cut in two at any position. *)
LEMMA CutProperties ==
    ASSUME NEW S, NEW s \in Seq(S), NEW p \in 0..Len(s)
    PROVE  LET a == SubSeq(s, 1, p)
               b == SubSeq(s, p + 1, Len(s))
           IN  /\ a \in Seq(S) /\ b \in Seq(S)
               /\ Elems(a) \cup Elems(b) = Elems(s)
               /\ IsOneToOne(s) => /\ IsOneToOne(a) /\ IsOneToOne(b)
                                   /\ Elems(a) \cap Elems(b) = {}
<1> DEFINE a == SubSeq(s, 1, p)
           b == SubSeq(s, p + 1, Len(s))
<1>1. Len(s) \in Nat /\ DOMAIN s = 1..Len(s) /\ p \in Nat /\ p <= Len(s)
  BY LenProperties
<1>2. a \in Seq(S) /\ Len(a) = p /\ \A i \in 1..p : a[i] = s[i]
  <2>1. \A i \in 1..p : s[i] \in S
    BY <1>1, ElementOfSeq
  <2> QED BY <1>1, <2>1, SubSeqProperties
<1>3. /\ b \in Seq(S) /\ Len(b) = Len(s) - p
      /\ \A i \in 1..(Len(s) - p) : b[i] = s[p + i]
  <2>1. \A i \in (p + 1)..Len(s) : s[i] \in S
    BY <1>1, ElementOfSeq
  <2>2. p + 1 \in Int /\ Len(s) \in Int
    BY <1>1
  <2>3. /\ b \in Seq(S)
        /\ Len(b) = IF p + 1 <= Len(s) THEN Len(s) - (p + 1) + 1 ELSE 0
        /\ \A i \in 1..(Len(s) - (p + 1) + 1) : b[i] = s[p + 1 + i - 1]
    BY <2>1, <2>2, SubSeqProperties
  <2> HIDE DEF b
  <2>4. Len(b) = Len(s) - p
    <3>1. CASE p + 1 <= Len(s)
      <4>1. Len(b) = Len(s) - (p + 1) + 1
        BY <2>3, <3>1
      <4> QED BY <1>1, <4>1
    <3>2. CASE ~(p + 1 <= Len(s))
      <4>1. Len(b) = 0
        BY <2>3, <3>2
      <4>2. p = Len(s)
        <5>1. \A x, y \in Nat : x <= y /\ ~(x + 1 <= y) => x = y
          OBVIOUS
        <5> QED BY <5>1, <1>1, <3>2
      <4> QED BY <1>1, <4>1, <4>2
    <3> QED BY <3>1, <3>2
  <2>5. ASSUME NEW i \in 1..(Len(s) - p) PROVE b[i] = s[p + i]
    <3>1. i \in 1..(Len(s) - (p + 1) + 1) /\ p + 1 + i - 1 = p + i
      BY <1>1
    <3> QED BY <3>1, <2>3
  <2> QED BY <2>3, <2>4, <2>5
<1>4. DOMAIN a = 1..p /\ DOMAIN b = 1..(Len(s) - p)
  BY <1>1, <1>2, <1>3, LenProperties
<1>5. Elems(a) = {s[i] : i \in 1..p}
  BY <1>2, <1>4 DEF Elems
<1>6. Elems(b) = {s[i] : i \in (p + 1)..Len(s)}
  <2>1. Elems(b) = {s[p + i] : i \in 1..(Len(s) - p)}
    BY <1>3, <1>4 DEF Elems
  <2>2. ASSUME NEW i \in (p + 1)..Len(s) PROVE s[i] \in Elems(b)
    <3>1. i - p \in 1..(Len(s) - p) /\ p + (i - p) = i
      BY <1>1
    <3> QED BY <3>1, <2>1
  <2>3. ASSUME NEW i \in 1..(Len(s) - p) PROVE p + i \in (p + 1)..Len(s)
    BY <1>1
  <2> QED BY <2>1, <2>2, <2>3
<1>7. Elems(a) \cup Elems(b) = Elems(s)
  <2>1. 1..Len(s) = (1..p) \cup ((p + 1)..Len(s))
    BY <1>1
  <2> QED BY <2>1, <1>1, <1>5, <1>6 DEF Elems
<1>8. ASSUME IsOneToOne(s)
      PROVE  /\ IsOneToOne(a) /\ IsOneToOne(b) /\ Elems(a) \cap Elems(b) = {}
  <2>1. \A i, j \in 1..Len(s) : s[i] = s[j] => i = j
    BY <1>1, <1>8 DEF IsOneToOne
  <2>2. IsOneToOne(a)
    BY <1>1, <1>2, <1>4, <2>1 DEF IsOneToOne
  <2>3. IsOneToOne(b)
    <3> SUFFICES ASSUME NEW i \in 1..(Len(s) - p), NEW j \in 1..(Len(s) - p), b[i] = b[j]
                 PROVE  i = j
      BY <1>4 DEF IsOneToOne
    <3>1. s[p + i] = s[p + j]
      BY <1>3
    <3>2. p + i \in 1..Len(s) /\ p + j \in 1..Len(s)
      BY <1>1
    <3>3. p + i = p + j
      BY <3>1, <3>2, <2>1
    <3> QED BY <3>3, <1>1
  <2>4. \A i \in 1..p, j \in (p + 1)..Len(s) : s[i] # s[j]
    BY <1>1, <2>1
  <2> QED BY <2>2, <2>3, <2>4, <1>5, <1>6
<1> QED BY <1>2, <1>3, <1>7, <1>8

(* Splicing t into s adds the elements of t and loses none of s. *)
LEMMA SpliceProperties ==
    ASSUME NEW S, NEW s \in Seq(S), NEW t \in Seq(S), NEW p \in 0..Len(s)
    PROVE  /\ Splice(s, p, t) \in Seq(S)
           /\ Elems(Splice(s, p, t)) = Elems(s) \cup Elems(t)
           /\ IsOneToOne(s) /\ IsOneToOne(t) /\ Elems(s) \cap Elems(t) = {} =>
                IsOneToOne(Splice(s, p, t))
<1> DEFINE a == SubSeq(s, 1, p)
           b == SubSeq(s, p + 1, Len(s))
<1>1. /\ a \in Seq(S) /\ b \in Seq(S)
      /\ Elems(a) \cup Elems(b) = Elems(s)
      /\ IsOneToOne(s) => /\ IsOneToOne(a) /\ IsOneToOne(b)
                          /\ Elems(a) \cap Elems(b) = {}
  BY CutProperties
<1> HIDE DEF a, b
<1>2. a \o t \in Seq(S) /\ Elems(a \o t) = Elems(a) \cup Elems(t)
  BY <1>1, ElemsOfConcat, ConcatProperties
<1>3. /\ (a \o t) \o b \in Seq(S)
      /\ Elems((a \o t) \o b) = Elems(a \o t) \cup Elems(b)
  <2>1. PICK c \in Seq(S) : c = a \o t
    BY <1>2
  <2>2. c \o b \in Seq(S) /\ Elems(c \o b) = Elems(c) \cup Elems(b)
    BY <1>1, ElemsOfConcat, ConcatProperties
  <2> QED BY <2>1, <2>2
<1>4. Splice(s, p, t) = (a \o t) \o b
  BY DEF Splice, a, b
<1>5. ASSUME IsOneToOne(s), IsOneToOne(t), Elems(s) \cap Elems(t) = {}
      PROVE  IsOneToOne((a \o t) \o b)
  <2>1. IsOneToOne(a \o t)
    <3>1. Elems(a) \cap Elems(t) = {}
      BY <1>1, <1>5
    <3> QED BY <3>1, <1>1, <1>5, OneToOneConcat
  <2>2. Elems(a \o t) \cap Elems(b) = {}
    BY <1>1, <1>2, <1>5
  <2> QED BY <2>1, <2>2, <1>1, <1>2, <1>5, OneToOneConcat
<1> QED BY <1>1, <1>2, <1>3, <1>4, <1>5

(* Without(s, S) drops the elements in S and nothing else. *)
LEMMA WithoutProperties ==
    ASSUME NEW T, NEW s \in Seq(T), NEW S
    PROVE  /\ Without(s, S) \in Seq(T)
           /\ Elems(Without(s, S)) = Elems(s) \ S
           /\ IsOneToOne(s) => IsOneToOne(Without(s, S))
<1> DEFINE K == {i \in 1..Len(s) : s[i] \notin S}
<1>1. K \in SUBSET (1..Len(s)) /\ DOMAIN s = 1..Len(s)
  BY LenProperties
<1>2. Without(s, S) = Keep(s, K)
  BY DEF Without
<1>3. Elems(s) \ S = {s[i] : i \in K}
  BY <1>1 DEF Elems
<1> HIDE DEF K
<1>4. /\ Keep(s, K) \in Seq(T)
      /\ Elems(Keep(s, K)) = {s[i] : i \in K}
      /\ IsOneToOne(s) => IsOneToOne(Keep(s, K))
  BY <1>1, KeepProperties
<1> QED BY <1>2, <1>3, <1>4

(* The position of an element. *)
LEMMA PosOfProperties ==
    ASSUME NEW s, NEW e \in Elems(s)
    PROVE  PosOf(s, e) \in DOMAIN s /\ s[PosOf(s, e)] = e
<1>1. \E i \in DOMAIN s : s[i] = e
  BY DEF Elems
<1> QED BY <1>1 DEF PosOf

(* In a sequence without repetitions the position of the j-th element is j. *)
LEMMA PosOfElement ==
    ASSUME NEW s, IsOneToOne(s), NEW j \in DOMAIN s
    PROVE  PosOf(s, s[j]) = j
<1>1. s[j] \in Elems(s)
  BY DEF Elems
<1>2. PosOf(s, s[j]) \in DOMAIN s /\ s[PosOf(s, s[j])] = s[j]
  BY <1>1, PosOfProperties
<1> QED BY <1>2 DEF IsOneToOne
-----------------------------------------------------------------------------
(* Manifests. *)

(* A record with the fields of a manifest, of the right kinds. *)
IsManifest(m) ==
    /\ m = [byId |-> m.byId, byNode |-> m.byNode, order |-> m.order, next |-> m.next]
    /\ m.byId = [i \in DOMAIN m.byId |-> m.byId[i]]
    /\ m.byNode = [n \in DOMAIN m.byNode |-> m.byNode[n]]
    /\ m.order \in Seq(Nat \ {0})
    /\ m.next \in Nat \ {0}

(* The manifest m with the IDs bound to the nodes and the counter at k. *)
Bound(m, ids, nodes, k) == [BindAll(m, ids, nodes) EXCEPT !.next = k]

(* The IDs and nodes are new, they pair off, and k is past the IDs. *)
CanBind(m, ids, nodes, k) ==
    /\ IsManifest(m) /\ Sound(m)
    /\ ids \in Seq(Nat \ {0}) /\ nodes \in Seq(Nat) /\ Len(ids) = Len(nodes)
    /\ IsOneToOne(ids) /\ IsOneToOne(nodes)
    /\ Elems(ids) \cap Ids(m) = {} /\ Elems(nodes) \cap DOMAIN m.byNode = {}
    /\ k \in Nat \ {0} /\ m.next <= k /\ \A i \in Elems(ids) : i < k

(* The manifest r says what m says, and the new pairs. *)
SaysMore(r, m, ids, nodes, k) ==
    /\ IsManifest(r) /\ Sound(r)
    /\ Ids(r) = Ids(m) \cup Elems(ids)
    /\ DOMAIN r.byNode = DOMAIN m.byNode \cup Elems(nodes)
    /\ r.next = k
    /\ \A i \in Ids(m) : r.byId[i] = m.byId[i]
    /\ \A j \in DOMAIN ids : r.byId[ids[j]] = nodes[j]

(* Binding new IDs to new nodes, with the counter moved past the IDs,      *)
(* leaves a sound manifest that says what it said and the new pairs.       *)
LEMMA BindAllSound ==
    ASSUME NEW m, NEW ids, NEW nodes, NEW k, CanBind(m, ids, nodes, k)
    PROVE  SaysMore(Bound(m, ids, nodes, k), m, ids, nodes, k)
<1> SUFFICES ASSUME IsManifest(m), Sound(m),
                    ids \in Seq(Nat \ {0}), nodes \in Seq(Nat), Len(ids) = Len(nodes),
                    IsOneToOne(ids), IsOneToOne(nodes),
                    Elems(ids) \cap Ids(m) = {}, Elems(nodes) \cap DOMAIN m.byNode = {},
                    k \in Nat \ {0}, m.next <= k, \A i \in Elems(ids) : i < k,
                    NEW r, r = Bound(m, ids, nodes, k)
             PROVE  SaysMore(r, m, ids, nodes, k)
  BY DEF CanBind
<1> DEFINE byId == [i \in Ids(m) \cup Elems(ids) |->
                      IF i \in Elems(ids) THEN nodes[PosOf(ids, i)] ELSE m.byId[i]]
           byNode == [n \in DOMAIN m.byNode \cup Elems(nodes) |->
                      IF n \in Elems(nodes) THEN ids[PosOf(nodes, n)] ELSE m.byNode[n]]
           order == m.order \o ids
<1>1. r = [byId |-> byId, byNode |-> byNode, order |-> order, next |-> k]
  BY DEF Bound, BindAll, IsManifest
<1>2. r.byId = byId /\ r.byNode = byNode /\ r.order = order /\ r.next = k
  <2> HIDE DEF byId, byNode, order
  <2> QED BY <1>1
<1>3. DOMAIN ids = 1..Len(ids) /\ DOMAIN nodes = DOMAIN ids
  BY LenProperties
<1>4. m.order \in Seq(Nat \ {0}) /\ m.next \in Nat \ {0}
  BY DEF IsManifest
<1>5. /\ \A i \in Ids(m) : /\ i \in 1..(m.next - 1)
                           /\ m.byId[i] \in DOMAIN m.byNode
                           /\ m.byNode[m.byId[i]] = i
      /\ \A n \in DOMAIN m.byNode : /\ m.byNode[n] \in Ids(m)
                                    /\ m.byId[m.byNode[n]] = n
      /\ Elems(m.order) = Ids(m)
      /\ IsOneToOne(m.order)
  BY DEF Sound
<1>6. Elems(order) = Ids(m) \cup Elems(ids)
  BY <1>4, <1>5, ElemsOfConcat
<1>7. IsOneToOne(order) /\ order \in Seq(Nat \ {0})
  BY <1>4, <1>5, OneToOneConcat, ConcatProperties
<1>8. \A j \in DOMAIN ids : /\ ids[j] \in Elems(ids) /\ nodes[j] \in Elems(nodes)
                            /\ byId[ids[j]] = nodes[j]
                            /\ byNode[nodes[j]] = ids[j]
  <2> SUFFICES ASSUME NEW j \in DOMAIN ids
               PROVE  /\ ids[j] \in Elems(ids) /\ nodes[j] \in Elems(nodes)
                      /\ byId[ids[j]] = nodes[j]
                      /\ byNode[nodes[j]] = ids[j]
    OBVIOUS
  <2>1. ids[j] \in Elems(ids) /\ nodes[j] \in Elems(nodes)
    BY <1>3 DEF Elems
  <2>2. PosOf(ids, ids[j]) = j /\ PosOf(nodes, nodes[j]) = j
    BY <1>3, PosOfElement
  <2> QED BY <2>1, <2>2
<1>9. \A i \in Ids(m) : i \notin Elems(ids) /\ byId[i] = m.byId[i]
  OBVIOUS
<1>10. \A n \in DOMAIN m.byNode : n \notin Elems(nodes) /\ byNode[n] = m.byNode[n]
  OBVIOUS
<1>11. /\ \A i \in Elems(ids) : \E j \in DOMAIN ids : i = ids[j]
       /\ \A n \in Elems(nodes) : \E j \in DOMAIN ids : n = nodes[j]
  BY <1>3 DEF Elems
<1>12. DOMAIN byId = Ids(m) \cup Elems(ids) /\ DOMAIN byNode = DOMAIN m.byNode \cup Elems(nodes)
  OBVIOUS
<1>13. IsManifest(r)
  <2>1. r.byId = [i \in DOMAIN r.byId |-> r.byId[i]]
    BY <1>2
  <2>2. r.byNode = [n \in DOMAIN r.byNode |-> r.byNode[n]]
    BY <1>2
  <2>3. r = [byId |-> r.byId, byNode |-> r.byNode, order |-> r.order, next |-> r.next]
    BY <1>1
  <2> QED BY <1>2, <1>7, <2>1, <2>2, <2>3 DEF IsManifest
<1> HIDE DEF byId, byNode, order
<1>14. ASSUME NEW i \in Ids(m) \cup Elems(ids)
       PROVE  i \in 1..(k - 1) /\ byId[i] \in DOMAIN byNode /\ byNode[byId[i]] = i
  <2>1. CASE i \in Ids(m)
    <3>1. i \in 1..(k - 1)
      <4>1. \A a, b \in Nat : a <= b => 1..(a - 1) \subseteq 1..(b - 1)
        OBVIOUS
      <4> QED BY <2>1, <1>4, <1>5, <4>1
    <3>2. byId[i] = m.byId[i] /\ m.byId[i] \in DOMAIN m.byNode /\ m.byNode[m.byId[i]] = i
      BY <2>1, <1>5, <1>9
    <3> QED BY <3>1, <3>2, <1>10, <1>12
  <2>2. CASE i \in Elems(ids)
    <3>1. PICK j \in DOMAIN ids : i = ids[j]
      BY <2>2, <1>11
    <3>2. i \in Nat \ {0}
      BY <1>3, <3>1, ElementOfSeq
    <3>3. i \in 1..(k - 1)
      <4>1. i < k
        BY <2>2
      <4> QED BY <4>1, <3>2
    <3> QED BY <3>1, <3>3, <1>8, <1>12
  <2> QED BY <2>1, <2>2
<1>15. ASSUME NEW n \in DOMAIN m.byNode \cup Elems(nodes)
       PROVE  byNode[n] \in Ids(m) \cup Elems(ids) /\ byId[byNode[n]] = n
  <2>1. CASE n \in DOMAIN m.byNode
    BY <2>1, <1>5, <1>9, <1>10
  <2>2. CASE n \in Elems(nodes)
    <3>1. PICK j \in DOMAIN ids : n = nodes[j]
      BY <2>2, <1>11
    <3>2. byNode[n] = ids[j] /\ ids[j] \in Elems(ids) /\ byId[ids[j]] = n
      BY <3>1, <1>8
    <3> QED BY <3>2
  <2> QED BY <2>1, <2>2
<1>16. Sound(r)
  <2>1. Ids(r) = Ids(m) \cup Elems(ids)
    BY <1>2, <1>12 DEF Ids
  <2> QED BY <2>1, <1>2, <1>6, <1>7, <1>12, <1>14, <1>15 DEF Sound
<1>17. Ids(r) = Ids(m) \cup Elems(ids)
  BY <1>2, <1>12 DEF Ids
<1> QED BY <1>2, <1>8, <1>9, <1>12, <1>13, <1>16, <1>17 DEF SaysMore

(* The IDs that k calls of allocate() return. *)
LEMMA NextIdsProperties ==
    ASSUME NEW m, m.next \in Nat \ {0}, NEW k \in Nat
    PROVE  /\ NextIds(m, k) \in Seq(Nat \ {0})
           /\ Len(NextIds(m, k)) = k
           /\ IsOneToOne(NextIds(m, k))
           /\ Elems(NextIds(m, k)) = m.next..(m.next + k - 1)
<1> DEFINE s == [j \in 1..k |-> m.next + j - 1]
<1>1. NextIds(m, k) = s
  BY DEF NextIds
<1>2. \A j \in 1..k : m.next + j - 1 \in Nat \ {0}
  OBVIOUS
<1>3. s \in [1..k -> Nat \ {0}]
  BY <1>2
<1>4. s \in Seq(Nat \ {0}) /\ Len(s) = k /\ DOMAIN s = 1..k
  BY <1>3
<1>5. IsOneToOne(s)
  <2>1. \A i, j \in 1..k : m.next + i - 1 = m.next + j - 1 => i = j
    OBVIOUS
  <2> QED BY <2>1 DEF IsOneToOne
<1>6. Elems(s) = m.next..(m.next + k - 1)
  <2>1. ASSUME NEW x \in m.next..(m.next + k - 1) PROVE x \in Elems(s)
    <3>1. x - m.next + 1 \in 1..k /\ m.next + (x - m.next + 1) - 1 = x
      OBVIOUS
    <3> QED BY <3>1 DEF Elems
  <2>2. ASSUME NEW j \in 1..k PROVE s[j] \in m.next..(m.next + k - 1)
    OBVIOUS
  <2> QED BY <2>1, <2>2 DEF Elems
<1> QED BY <1>1, <1>4, <1>5, <1>6

(* Registering new nodes. *)
LEMMA BindNewSound ==
    ASSUME NEW m, IsManifest(m), Sound(m),
           NEW nodes \in Seq(Nat), IsOneToOne(nodes), Elems(nodes) \cap DOMAIN m.byNode = {},
           NEW r, r = BindNew(m, nodes)
    PROVE  /\ IsManifest(r) /\ Sound(r)
           /\ Ids(r) = Ids(m) \cup m.next..(m.next + Len(nodes) - 1)
           /\ DOMAIN r.byNode = DOMAIN m.byNode \cup Elems(nodes)
           /\ r.next = m.next + Len(nodes)
           /\ \A i \in Ids(m) : r.byId[i] = m.byId[i]
           /\ \A j \in 1..Len(nodes) : r.byId[m.next + j - 1] = nodes[j]
<1> DEFINE ids == NextIds(m, Len(nodes))
<1>1. Len(nodes) \in Nat /\ m.next \in Nat \ {0}
  BY LenProperties DEF IsManifest
<1>2. /\ ids \in Seq(Nat \ {0}) /\ Len(ids) = Len(nodes) /\ IsOneToOne(ids)
      /\ Elems(ids) = m.next..(m.next + Len(nodes) - 1)
  BY <1>1, NextIdsProperties
<1>3. PICK k \in Nat \ {0} : k = m.next + Len(nodes)
  BY <1>1
<1>4. Elems(ids) \cap Ids(m) = {}
  BY <1>1, <1>2 DEF Sound
<1>5. m.next <= k /\ \A i \in Elems(ids) : i < k
  BY <1>1, <1>2, <1>3
<1>6. r = Bound(m, ids, nodes, k)
  BY <1>3 DEF BindNew, Bound, BindAll, IsManifest
<1>7. DOMAIN ids = 1..Len(nodes) /\ \A j \in 1..Len(nodes) : ids[j] = m.next + j - 1
  BY <1>1 DEF NextIds
<1> HIDE DEF ids
<1>8. /\ IsManifest(r) /\ Sound(r)
      /\ Ids(r) = Ids(m) \cup Elems(ids)
      /\ DOMAIN r.byNode = DOMAIN m.byNode \cup Elems(nodes)
      /\ r.next = k
      /\ \A i \in Ids(m) : r.byId[i] = m.byId[i]
      /\ \A j \in DOMAIN ids : r.byId[ids[j]] = nodes[j]
  <2>1. CanBind(m, ids, nodes, k)
    BY <1>2, <1>4, <1>5 DEF CanBind
  <2>2. SaysMore(r, m, ids, nodes, k)
    BY <2>1, <1>6, BindAllSound
  <2> QED BY <2>2 DEF SaysMore
<1> QED BY <1>2, <1>3, <1>7, <1>8

(* Invalidating a set of IDs. *)
LEMMA InvalidateAllSound ==
    ASSUME NEW m, IsManifest(m), Sound(m), NEW ids,
           NEW r, r = InvalidateAll(m, ids)
    PROVE  /\ IsManifest(r) /\ Sound(r)
           /\ Ids(r) = Ids(m) \ ids
           /\ DOMAIN r.byNode \subseteq DOMAIN m.byNode
           /\ r.next = m.next
           /\ \A i \in Ids(r) : r.byId[i] = m.byId[i]
<1> DEFINE gone == Ids(m) \cap ids
           freed == {m.byId[i] : i \in gone}
           byId == [i \in Ids(m) \ ids |-> m.byId[i]]
           byNode == [n \in DOMAIN m.byNode \ freed |-> m.byNode[n]]
           order == Without(m.order, gone)
<1>1. r = [byId |-> byId, byNode |-> byNode, order |-> order, next |-> m.next]
  BY DEF InvalidateAll, IsManifest
<1>2. r.byId = byId /\ r.byNode = byNode /\ r.order = order /\ r.next = m.next
  BY <1>1
<1>3. m.order \in Seq(Nat \ {0}) /\ m.next \in Nat \ {0}
  BY DEF IsManifest
<1>4. /\ \A i \in Ids(m) : /\ i \in 1..(m.next - 1)
                           /\ m.byId[i] \in DOMAIN m.byNode
                           /\ m.byNode[m.byId[i]] = i
      /\ \A n \in DOMAIN m.byNode : /\ m.byNode[n] \in Ids(m)
                                    /\ m.byId[m.byNode[n]] = n
      /\ Elems(m.order) = Ids(m)
      /\ IsOneToOne(m.order)
  BY DEF Sound
<1>5. /\ order \in Seq(Nat \ {0}) /\ IsOneToOne(order)
      /\ Elems(order) = Ids(m) \ ids
  <2>1. /\ order \in Seq(Nat \ {0}) /\ IsOneToOne(order)
        /\ Elems(order) = Elems(m.order) \ gone
    BY <1>3, <1>4, WithoutProperties
  <2> QED BY <2>1, <1>4
<1>6. IsManifest(r)
  <2>1. r.byId = [i \in DOMAIN r.byId |-> r.byId[i]]
    BY <1>2
  <2>2. r.byNode = [n \in DOMAIN r.byNode |-> r.byNode[n]]
    BY <1>2
  <2>3. r = [byId |-> r.byId, byNode |-> r.byNode, order |-> r.order, next |-> r.next]
    BY <1>1
  <2> QED BY <1>2, <1>3, <1>5, <2>1, <2>2, <2>3 DEF IsManifest
<1>7. Ids(r) = Ids(m) \ ids
  BY <1>2 DEF Ids
<1>8. DOMAIN r.byNode = DOMAIN m.byNode \ freed
  BY <1>2
<1>9. ASSUME NEW i \in Ids(m) \ ids
      PROVE  m.byId[i] \in DOMAIN m.byNode \ freed
  <2>1. m.byId[i] \in DOMAIN m.byNode /\ m.byNode[m.byId[i]] = i
    BY <1>4
  <2>2. ASSUME m.byId[i] \in freed PROVE FALSE
    <3>1. PICK j \in gone : m.byId[i] = m.byId[j]
      BY <2>2
    <3>2. m.byNode[m.byId[j]] = j
      BY <1>4
    <3>3. i = j
      BY <2>1, <3>1, <3>2
    <3> QED BY <3>3
  <2> QED BY <2>1, <2>2
<1>10. ASSUME NEW n \in DOMAIN m.byNode \ freed
       PROVE  m.byNode[n] \in Ids(m) \ ids
  <2>1. m.byNode[n] \in Ids(m) /\ m.byId[m.byNode[n]] = n
    BY <1>4
  <2>2. ASSUME m.byNode[n] \in ids PROVE FALSE
    <3>1. m.byNode[n] \in gone
      BY <2>1, <2>2
    <3>2. n \in freed
      BY <2>1, <3>1
    <3> QED BY <3>2
  <2> QED BY <2>1, <2>2
<1>11. Sound(r)
  <2>1. \A i \in Ids(r) : /\ i \in 1..(r.next - 1)
                          /\ r.byId[i] \in DOMAIN r.byNode
                          /\ r.byNode[r.byId[i]] = i
    BY <1>2, <1>4, <1>7, <1>8, <1>9
  <2>2. \A n \in DOMAIN r.byNode : r.byNode[n] \in Ids(r) /\ r.byId[r.byNode[n]] = n
    BY <1>2, <1>4, <1>7, <1>8, <1>10
  <2> QED BY <2>1, <2>2, <1>2, <1>5, <1>7 DEF Sound
<1> QED BY <1>2, <1>6, <1>7, <1>8, <1>11

(* The manifest of a document that has just been opened. *)
LEMMA EmptyManifestSound ==
    /\ IsManifest(EmptyManifest) /\ Sound(EmptyManifest)
    /\ Ids(EmptyManifest) = {} /\ DOMAIN EmptyManifest.byNode = {}
    /\ EmptyManifest.next = 1
<1> DEFINE e == EmptyManifest
<1>1. /\ e = [byId |-> e.byId, byNode |-> e.byNode, order |-> e.order, next |-> e.next]
      /\ e.order = <<>> /\ e.next = 1 /\ DOMAIN e.byId = {} /\ DOMAIN e.byNode = {}
      /\ e.byId = [i \in DOMAIN e.byId |-> e.byId[i]]
      /\ e.byNode = [n \in DOMAIN e.byNode |-> e.byNode[n]]
  BY DEF EmptyManifest
<1>2. IsManifest(e)
  BY <1>1, EmptySeq DEF IsManifest
<1>3. Sound(e)
  BY <1>1 DEF Sound, Ids, Elems, IsOneToOne
<1> QED BY <1>1, <1>2, <1>3 DEF Ids

(* The manifest a rollback builds. *)
LEMMA ReboundSound ==
    ASSUME NEW ids \in Seq(Nat \ {0}), NEW nodes \in Seq(Nat), Len(ids) = Len(nodes),
           IsOneToOne(ids), IsOneToOne(nodes),
           NEW next \in Nat \ {0}, \A i \in Elems(ids) : i < next,
           NEW r, r = Rebound(ids, nodes, next)
    PROVE  /\ IsManifest(r) /\ Sound(r)
           /\ Ids(r) = Elems(ids)
           /\ DOMAIN r.byNode = Elems(nodes)
           /\ r.next = next
           /\ \A j \in DOMAIN ids : r.byId[ids[j]] = nodes[j]
<1> DEFINE e == EmptyManifest
<1>1. IsManifest(e) /\ Sound(e) /\ Ids(e) = {} /\ DOMAIN e.byNode = {} /\ e.next <= next
  BY EmptyManifestSound
<1>2. r = Bound(e, ids, nodes, next)
  BY DEF Rebound, Bound
<1>3. Elems(ids) \cap Ids(e) = {} /\ Elems(nodes) \cap DOMAIN e.byNode = {}
  BY <1>1
<1> HIDE DEF e
<1>4. /\ IsManifest(r) /\ Sound(r)
      /\ Ids(r) = Ids(e) \cup Elems(ids)
      /\ DOMAIN r.byNode = DOMAIN e.byNode \cup Elems(nodes)
      /\ r.next = next
      /\ \A j \in DOMAIN ids : r.byId[ids[j]] = nodes[j]
  <2>1. CanBind(e, ids, nodes, next)
    BY <1>1, <1>3 DEF CanBind
  <2>2. SaysMore(r, e, ids, nodes, next)
    BY <2>1, <1>2, BindAllSound
  <2> QED BY <2>2 DEF SaysMore
<1> QED BY <1>1, <1>4

-----------------------------------------------------------------------------
(* The loops that bind and invalidate, against the closed forms. *)

(* Two sound manifests are the same if they bind the same IDs to the same   *)
(* nodes, in the same order, and have the same counter.                     *)
Alike(q, r) ==
    /\ Ids(q) = Ids(r) /\ \A i \in Ids(q) : q.byId[i] = r.byId[i]
    /\ q.order = r.order /\ q.next = r.next

LEMMA SameManifest ==
    ASSUME NEW q, NEW r, IsManifest(q), IsManifest(r), Sound(q), Sound(r), Alike(q, r)
    PROVE  q = r
<1>1. q.byId = r.byId
  BY DEF IsManifest, Alike, Ids
<1>2. DOMAIN q.byNode \subseteq DOMAIN r.byNode
  BY DEF Sound, Alike
<1>3. DOMAIN r.byNode \subseteq DOMAIN q.byNode
  BY DEF Sound, Alike
<1>4. ASSUME NEW n \in DOMAIN q.byNode PROVE q.byNode[n] = r.byNode[n]
  <2>1. q.byNode[n] \in Ids(q) /\ q.byId[q.byNode[n]] = n
    BY DEF Sound
  <2>2. r.byNode[r.byId[q.byNode[n]]] = q.byNode[n]
    BY <2>1 DEF Sound, Alike
  <2> QED BY <1>1, <2>1, <2>2
<1>5. q.byNode = r.byNode
  <2>1. PICK f, g : f = q.byNode /\ g = r.byNode
    OBVIOUS
  <2>2. f = [n \in DOMAIN f |-> f[n]] /\ g = [n \in DOMAIN g |-> g[n]]
    BY <2>1 DEF IsManifest
  <2>3. DOMAIN f = DOMAIN g /\ \A n \in DOMAIN f : f[n] = g[n]
    BY <1>2, <1>3, <1>4, <2>1
  <2> QED BY <2>1, <2>2, <2>3
<1> QED BY <1>1, <1>5 DEF IsManifest, Alike

(* A new element at the end of a sequence without repetitions. *)
LEMMA OneMoreElement ==
    ASSUME NEW S, NEW s \in Seq(S), NEW x \in S
    PROVE  /\ Elems(Append(s, x)) = Elems(s) \cup {x}
           /\ Append(s, x) = s \o <<x>>
           /\ IsOneToOne(Append(s, x)) => IsOneToOne(s) /\ x \notin Elems(s)
<1>1. PICK n \in Nat : n = Len(s)
  OBVIOUS
<1>2. PICK t : t = Append(s, x)
  OBVIOUS
<1>3. DOMAIN s = 1..n /\ DOMAIN t = 1..(n + 1) /\ t[n + 1] = x /\ \A i \in 1..n : t[i] = s[i]
  BY <1>1, <1>2
<1>4. Elems(t) = Elems(s) \cup {x}
  <2>1. ASSUME NEW y \in Elems(t) PROVE y \in Elems(s) \cup {x}
    <3>1. PICK i \in 1..(n + 1) : y = t[i]
      BY <1>3 DEF Elems
    <3>2. i = n + 1 \/ i \in 1..n
      OBVIOUS
    <3> QED BY <1>3, <3>1, <3>2 DEF Elems
  <2>2. ASSUME NEW y \in Elems(s) PROVE y \in Elems(t)
    <3>1. PICK i \in 1..n : y = s[i]
      BY <1>3 DEF Elems
    <3>2. i \in 1..(n + 1)
      OBVIOUS
    <3> QED BY <1>3, <3>1, <3>2 DEF Elems
  <2>3. n + 1 \in 1..(n + 1)
    OBVIOUS
  <2>4. x \in Elems(t)
    BY <1>3, <2>3 DEF Elems
  <2> QED BY <2>1, <2>2, <2>4
<1>5. t = s \o <<x>>
  BY <1>2, AppendIsConcat
<1>6. ASSUME IsOneToOne(t) PROVE IsOneToOne(s) /\ x \notin Elems(s)
  <2>1. ASSUME NEW i \in 1..n, NEW j \in 1..n, s[i] = s[j] PROVE i = j
    <3>1. i \in 1..(n + 1) /\ j \in 1..(n + 1) /\ t[i] = t[j]
      BY <1>3, <2>1
    <3> QED BY <1>3, <1>6, <3>1 DEF IsOneToOne
  <2>2. ASSUME NEW i \in 1..n, s[i] = x PROVE FALSE
    <3>1. i \in 1..(n + 1) /\ n + 1 \in 1..(n + 1) /\ t[i] = t[n + 1] /\ i # n + 1
      BY <1>3, <2>2
    <3> QED BY <1>3, <1>6, <3>1 DEF IsOneToOne
  <2> QED BY <1>3, <2>1, <2>2 DEF IsOneToOne, Elems
<1> QED BY <1>2, <1>4, <1>5, <1>6

(* A sequence of one element. *)
LEMMA OneElement ==
    ASSUME NEW S, NEW x \in S
    PROVE  /\ <<x>> \in Seq(S) /\ Len(<<x>>) = 1 /\ DOMAIN <<x>> = {1} /\ <<x>>[1] = x
           /\ Elems(<<x>>) = {x} /\ IsOneToOne(<<x>>)
<1>1. PICK s : s = <<x>>
  OBVIOUS
<1>2. s \in Seq(S) /\ Len(s) = 1 /\ DOMAIN s = {1} /\ s[1] = x
  BY <1>1
<1>3. Elems(s) = {x} /\ IsOneToOne(s)
  BY <1>2 DEF Elems, IsOneToOne
<1> QED BY <1>1, <1>2, <1>3

(* The fields of a manifest with more pairs. *)
IsBound(r, m, ids, nodes, k) ==
    r = [byId |-> [i \in Ids(m) \cup Elems(ids) |->
                     IF i \in Elems(ids) THEN nodes[PosOf(ids, i)] ELSE m.byId[i]],
         byNode |-> [n \in DOMAIN m.byNode \cup Elems(nodes) |->
                     IF n \in Elems(nodes) THEN ids[PosOf(nodes, n)] ELSE m.byNode[n]],
         order |-> m.order \o ids, next |-> k]

LEMMA BoundIs ==
    ASSUME NEW m, IsManifest(m), NEW ids, NEW nodes, NEW k \in Nat \ {0},
           NEW r, r = Bound(m, ids, nodes, k)
    PROVE  IsBound(r, m, ids, nodes, k)
  BY DEF Bound, BindAll, IsManifest, IsBound

(* One more element at the end of the second of two sequences. *)
JoinsBehind(s, t, x) == (s \o t) \o <<x>> = s \o Append(t, x)

LEMMA OneMoreBehind ==
    ASSUME NEW S, NEW s \in Seq(S), NEW t \in Seq(S), NEW x \in S
    PROVE  JoinsBehind(s, t, x)
<1>1. PICK u : u = <<x>>
  OBVIOUS
<1>2. u \in Seq(S) /\ Append(t, x) = t \o u
  BY <1>1, OneElement, OneMoreElement
<1>3. (s \o t) \o u = s \o (t \o u)
  BY <1>2, ConcatAssociative
<1> QED BY <1>1, <1>2, <1>3 DEF JoinsBehind

(* Binding one more pair. *)
LEMMA BindOneMore ==
    ASSUME NEW m, NEW ids \in Seq(Nat \ {0}), NEW nodes \in Seq(Nat),
           NEW id \in Nat \ {0}, NEW node \in Nat, NEW k, Len(ids) = Len(nodes),
           CanBind(m, Append(ids, id), Append(nodes, node), k)
    PROVE  Bind(Bound(m, ids, nodes, k), id, node)
             = Bound(m, Append(ids, id), Append(nodes, node), k)
<1>1. PICK is, ns : is = Append(ids, id) /\ ns = Append(nodes, node)
  OBVIOUS
<1>20. PICK P : P = Nat \ {0}
  OBVIOUS
<1>21. ids \in Seq(P) /\ id \in P
  BY <1>20
<1>2. /\ Elems(is) = Elems(ids) \cup {id} /\ is = ids \o <<id>>
      /\ IsOneToOne(is) => IsOneToOne(ids) /\ id \notin Elems(ids)
  BY <1>1, <1>21, OneMoreElement
<1>3. /\ Elems(ns) = Elems(nodes) \cup {node} /\ ns = nodes \o <<node>>
      /\ IsOneToOne(ns) => IsOneToOne(nodes) /\ node \notin Elems(nodes)
  BY <1>1, OneMoreElement
<1>4. CanBind(m, is, ns, k)
  BY <1>1
<1>5. CanBind(m, ids, nodes, k)
  BY <1>2, <1>3, <1>4 DEF CanBind
<1>6. PICK p, q, r : /\ p = Bound(m, ids, nodes, k) /\ q = Bound(m, is, ns, k)
                     /\ r = Bind(p, id, node)
  OBVIOUS
<1>7. SaysMore(p, m, ids, nodes, k) /\ SaysMore(q, m, is, ns, k)
  BY <1>4, <1>5, <1>6, BindAllSound
<1>8. id \notin Ids(p) /\ node \notin DOMAIN p.byNode /\ IsManifest(p) /\ Sound(p) /\ p.next = k
  BY <1>2, <1>3, <1>4, <1>7 DEF SaysMore, CanBind
<1>9. PICK u, v : u = <<id>> /\ v = <<node>>
  OBVIOUS
<1>10. /\ u \in Seq(Nat \ {0}) /\ v \in Seq(Nat) /\ Len(u) = 1 /\ Len(v) = 1
       /\ Elems(u) = {id} /\ Elems(v) = {node} /\ IsOneToOne(u) /\ IsOneToOne(v)
       /\ DOMAIN u = {1} /\ DOMAIN v = {1} /\ u[1] = id /\ v[1] = node
  BY <1>9, OneElement
<1>11. id < k
  BY <1>2, <1>4 DEF CanBind
<1>12. CanBind(p, u, v, k)
  BY <1>4, <1>8, <1>10, <1>11 DEF CanBind
<1>13. r = Bound(p, u, v, k)
  <2>1. PosOf(u, id) = 1 /\ PosOf(v, node) = 1
    BY <1>10, PosOfElement
  <2>2. r = [byId |-> [i \in Ids(p) \cup {id} |-> IF i = id THEN node ELSE p.byId[i]],
             byNode |-> [n \in DOMAIN p.byNode \cup {node} |->
                            IF n = node THEN id ELSE p.byNode[n]],
             order |-> Append(p.order, id), next |-> p.next]
    BY <1>6, <1>8 DEF Bind, IsManifest
  <2>3. Bound(p, u, v, k) =
            [byId |-> [i \in Ids(p) \cup {id} |-> IF i = id THEN v[1] ELSE p.byId[i]],
             byNode |-> [n \in DOMAIN p.byNode \cup {node} |->
                            IF n = node THEN u[1] ELSE p.byNode[n]],
             order |-> p.order \o u, next |-> k]
    <3>1. Bound(p, u, v, k) =
            [byId |-> [i \in Ids(p) \cup Elems(u) |->
                          IF i \in Elems(u) THEN v[PosOf(u, i)] ELSE p.byId[i]],
             byNode |-> [n \in DOMAIN p.byNode \cup Elems(v) |->
                            IF n \in Elems(v) THEN u[PosOf(v, n)] ELSE p.byNode[n]],
             order |-> p.order \o u, next |-> k]
      <4>1. k \in Nat \ {0}
        BY <1>4 DEF CanBind
      <4>2. PICK b : b = Bound(p, u, v, k)
        OBVIOUS
      <4>3. IsManifest(p)
        BY <1>8
      <4>4. IsBound(b, p, u, v, k)
        BY <4>1, <4>2, <4>3, BoundIs
      <4> QED BY <4>2, <4>4 DEF IsBound
    <3>2. [i \in Ids(p) \cup Elems(u) |->
                          IF i \in Elems(u) THEN v[PosOf(u, i)] ELSE p.byId[i]]
            = [i \in Ids(p) \cup {id} |-> IF i = id THEN v[1] ELSE p.byId[i]]
      BY <1>10, <2>1
    <3>3. [n \in DOMAIN p.byNode \cup Elems(v) |->
                            IF n \in Elems(v) THEN u[PosOf(v, n)] ELSE p.byNode[n]]
            = [n \in DOMAIN p.byNode \cup {node} |-> IF n = node THEN u[1] ELSE p.byNode[n]]
      BY <1>10, <2>1
    <3> QED BY <3>1, <3>2, <3>3
  <2>4. Append(p.order, id) = p.order \o u
    <3>1. p.order \in Seq(P)
      BY <1>8, <1>20 DEF IsManifest
    <3> QED BY <1>9, <1>21, <3>1, OneMoreElement
  <2> QED BY <1>8, <1>10, <2>2, <2>3, <2>4
<1>14. SaysMore(r, p, u, v, k)
  BY <1>12, <1>13, BindAllSound
<1>15. r.order = q.order
  <2>1. p.order = m.order \o ids /\ q.order = m.order \o is
    BY <1>4, <1>6 DEF Bound, BindAll, CanBind, IsManifest
  <2>2. r.order = p.order \o u
    BY <1>8, <1>13 DEF Bound, BindAll, IsManifest
  <2>3. m.order \in Seq(Nat \ {0})
    BY <1>4 DEF CanBind, IsManifest
  <2>4. (m.order \o ids) \o u = m.order \o is
    <3>1. PICK o : o = m.order
      OBVIOUS
    <3>2. o \in Seq(P)
      BY <1>20, <2>3, <3>1
    <3>3. (o \o ids) \o <<id>> = o \o Append(ids, id)
      <4>1. JoinsBehind(o, ids, id)
        BY <1>21, <3>2, OneMoreBehind
      <4> QED BY <4>1 DEF JoinsBehind
    <3> QED BY <1>1, <1>9, <3>1, <3>3
  <2> QED BY <2>1, <2>2, <2>4
<1>16. Alike(r, q)
  <2>1. Ids(r) = Ids(q) /\ r.next = q.next
    BY <1>2, <1>7, <1>10, <1>14 DEF SaysMore
  <2>2. ASSUME NEW i \in Ids(m) PROVE r.byId[i] = q.byId[i]
    BY <1>7, <1>14 DEF SaysMore
  <2>3. ASSUME NEW j \in DOMAIN ids PROVE r.byId[ids[j]] = q.byId[ids[j]]
    <3>1. j \in DOMAIN is /\ is[j] = ids[j] /\ ns[j] = nodes[j]
      BY <1>1
    <3>2. ids[j] \in Elems(ids)
      BY DEF Elems
    <3> QED BY <1>7, <1>14, <3>1, <3>2 DEF SaysMore
  <2>4. r.byId[id] = q.byId[id]
    <3>1. Len(is) \in DOMAIN is /\ is[Len(is)] = id /\ ns[Len(is)] = node
      BY <1>1
    <3>2. r.byId[u[1]] = v[1] /\ q.byId[is[Len(is)]] = ns[Len(is)]
      BY <1>7, <1>10, <1>14, <3>1 DEF SaysMore
    <3> QED BY <1>10, <3>1, <3>2
  <2>5. ASSUME NEW i \in Ids(q) PROVE r.byId[i] = q.byId[i]
    <3>1. i \in Ids(m) \/ i \in Elems(ids) \/ i = id
      BY <1>2, <1>7 DEF SaysMore
    <3> QED BY <2>2, <2>3, <2>4, <3>1 DEF Elems
  <2> QED BY <1>15, <2>1, <2>5 DEF Alike
<1> QED BY <1>1, <1>6, <1>7, <1>14, <1>16, SameManifest DEF SaysMore

(* No pair, no change. *)
LEMMA BindNone ==
    ASSUME NEW m, IsManifest(m), Sound(m)
    PROVE  BindNew(m, <<>>) = m
<1>1. PICK e, r : e = <<>> /\ r = BindNew(m, e)
  OBVIOUS
<1>2. e \in Seq(Nat) /\ Len(e) = 0 /\ Elems(e) = {} /\ IsOneToOne(e)
  BY <1>1 DEF Elems, IsOneToOne
<1>3. m.next \in Nat \ {0} /\ m.order \in Seq(Nat \ {0})
  BY DEF IsManifest
<1>4. /\ IsManifest(r) /\ Sound(r)
      /\ Ids(r) = Ids(m) \cup m.next..(m.next + Len(e) - 1)
      /\ r.next = m.next + Len(e)
      /\ \A i \in Ids(m) : r.byId[i] = m.byId[i]
  <2>1. Elems(e) \cap DOMAIN m.byNode = {}
    BY <1>2
  <2>2. e \in Seq(Nat) /\ IsOneToOne(e) /\ r = BindNew(m, e)
    BY <1>1, <1>2
  <2> QED BY <2>1, <2>2, BindNewSound
<1>5. Ids(r) = Ids(m) /\ r.next = m.next
  <2>1. m.next + Len(e) = m.next /\ m.next..(m.next + Len(e) - 1) = {}
    BY <1>2, <1>3
  <2> QED BY <1>4, <2>1
<1>6. NextIds(m, 0) = <<>>
  BY <1>3 DEF NextIds
<1>7. r.order = m.order
  <2>1. r.order = m.order \o <<>>
    BY <1>1, <1>2, <1>6 DEF BindNew, BindAll, IsManifest
  <2> QED BY <1>3, <2>1
<1>8. Alike(r, m)
  BY <1>4, <1>5, <1>7 DEF Alike
<1> QED BY <1>1, <1>4, <1>8, SameManifest

(* One turn of the loop that registers new paragraphs. *)
LEMMA BindTurn ==
    ASSUME NEW m, IsManifest(m), Sound(m), NEW s \in Seq(Nat), NEW x \in Nat,
           IsOneToOne(Append(s, x)), Elems(Append(s, x)) \cap DOMAIN m.byNode = {},
           NEW b, b = BindNew(m, s)
    PROVE  Bind(Allocate(b), b.next, x) = BindNew(m, Append(s, x))
<1>15. PICK j \in Nat : j = Len(s)
  BY LenProperties
<1>16. PICK q : q = m.next
  OBVIOUS
<1>1. j = Len(s) /\ q = m.next
  BY <1>15, <1>16
<1>2. q \in Nat \ {0}
  BY <1>1 DEF IsManifest
<1>3. PICK ids, is : ids = NextIds(m, j) /\ is = NextIds(m, j + 1)
  OBVIOUS
<1>4. /\ ids \in Seq(Nat \ {0}) /\ Len(ids) = j
      /\ is \in Seq(Nat \ {0}) /\ Len(is) = j + 1 /\ IsOneToOne(is)
      /\ Elems(is) = q..(q + (j + 1) - 1)
  <2>1. PICK n \in Nat : n = j + 1
    OBVIOUS
  <2>2. m.next \in Nat \ {0}
    BY <1>1, <1>2
  <2>3. NextIds(m, j) \in Seq(Nat \ {0}) /\ Len(NextIds(m, j)) = j
    BY <2>2, NextIdsProperties
  <2>4. /\ NextIds(m, n) \in Seq(Nat \ {0}) /\ Len(NextIds(m, n)) = n
        /\ IsOneToOne(NextIds(m, n)) /\ Elems(NextIds(m, n)) = m.next..(m.next + n - 1)
    BY <2>2, NextIdsProperties
  <2> QED BY <1>1, <1>3, <2>1, <2>3, <2>4
<1>5. PICK id, k, nodes : id = q + j /\ k = q + j + 1 /\ nodes = Append(s, x)
  OBVIOUS
<1>6. id \in Nat \ {0} /\ k \in Nat \ {0} /\ k = id + 1
  BY <1>2, <1>5
<1>7. is = Append(ids, id)
  <2>1. PICK P : P = Nat \ {0}
    OBVIOUS
  <2>2. is \in Seq(P) /\ Append(ids, id) \in Seq(P) /\ Len(Append(ids, id)) = j + 1
    BY <1>4, <1>6, <2>1
  <2>3. ASSUME NEW i \in 1..(j + 1) PROVE is[i] = Append(ids, id)[i]
    <3>1. is[i] = q + i - 1
      BY <1>1, <1>3 DEF NextIds
    <3>2. CASE i = j + 1
      <4>1. Append(ids, id)[i] = id
        BY <1>4, <3>2
      <4>2. q + i - 1 = q + j
        BY <1>2, <3>2
      <4> QED BY <1>1, <1>5, <3>1, <4>1, <4>2
    <3>3. CASE i # j + 1
      <4>1. i \in 1..j
        BY <3>3
      <4>2. Append(ids, id)[i] = ids[i]
        BY <1>4, <4>1
      <4>3. ids[i] = q + i - 1
        BY <1>1, <1>3, <4>1 DEF NextIds
      <4> QED BY <3>1, <4>2, <4>3
    <3> QED BY <3>2, <3>3
  <2> QED BY <1>4, <2>2, <2>3, SeqEqual
<1>8. nodes \in Seq(Nat) /\ Len(nodes) = j + 1
  BY <1>1, <1>5
<1>9. CanBind(m, is, nodes, k)
  <2>1. Elems(is) \cap Ids(m) = {} /\ q <= k /\ \A i \in Elems(is) : i < k
    BY <1>1, <1>2, <1>4, <1>5 DEF Sound
  <2> QED BY <1>1, <1>4, <1>5, <1>6, <1>8, <2>1 DEF CanBind
<1>10. Bind(Bound(m, ids, s, k), id, x) = Bound(m, is, nodes, k)
  BY <1>1, <1>4, <1>5, <1>6, <1>7, <1>9, BindOneMore
<1>11. BindNew(m, nodes) = Bound(m, is, nodes, k)
  <2>1. m.next + (j + 1) = k
    <3>1. q \in Nat /\ m.next = q /\ k = (q + j) + 1
      BY <1>1, <1>2, <1>5
    <3>2. q + (j + 1) = (q + j) + 1
      BY <3>1
    <3> QED BY <3>1, <3>2
  <2>2. BindAll(m, is, nodes).next = m.next
    BY DEF BindAll, IsManifest
  <2>3. NextIds(m, Len(nodes)) = is
    BY <1>3, <1>8
  <2> QED BY <1>8, <2>1, <2>2, <2>3 DEF BindNew, Bound
<1>12. b = Bound(m, ids, s, id)
  BY <1>1, <1>3, <1>5 DEF BindNew, Bound, BindAll, IsManifest
<1>13. Allocate(b) = Bound(m, ids, s, k) /\ b.next = id
  <2>1. PICK c : c = Bound(m, ids, s, k)
    OBVIOUS
  <2>2. IsBound(b, m, ids, s, id) /\ IsBound(c, m, ids, s, k)
    BY <1>6, <1>12, <2>1, BoundIs
  <2>3. PICK f, g, o : /\ b = [byId |-> f, byNode |-> g, order |-> o, next |-> id]
                       /\ c = [byId |-> f, byNode |-> g, order |-> o, next |-> k]
    BY <2>2 DEF IsBound
  <2>4. [b EXCEPT !.next = id + 1] = [byId |-> f, byNode |-> g, order |-> o, next |-> id + 1]
    BY <2>3
  <2>5. b.next = id
    BY <2>3
  <2> QED BY <1>6, <2>1, <2>3, <2>4, <2>5 DEF Allocate
<1> QED BY <1>5, <1>10, <1>11, <1>13

(* The first k elements, and one more. *)
LEMMA OneMoreOfThem ==
    ASSUME NEW S, NEW s \in Seq(S), NEW k \in 1..Len(s)
    PROVE  /\ SubSeq(s, 1, k) = Append(SubSeq(s, 1, k - 1), s[k])
           /\ SubSeq(s, 1, k) \in Seq(S) /\ SubSeq(s, 1, k - 1) \in Seq(S) /\ s[k] \in S
           /\ Len(SubSeq(s, 1, k)) = k /\ Len(SubSeq(s, 1, k - 1)) = k - 1
<1>1. PICK p, q, r : p = SubSeq(s, 1, k - 1) /\ q = SubSeq(s, 1, k) /\ r = Append(p, s[k])
  OBVIOUS
<1>2. s[k] \in S
  OBVIOUS
<1>3. p \in Seq(S) /\ Len(p) = k - 1 /\ \A i \in 1..(k - 1) : p[i] = s[i]
  BY <1>1
<1>4. q \in Seq(S) /\ Len(q) = k /\ \A i \in 1..k : q[i] = s[i]
  BY <1>1
<1>5. r \in Seq(S) /\ Len(r) = k /\ r[k] = s[k] /\ \A i \in 1..(k - 1) : r[i] = p[i]
  BY <1>1, <1>2, <1>3
<1>6. ASSUME NEW i \in 1..k PROVE q[i] = r[i]
  <2>1. i = k \/ i \in 1..(k - 1)
    OBVIOUS
  <2> QED BY <1>3, <1>4, <1>5, <2>1
<1>7. q = r
  BY <1>4, <1>5, <1>6, SeqEqual
<1> QED BY <1>1, <1>2, <1>3, <1>4, <1>7

(* The first elements of a sequence without repetitions. *)
LEMMA FirstOnesDiffer ==
    ASSUME NEW S, NEW s \in Seq(S), NEW k \in 0..Len(s)
    PROVE  /\ IsOneToOne(s) => IsOneToOne(SubSeq(s, 1, k))
           /\ Elems(SubSeq(s, 1, k)) \subseteq Elems(s)
<1>1. PICK q : q = SubSeq(s, 1, k)
  OBVIOUS
<1>2. q \in Seq(S) /\ Len(q) = k /\ \A i \in 1..k : q[i] = s[i]
  BY <1>1
<1>3. DOMAIN q = 1..k /\ DOMAIN s = 1..Len(s) /\ \A i \in 1..k : i \in 1..Len(s)
  BY <1>2
<1>4. IsOneToOne(s) => IsOneToOne(q)
  BY <1>2, <1>3 DEF IsOneToOne
<1>5. Elems(q) \subseteq Elems(s)
  BY <1>2, <1>3 DEF Elems
<1> QED BY <1>1, <1>4, <1>5

(* The loop of _register_new_paragraphs comes to BindNew. *)
LEMMA BindLoopIs ==
    ASSUME NEW m, IsManifest(m), Sound(m), NEW nodes \in Seq(Nat),
           IsOneToOne(nodes), Elems(nodes) \cap DOMAIN m.byNode = {}
    PROVE  BindLoop(m, nodes) = BindNew(m, nodes)
<1>1. PICK n \in Nat : n = Len(nodes)
  OBVIOUS
<1> DEFINE P(h) == h = [k \in 0..n |->
                        IF k = 0 THEN m ELSE Bind(Allocate(h[k - 1]), h[k - 1].next, nodes[k])]
<1>2. PICK f : f = [k \in 0..n |-> BindNew(m, SubSeq(nodes, 1, k))]
  OBVIOUS
<1>3. f[0] = m
  <2>1. SubSeq(nodes, 1, 0) = <<>>
    BY SubSeqEmpty
  <2> QED BY <1>2, <2>1, BindNone
<1>4. ASSUME NEW k \in 1..n
      PROVE  f[k] = Bind(Allocate(f[k - 1]), f[k - 1].next, nodes[k])
  <2>1. PICK s, t, x : s = SubSeq(nodes, 1, k - 1) /\ t = SubSeq(nodes, 1, k) /\ x = nodes[k]
    OBVIOUS
  <2>2. t = Append(s, x) /\ s \in Seq(Nat) /\ x \in Nat
    BY <1>1, <2>1, OneMoreOfThem
  <2>3. IsOneToOne(t) /\ Elems(t) \subseteq Elems(nodes)
    <3>1. k \in 0..Len(nodes)
      BY <1>1
    <3> QED BY <2>1, <3>1, FirstOnesDiffer
  <2>4. IsOneToOne(Append(s, x)) /\ Elems(Append(s, x)) \cap DOMAIN m.byNode = {}
    BY <2>2, <2>3
  <2>5. k - 1 \in 0..n /\ k \in 0..n
    OBVIOUS
  <2>6. PICK b : b = BindNew(m, s)
    OBVIOUS
  <2>7. Bind(Allocate(b), b.next, x) = BindNew(m, Append(s, x))
    BY <2>2, <2>4, <2>6, BindTurn
  <2>8. f[k - 1] = b /\ f[k] = BindNew(m, t)
    BY <1>2, <2>1, <2>5, <2>6
  <2> QED BY <2>1, <2>2, <2>7, <2>8
<1>5. P(f)
  <2>1. ASSUME NEW k \in 0..n
        PROVE  f[k] = IF k = 0 THEN m ELSE Bind(Allocate(f[k - 1]), f[k - 1].next, nodes[k])
    <3>1. k = 0 \/ k \in 1..n
      OBVIOUS
    <3> QED BY <1>3, <1>4, <3>1
  <2>2. f = [k \in 0..n |-> f[k]]
    BY <1>2
  <2> QED BY <2>1, <2>2, Zenon
<1>6. PICK h : h = CHOOSE u : P(u)
  OBVIOUS
<1>7. P(h)
  BY <1>5, <1>6
<1>8. BindLoop(m, nodes) = h[n]
  BY <1>1, <1>6 DEF BindLoop
<1>9. h[0] = f[0]
  BY <1>3, <1>7
<1>10. ASSUME NEW k \in 1..n, h[k - 1] = f[k - 1] PROVE h[k] = f[k]
  <2>1. h[k] = Bind(Allocate(h[k - 1]), h[k - 1].next, nodes[k])
    BY <1>7
  <2> QED BY <1>4, <1>10, <2>1
<1>11. h[n] = f[n]
  BY <1>9, <1>10, SameRun
<1>12. f[n] = BindNew(m, nodes)
  <2>1. SubSeq(nodes, 1, n) = nodes
    BY <1>1, SubSeqFull
  <2>2. n \in 0..n
    OBVIOUS
  <2> QED BY <1>2, <2>1, <2>2
<1> QED BY <1>8, <1>11, <1>12

(* J lists what K lists, with the j-th member left out. *)
ListsTheRest(J, K, j) ==
    /\ Cardinality(J) = Cardinality(K) - 1
    /\ \A k \in 1..(Cardinality(K) - 1) :
          Nth(J, k) = IF k < j THEN Nth(K, k) ELSE Nth(K, k + 1)

(* With its j-th member gone, the members of K after it move up by one. *)
LEMMA NthWithoutOne ==
    ASSUME NEW n \in Nat, NEW K \in SUBSET (1..n), NEW j \in 1..Cardinality(K),
           NEW J, J = K \ {Nth(K, j)}
    PROVE  J \in SUBSET (1..n) /\ ListsTheRest(J, K, j)
<1>1. PICK c \in Nat : c = Cardinality(K)
  BY PositionsFinite
<1>2. IsFiniteSet(K)
  BY PositionsFinite
<1>3. PICK p \in K : p = Nth(K, j)
  BY NthProperties
<1>4. Cardinality({x \in K : x <= p}) = j
  BY <1>3, NthProperties
<1>5. J = K \ {p} /\ J \in SUBSET (1..n)
  BY <1>3
<1>6. Cardinality(J) = c - 1
  BY <1>1, <1>2, <1>5, FS_RemoveElement
<1>7. ASSUME NEW a \in K, NEW b \in K, a <= b
      PROVE  Cardinality({x \in K : x <= a}) <= Cardinality({x \in K : x <= b})
  <2>1. PICK A, B : A = {x \in K : x <= a} /\ B = {x \in K : x <= b}
    OBVIOUS
  <2>2. IsFiniteSet(B)
    BY <1>2, <2>1, FS_Subset
  <2>3. A \in SUBSET B
    <3>1. ASSUME NEW x \in K, x <= a PROVE x <= b
      <4>1. x \in Int /\ a \in Int /\ b \in Int
        OBVIOUS
      <4> QED BY <1>7, <3>1, <4>1
    <3> QED BY <2>1, <3>1
  <2> QED BY <2>1, <2>2, <2>3, FS_Subset
<1>8. ASSUME NEW k \in 1..(c - 1), k < j PROVE Nth(J, k) = Nth(K, k)
  <2>1. k \in 1..Cardinality(K) /\ k \in 1..Cardinality(J)
    BY <1>1, <1>6
  <2>2. PICK i \in K : i = Nth(K, k) /\ Cardinality({x \in K : x <= i}) = k
    BY <2>1, NthProperties
  <2>3. i < p
    <3>1. ~(p <= i)
      BY <1>4, <1>7, <1>8, <2>2
    <3> QED BY <3>1
  <2>4. i \in J /\ {x \in J : x <= i} = {x \in K : x <= i}
    BY <1>5, <2>3
  <2>5. Nth(J, k) \in J /\ Cardinality({x \in J : x <= Nth(J, k)}) = k
    BY <1>5, <2>1, NthProperties
  <2>6. PICK q \in J : q = Nth(J, k)
    BY <2>5
  <2>7. Cardinality({x \in J : x <= q}) = Cardinality({x \in J : x <= i})
    BY <2>2, <2>4, <2>5, <2>6
  <2>8. q = i
    BY <1>5, <2>4, <2>7, RankIsInjective
  <2> QED BY <2>2, <2>6, <2>8
<1>9. ASSUME NEW k \in 1..(c - 1), ~(k < j) PROVE Nth(J, k) = Nth(K, k + 1)
  <2>1. k + 1 \in 1..Cardinality(K) /\ k \in 1..Cardinality(J)
    BY <1>1, <1>6
  <2>2. PICK i \in K : i = Nth(K, k + 1) /\ Cardinality({x \in K : x <= i}) = k + 1
    BY <2>1, NthProperties
  <2>3. p < i
    <3>1. ~(i <= p)
      <4>1. j \in Int
        OBVIOUS
      <4> QED BY <1>4, <1>7, <1>9, <2>2, <4>1
    <3> QED BY <3>1
  <2>4. PICK A : A = {x \in K : x <= i}
    OBVIOUS
  <2>5. i \in J /\ {x \in J : x <= i} = A \ {p} /\ p \in A
    BY <1>5, <2>3, <2>4
  <2>6. IsFiniteSet(A)
    BY <1>2, <2>4, FS_Subset
  <2>7. Cardinality(A \ {p}) = Cardinality(A) - 1
    BY <2>5, <2>6, FS_RemoveElement
  <2>8. Cardinality({x \in J : x <= i}) = k
    BY <2>2, <2>4, <2>5, <2>7
  <2>9. PICK q \in J : q = Nth(J, k) /\ Cardinality({x \in J : x <= q}) = k
    <3>1. Nth(J, k) \in J /\ Cardinality({x \in J : x <= Nth(J, k)}) = k
      BY <1>5, <2>1, NthProperties
    <3> QED BY <3>1
  <2>10. q = i
    BY <1>5, <2>5, <2>8, <2>9, RankIsInjective
  <2> QED BY <2>2, <2>9, <2>10
<1> QED BY <1>1, <1>5, <1>6, <1>8, <1>9 DEF ListsTheRest

(* Cutting the j-th of the kept elements out of the sequence keeps the rest. *)
CutsOut(s, K, j) ==
    LET w == Keep(s, K)
    IN  SubSeq(w, 1, j - 1) \o SubSeq(w, j + 1, Len(w)) = Keep(s, K \ {Nth(K, j)})

LEMMA KeepWithoutOne ==
    ASSUME NEW S, NEW s \in Seq(S), NEW K \in SUBSET (1..Len(s)), NEW j \in 1..Cardinality(K)
    PROVE  CutsOut(s, K, j)
<1>1. PICK n \in Nat : n = Len(s)
  OBVIOUS
<1>2. PICK c \in Nat : c = Cardinality(K)
  BY <1>1, PositionsFinite
<1>3. PICK J : J = K \ {Nth(K, j)}
  OBVIOUS
<1>4. /\ J \in SUBSET (1..n) /\ Cardinality(J) = c - 1
      /\ \A k \in 1..(c - 1) : Nth(J, k) = IF k < j THEN Nth(K, k) ELSE Nth(K, k + 1)
  <2>1. K \in SUBSET (1..n) /\ j \in 1..Cardinality(K)
    BY <1>1
  <2>2. J \in SUBSET (1..n) /\ ListsTheRest(J, K, j)
    BY <1>3, <2>1, NthWithoutOne
  <2> QED BY <1>2, <2>2 DEF ListsTheRest
<1>5. PICK w, v : w = Keep(s, K) /\ v = Keep(s, J)
  OBVIOUS
<1>6. w \in Seq(S) /\ Len(w) = c /\ \A k \in 1..c : w[k] = s[Nth(K, k)]
  BY <1>1, <1>2, <1>5, KeepProperties DEF Keep
<1>7. v \in Seq(S) /\ Len(v) = c - 1 /\ \A k \in 1..(c - 1) : v[k] = s[Nth(J, k)]
  BY <1>1, <1>4, <1>5, KeepProperties DEF Keep
<1>8. j \in 1..c /\ j \in Nat
  BY <1>2
<1>9. PICK a, b : a = SubSeq(w, 1, j - 1) /\ b = SubSeq(w, j + 1, Len(w))
  OBVIOUS
<1>10. a \in Seq(S) /\ Len(a) = j - 1 /\ \A k \in 1..(j - 1) : a[k] = w[k]
  BY <1>6, <1>8, <1>9
<1>11. b \in Seq(S) /\ Len(b) = c - j /\ \A k \in 1..(c - j) : b[k] = w[j + k]
  BY <1>6, <1>8, <1>9
<1>12. PICK u : u = a \o b
  OBVIOUS
<1>13. u \in Seq(S) /\ Len(u) = c - 1
  BY <1>8, <1>10, <1>11, <1>12
<1>14. ASSUME NEW k \in 1..(c - 1) PROVE u[k] = v[k]
  <2>1. CASE k < j
    <3>1. u[k] = a[k] /\ a[k] = w[k]
      BY <1>8, <1>10, <1>11, <1>12, <2>1
    <3> QED BY <1>4, <1>6, <1>7, <2>1, <3>1
  <2>2. CASE ~(k < j)
    <3>1. k - (j - 1) \in 1..(c - j) /\ j + (k - (j - 1)) = k + 1 /\ k + 1 \in 1..c
      BY <1>8, <2>2
    <3>2. u[k] = b[k - (j - 1)]
      BY <1>8, <1>10, <1>11, <1>12, <2>2
    <3>3. b[k - (j - 1)] = w[k + 1]
      BY <1>11, <3>1
    <3> QED BY <1>4, <1>6, <1>7, <2>2, <3>1, <3>2, <3>3
  <2> QED BY <2>1, <2>2
<1>15. u = v
  BY <1>7, <1>13, <1>14
<1> QED BY <1>3, <1>5, <1>9, <1>12, <1>15 DEF CutsOut

(* Cutting one more element out of a sequence without repetitions. *)
LeavesOut(s, A, x) ==
    LET w == Without(s, A)
        p == PosOf(w, x)
    IN  SubSeq(w, 1, p - 1) \o SubSeq(w, p + 1, Len(w)) = Without(s, A \cup {x})

LEMMA WithoutOneMore ==
    ASSUME NEW S, NEW s \in Seq(S), IsOneToOne(s), NEW A, NEW x \in Elems(s) \ A
    PROVE  LeavesOut(s, A, x)
<1>1. PICK n \in Nat : n = Len(s)
  OBVIOUS
<1>2. PICK K : K = {i \in 1..n : s[i] \notin A}
  OBVIOUS
<1>3. K \in SUBSET (1..n)
  BY <1>2
<1>4. PICK w : w = Without(s, A)
  OBVIOUS
<1>5. w = Keep(s, K)
  BY <1>1, <1>2, <1>4 DEF Without
<1>6. /\ w \in Seq(S) /\ Len(w) = Cardinality(K) /\ IsOneToOne(w)
      /\ Elems(w) = Elems(s) \ A
  <2>1. K \in SUBSET (1..Len(s))
    BY <1>1, <1>3
  <2>2. Keep(s, K) \in Seq(S) /\ Len(Keep(s, K)) = Cardinality(K)
    BY <2>1, KeepProperties
  <2>3. Elems(Without(s, A)) = Elems(s) \ A /\ IsOneToOne(Without(s, A))
    BY WithoutProperties
  <2> QED BY <1>4, <1>5, <2>2, <2>3
<1>7. PICK p \in 1..Cardinality(K) : p = PosOf(w, x) /\ w[p] = x
  BY <1>6, PosOfProperties
<1>8. w[p] = s[Nth(K, p)]
  BY <1>5 DEF Keep
<1>9. Nth(K, p) \in K
  BY <1>3, NthProperties
<1>10. PICK q \in K : q = Nth(K, p)
  BY <1>9
<1>11. K \ {q} = {i \in 1..n : s[i] \notin A \cup {x}}
  <2>1. s[q] = x /\ q \in 1..n
    BY <1>3, <1>7, <1>8, <1>10
  <2>2. ASSUME NEW i \in 1..n, s[i] = x PROVE i = q
    BY <1>1, <2>1, <2>2 DEF IsOneToOne
  <2> QED BY <1>2, <2>1, <2>2
<1>12. CutsOut(s, K, p)
  BY <1>1, <1>3, KeepWithoutOne
<1>13. SubSeq(w, 1, p - 1) \o SubSeq(w, p + 1, Len(w)) = Keep(s, K \ {q})
  BY <1>5, <1>10, <1>12 DEF CutsOut
<1>14. Keep(s, K \ {q}) = Without(s, A \cup {x})
  BY <1>1, <1>11 DEF Without
<1> QED BY <1>4, <1>7, <1>13, <1>14 DEF LeavesOut

(* The manifest p with the counter at k. *)
Counting(p, k) == [p EXCEPT !.next = k]

(* The fields of p with a new ID bound. *)
IsJoined(r, p, id, node) ==
    r = [byId |-> [i \in Ids(p) \cup {id} |-> IF i = id THEN node ELSE p.byId[i]],
         byNode |-> [n \in DOMAIN p.byNode \cup {node} |->
                       IF n = node THEN id ELSE p.byNode[n]],
         order |-> Append(p.order, id), next |-> p.next]

LEMMA JoinedIs ==
    ASSUME NEW p,
           p = [byId |-> p.byId, byNode |-> p.byNode, order |-> p.order, next |-> p.next],
           NEW id, id \notin Ids(p), NEW node, NEW r, r = Bind(p, id, node)
    PROVE  IsJoined(r, p, id, node)
  BY DEF Bind, IsJoined

(* Binding a new ID leaves the counter alone. *)
LEMMA BindIgnoresCounter ==
    ASSUME NEW p, IsManifest(p), NEW k, NEW id, id \notin Ids(p), NEW node
    PROVE  Bind(Counting(p, k), id, node) = Counting(Bind(p, id, node), k)
<1>1. PICK q, r, s : q = Counting(p, k) /\ r = Bind(p, id, node) /\ s = Bind(q, id, node)
  OBVIOUS
<1>2. q = [byId |-> p.byId, byNode |-> p.byNode, order |-> p.order, next |-> k]
  BY <1>1 DEF Counting, IsManifest
<1>3. q.byId = p.byId /\ q.byNode = p.byNode /\ q.order = p.order /\ q.next = k
  BY <1>2
<1>4. IsJoined(r, p, id, node)
  BY <1>1, JoinedIs DEF IsManifest
<1>5. IsJoined(s, q, id, node)
  BY <1>1, <1>2, <1>3, JoinedIs DEF Ids
<1>6. PICK f, g, o : /\ f = [i \in Ids(p) \cup {id} |-> IF i = id THEN node ELSE p.byId[i]]
                     /\ g = [n \in DOMAIN p.byNode \cup {node} |->
                              IF n = node THEN id ELSE p.byNode[n]]
                     /\ o = Append(p.order, id)
  OBVIOUS
<1>7. r = [byId |-> f, byNode |-> g, order |-> o, next |-> p.next]
  BY <1>4, <1>6 DEF IsJoined
<1>8. s = [byId |-> f, byNode |-> g, order |-> o, next |-> k]
  BY <1>3, <1>5, <1>6 DEF IsJoined, Ids
<1>9. Counting(r, k) = [byId |-> f, byNode |-> g, order |-> o, next |-> k]
  BY <1>7 DEF Counting
<1> QED BY <1>1, <1>8, <1>9

(* The IDs that a rollback binds, the nodes, and its counter. *)
CanRebind(ids, nodes, next) ==
    /\ ids \in Seq(Nat \ {0}) /\ nodes \in Seq(Nat) /\ Len(ids) = Len(nodes)
    /\ IsOneToOne(ids) /\ IsOneToOne(nodes)
    /\ next \in Nat \ {0} /\ \A i \in Elems(ids) : i < next

LEMMA CanRebindSome ==
    ASSUME NEW ids, NEW nodes, NEW next, CanRebind(ids, nodes, next), NEW k \in 0..Len(ids)
    PROVE  CanBind(EmptyManifest, SubSeq(ids, 1, k), SubSeq(nodes, 1, k), next)
<1>1. PICK e, P, s, t : /\ e = EmptyManifest /\ P = Nat \ {0}
                        /\ s = SubSeq(ids, 1, k) /\ t = SubSeq(nodes, 1, k)
  OBVIOUS
<1>2. ids \in Seq(P) /\ nodes \in Seq(Nat) /\ Len(nodes) = Len(ids)
  BY <1>1 DEF CanRebind
<1>3. k \in 0..Len(nodes)
  BY <1>2
<1>4. s \in Seq(P) /\ Len(s) = k /\ t \in Seq(Nat) /\ Len(t) = k
  BY <1>1, <1>2, <1>3
<1>5. IsOneToOne(s) /\ Elems(s) \subseteq Elems(ids)
  BY <1>1, <1>2, FirstOnesDiffer DEF CanRebind
<1>6. IsOneToOne(t)
  BY <1>1, <1>2, <1>3, FirstOnesDiffer DEF CanRebind
<1>7. IsManifest(e) /\ Sound(e) /\ Ids(e) = {} /\ DOMAIN e.byNode = {} /\ e.next = 1
  BY <1>1, EmptyManifestSound
<1>8. next \in Nat \ {0} /\ e.next <= next /\ \A i \in Elems(s) : i < next
  BY <1>5, <1>7 DEF CanRebind
<1>9. CanBind(e, s, t, next)
  BY <1>1, <1>4, <1>5, <1>6, <1>7, <1>8 DEF CanBind
<1> QED BY <1>1, <1>9

(* The loop of _rollback comes to Rebound. *)
LEMMA ReboundLoopIs ==
    ASSUME NEW ids, NEW nodes, NEW next, CanRebind(ids, nodes, next)
    PROVE  ReboundLoop(ids, nodes, next) = Rebound(ids, nodes, next)
<1>18. PICK n \in Nat : n = Len(ids)
  BY LenProperties DEF CanRebind
<1>19. PICK e, P : e = EmptyManifest /\ P = Nat \ {0}
  OBVIOUS
<1>1. n = Len(ids) /\ e = EmptyManifest /\ P = Nat \ {0}
  BY <1>18, <1>19
<1> DEFINE Q(h) == h = [k \in 0..n |-> IF k = 0 THEN e ELSE Bind(h[k - 1], ids[k], nodes[k])]
<1>2. PICK g : g = [k \in 0..n |-> Bound(e, SubSeq(ids, 1, k), SubSeq(nodes, 1, k), next)]
  OBVIOUS
<1>3. PICK f : f = [k \in 0..n |-> Counting(g[k], 1)]
  OBVIOUS
<1>4. ASSUME NEW k \in 0..n PROVE IsManifest(g[k]) /\ g[k].next = next
  <2>1. PICK s, t : s = SubSeq(ids, 1, k) /\ t = SubSeq(nodes, 1, k)
    OBVIOUS
  <2>2. CanBind(e, s, t, next)
    BY <1>1, <2>1, CanRebindSome
  <2>3. PICK r : r = Bound(e, s, t, next)
    OBVIOUS
  <2>4. SaysMore(r, e, s, t, next)
    BY <2>2, <2>3, BindAllSound
  <2> QED BY <1>2, <2>1, <2>3, <2>4 DEF SaysMore
<1>5. f[0] = e
  <2>1. PICK s, t, r : s = SubSeq(ids, 1, 0) /\ t = SubSeq(nodes, 1, 0) /\ r = Counting(g[0], 1)
    OBVIOUS
  <2>2. s = <<>> /\ t = <<>>
    BY <2>1, SubSeqEmpty
  <2>3. Elems(s) = {} /\ Elems(t) = {} /\ 0 \in 0..n /\ next \in Nat \ {0}
    BY <2>2 DEF Elems, CanRebind
  <2>4. PICK b : b = Bound(e, s, t, next)
    OBVIOUS
  <2>5. IsManifest(e) /\ Ids(e) = {} /\ DOMAIN e.byNode = {} /\ e.next = 1
    BY <1>1, EmptyManifestSound
  <2>6. IsBound(b, e, s, t, next)
    BY <2>3, <2>4, <2>5, BoundIs
  <2>7. g[0] = b
    BY <1>2, <2>1, <2>3, <2>4
  <2>8. b.byId = e.byId /\ b.byNode = e.byNode
    BY <1>1, <2>3, <2>5, <2>6 DEF IsBound, EmptyManifest
  <2>9. b.order = e.order
    <3>1. b.order = e.order \o s
      BY <2>6 DEF IsBound
    <3>2. e.order = <<>>
      BY <1>1 DEF EmptyManifest
    <3> QED BY <2>2, <3>1, <3>2
  <2>10. b = [byId |-> b.byId, byNode |-> b.byNode, order |-> b.order, next |-> b.next]
    BY <2>6 DEF IsBound
  <2>11. Counting(b, 1) = [byId |-> e.byId, byNode |-> e.byNode, order |-> e.order, next |-> 1]
    BY <2>8, <2>9, <2>10 DEF Counting
  <2> QED BY <1>3, <2>3, <2>5, <2>7, <2>11 DEF IsManifest
<1>6. ASSUME NEW k \in 1..n PROVE f[k] = Bind(f[k - 1], ids[k], nodes[k])
  <2>1. PICK s, t, u, v : /\ s = SubSeq(ids, 1, k - 1) /\ t = SubSeq(nodes, 1, k - 1)
                          /\ u = SubSeq(ids, 1, k) /\ v = SubSeq(nodes, 1, k)
    OBVIOUS
  <2>2. PICK id, node : id = ids[k] /\ node = nodes[k]
    OBVIOUS
  <2>3. ids \in Seq(P) /\ nodes \in Seq(Nat) /\ Len(ids) = n /\ Len(nodes) = n
    BY <1>1 DEF CanRebind
  <2>4. u = Append(s, id) /\ s \in Seq(P) /\ id \in P /\ Len(s) = k - 1
    BY <2>1, <2>2, <2>3, OneMoreOfThem
  <2>5. v = Append(t, node) /\ t \in Seq(Nat) /\ node \in Nat /\ Len(t) = k - 1
    BY <2>1, <2>2, <2>3, OneMoreOfThem
  <2>6. k \in 0..n /\ k - 1 \in 0..n
    OBVIOUS
  <2>7. CanBind(e, Append(s, id), Append(t, node), next)
    BY <1>1, <2>1, <2>4, <2>5, <2>6, CanRebindSome
  <2>8. Bind(Bound(e, s, t, next), id, node) = Bound(e, Append(s, id), Append(t, node), next)
    BY <1>1, <2>4, <2>5, <2>7, BindOneMore
  <2>9. PICK p : p = g[k - 1]
    OBVIOUS
  <2>10. Bind(p, id, node) = g[k]
    BY <1>2, <2>1, <2>4, <2>5, <2>6, <2>8, <2>9
  <2>11. Bind(Counting(p, 1), id, node) = Counting(Bind(p, id, node), 1)
    <3>1. SaysMore(p, e, s, t, next)
      <4>1. CanBind(e, s, t, next)
        BY <1>1, <2>1, <2>6, CanRebindSome
      <4>2. p = Bound(e, s, t, next)
        BY <1>2, <2>1, <2>6, <2>9
      <4> QED BY <4>1, <4>2, BindAllSound
    <3>2. id \notin Elems(s)
      <4>1. IsOneToOne(Append(s, id))
        BY <2>7 DEF CanBind
      <4> QED BY <2>4, <4>1, OneMoreElement
    <3>3. Ids(e) = {}
      BY <1>1, EmptyManifestSound
    <3> QED BY <3>1, <3>2, <3>3, BindIgnoresCounter DEF SaysMore
  <2> QED BY <1>3, <2>2, <2>6, <2>9, <2>10, <2>11
<1>7. Q(f)
  <2>1. ASSUME NEW k \in 0..n
        PROVE  f[k] = IF k = 0 THEN e ELSE Bind(f[k - 1], ids[k], nodes[k])
    <3>1. k = 0 \/ k \in 1..n
      OBVIOUS
    <3> QED BY <1>5, <1>6, <3>1
  <2>2. f = [k \in 0..n |-> f[k]]
    BY <1>3
  <2> QED BY <2>1, <2>2, Zenon
<1>8. PICK h : h = CHOOSE u : Q(u)
  OBVIOUS
<1>9. Q(h)
  BY <1>7, <1>8
<1>10. ReboundLoop(ids, nodes, next) = Counting(h[n], next)
  BY <1>1, <1>8 DEF ReboundLoop, Counting
<1>11. h[0] = f[0]
  BY <1>5, <1>9
<1>12. ASSUME NEW k \in 1..n, h[k - 1] = f[k - 1] PROVE h[k] = f[k]
  <2>1. h[k] = Bind(h[k - 1], ids[k], nodes[k])
    BY <1>9
  <2> QED BY <1>6, <1>12, <2>1
<1>13. h[n] = f[n]
  BY <1>11, <1>12, SameRun
<1>14. PICK p : p = g[n]
  OBVIOUS
<1>15. n \in 0..n
  OBVIOUS
<1>16. p = Rebound(ids, nodes, next)
  <2>1. SubSeq(ids, 1, n) = ids /\ SubSeq(nodes, 1, n) = nodes
    BY <1>1, SubSeqFull DEF CanRebind
  <2> QED BY <1>1, <1>2, <1>14, <1>15, <2>1 DEF Bound, Rebound
<1>17. Counting(Counting(p, 1), next) = p
  <2>1. IsManifest(p) /\ p.next = next
    BY <1>4, <1>14, <1>15
  <2>2. Counting(p, 1) = [byId |-> p.byId, byNode |-> p.byNode, order |-> p.order, next |-> 1]
    BY <2>1 DEF Counting, IsManifest
  <2>3. PICK a, b, c : a = p.byId /\ b = p.byNode /\ c = p.order
    OBVIOUS
  <2>4. Counting([byId |-> a, byNode |-> b, order |-> c, next |-> 1], next)
          = [byId |-> a, byNode |-> b, order |-> c, next |-> next]
    BY DEF Counting
  <2> QED BY <2>1, <2>2, <2>3, <2>4 DEF IsManifest
<1> QED BY <1>3, <1>10, <1>13, <1>14, <1>15, <1>16, <1>17

(* The fields of a manifest with some of its IDs retired. *)
IsThinned(r, m, S) ==
    r = [byId |-> [i \in Ids(m) \ S |-> m.byId[i]],
         byNode |-> [n \in DOMAIN m.byNode \ {m.byId[i] : i \in Ids(m) \cap S} |-> m.byNode[n]],
         order |-> Without(m.order, Ids(m) \cap S), next |-> m.next]

LEMMA ThinnedIs ==
    ASSUME NEW m, IsManifest(m), NEW S, NEW r, r = InvalidateAll(m, S)
    PROVE  IsThinned(r, m, S)
  BY DEF InvalidateAll, IsManifest, IsThinned

(* Invalidating one more ID. *)
LEMMA InvalidateOneMore ==
    ASSUME NEW m, IsManifest(m), Sound(m), NEW S, NEW x,
           NEW b, b = InvalidateAll(m, S)
    PROVE  Invalidate(b, x) = InvalidateAll(m, S \cup {x})
<1>1. PICK A, q : A = S \cup {x} /\ q = InvalidateAll(m, A)
  OBVIOUS
<1>2. IsThinned(b, m, S) /\ IsThinned(q, m, A)
  BY <1>1, ThinnedIs
<1>3. IsManifest(b) /\ Sound(b) /\ Ids(b) = Ids(m) \ S
  BY InvalidateAllSound
<1>4. CASE x \notin Ids(b)
  <2>1. Invalidate(b, x) = b
    BY <1>4 DEF Invalidate
  <2>2. Ids(m) \ S = Ids(m) \ A /\ Ids(m) \cap S = Ids(m) \cap A
    BY <1>1, <1>3, <1>4
  <2>3. b = q
    BY <1>2, <2>2 DEF IsThinned
  <2> QED BY <1>1, <2>1, <2>3
<1>5. CASE x \in Ids(b)
  <2>1. PICK o : o = LET p == PosOf(b.order, x)
                     IN  SubSeq(b.order, 1, p - 1) \o SubSeq(b.order, p + 1, Len(b.order))
    OBVIOUS
  <2>2. Invalidate(b, x) = [byId |-> [i \in Ids(b) \ {x} |-> b.byId[i]],
                            byNode |-> [n \in DOMAIN b.byNode \ {b.byId[x]} |-> b.byNode[n]],
                            order |-> o, next |-> b.next]
    BY <1>3, <1>5, <2>1 DEF Invalidate, IsManifest
  <2>3. /\ b.byId = [i \in Ids(m) \ S |-> m.byId[i]]
        /\ b.byNode = [n \in DOMAIN m.byNode \ {m.byId[i] : i \in Ids(m) \cap S}
                         |-> m.byNode[n]]
        /\ b.order = Without(m.order, Ids(m) \cap S) /\ b.next = m.next
    BY <1>2 DEF IsThinned
  <2>4. [i \in Ids(b) \ {x} |-> b.byId[i]] = [i \in Ids(m) \ A |-> m.byId[i]]
    BY <1>1, <1>3, <2>3
  <2>5. [n \in DOMAIN b.byNode \ {b.byId[x]} |-> b.byNode[n]]
          = [n \in DOMAIN m.byNode \ {m.byId[i] : i \in Ids(m) \cap A} |-> m.byNode[n]]
    <3>1. b.byId[x] = m.byId[x] /\ x \in Ids(m)
      BY <1>3, <1>5, <2>3
    <3>2. {m.byId[i] : i \in Ids(m) \cap A}
            = {m.byId[i] : i \in Ids(m) \cap S} \cup {m.byId[x]}
      BY <1>1, <3>1
    <3>3. PICK F, G : F = {m.byId[i] : i \in Ids(m) \cap S}
                      /\ G = {m.byId[i] : i \in Ids(m) \cap A}
      OBVIOUS
    <3>4. DOMAIN b.byNode = DOMAIN m.byNode \ F
      BY <2>3, <3>3
    <3>5. \A n \in DOMAIN m.byNode \ F : b.byNode[n] = m.byNode[n]
      BY <2>3, <3>3
    <3>6. DOMAIN b.byNode \ {b.byId[x]} = DOMAIN m.byNode \ G
      BY <3>1, <3>2, <3>3, <3>4
    <3>7. \A n \in DOMAIN m.byNode \ G : b.byNode[n] = m.byNode[n]
      BY <3>2, <3>3, <3>5
    <3> QED BY <3>3, <3>6, <3>7
  <2>6. o = Without(m.order, Ids(m) \cap A)
    <3>1. PICK P : P = Nat \ {0}
      OBVIOUS
    <3>2. PICK s, T : s = m.order /\ T = Ids(m) \cap S
      OBVIOUS
    <3>3. s \in Seq(P) /\ IsOneToOne(s) /\ Elems(s) = Ids(m)
      BY <3>1, <3>2 DEF IsManifest, Sound
    <3>4. x \in Elems(s) \ T
      BY <1>3, <1>5, <3>2, <3>3
    <3>5. LeavesOut(s, T, x)
      BY <3>3, <3>4, WithoutOneMore
    <3>6. Ids(m) \cap A = T \cup {x}
      BY <1>1, <1>3, <1>5, <3>2
    <3> QED BY <2>1, <2>3, <3>2, <3>5, <3>6 DEF LeavesOut
  <2>7. IsThinned(Invalidate(b, x), m, A)
    BY <2>2, <2>3, <2>4, <2>5, <2>6 DEF IsThinned
  <2> QED BY <1>1, <1>2, <2>7 DEF IsThinned
<1> QED BY <1>4, <1>5

(* Nothing invalidated, no change. *)
LEMMA InvalidateNone ==
    ASSUME NEW m, IsManifest(m), Sound(m)
    PROVE  InvalidateAll(m, {}) = m
<1>1. PICK r : r = InvalidateAll(m, {})
  OBVIOUS
<1>2. /\ IsManifest(r) /\ Sound(r) /\ Ids(r) = Ids(m) \ {} /\ r.next = m.next
      /\ \A i \in Ids(r) : r.byId[i] = m.byId[i]
  BY <1>1, InvalidateAllSound
<1>3. r.order = m.order
  <2>1. PICK s, P, n : s = m.order /\ P = Nat \ {0} /\ n = Len(s)
    OBVIOUS
  <2>2. s \in Seq(P) /\ n \in Nat
    BY <2>1 DEF IsManifest
  <2>3. r.order = Without(s, {})
    <3>1. IsThinned(r, m, {})
      BY <1>1, ThinnedIs
    <3>2. Ids(m) \cap {} = {}
      OBVIOUS
    <3> QED BY <2>1, <3>1, <3>2 DEF IsThinned
  <2>4. Without(s, {}) = Keep(s, 1..n)
    <3>1. {i \in 1..n : s[i] \notin {}} = 1..n
      OBVIOUS
    <3> QED BY <2>1, <3>1 DEF Without
  <2>5. Cardinality(1..n) = n
    BY <2>2, FS_Interval
  <2>6. ASSUME NEW k \in 1..n PROVE Nth(1..n, k) = k
    <3>1. {x \in 1..n : x <= k} = 1..k
      BY <2>2
    <3>2. Cardinality(1..k) = k
      BY FS_Interval
    <3>3. /\ Nth(1..n, k) \in 1..n
          /\ Cardinality({x \in 1..n : x <= Nth(1..n, k)}) = k
      BY <2>2, <2>5, NthProperties
    <3>4. PICK q \in 1..n : q = Nth(1..n, k)
      BY <3>3
    <3>5. Cardinality({x \in 1..n : x <= q}) = Cardinality({x \in 1..n : x <= k})
      BY <3>1, <3>2, <3>3, <3>4
    <3>6. PICK K : K = 1..n
      OBVIOUS
    <3>7. K \in SUBSET (1..n) /\ q \in K /\ k \in K
      BY <3>6
    <3>8. Cardinality({x \in K : x <= q}) = Cardinality({x \in K : x <= k})
      BY <3>5, <3>6
    <3>9. q = k
      BY <2>2, <3>7, <3>8, RankIsInjective
    <3> QED BY <3>4, <3>9
  <2>7. Keep(s, 1..n) = [k \in 1..n |-> s[k]]
    BY <2>5, <2>6 DEF Keep
  <2>8. s = [k \in 1..n |-> s[k]]
    BY <2>1, <2>2
  <2> QED BY <2>1, <2>3, <2>4, <2>7, <2>8
<1>4. Alike(r, m)
  BY <1>2, <1>3 DEF Alike
<1> QED BY <1>1, <1>2, <1>4, SameManifest

(* One more element in a sequence. *)
LEMMA OneMoreIn ==
    ASSUME NEW T, NEW s \in Seq(T), NEW x \in T
    PROVE  Elems(Append(s, x)) = Elems(s) \cup {x}
<1>1. PICK t : t = Append(s, x)
  OBVIOUS
<1>2. /\ Elems(t) = Elems(s) \cup {x} /\ t = s \o <<x>>
      /\ IsOneToOne(t) => IsOneToOne(s) /\ x \notin Elems(s)
  BY <1>1, OneMoreElement
<1> QED BY <1>1, <1>2

(* The loop of delete_para comes to InvalidateAll of its IDs. *)
LEMMA InvalidateLoopIs ==
    ASSUME NEW m, IsManifest(m), Sound(m), NEW T, NEW ids \in Seq(T)
    PROVE  InvalidateLoop(m, ids) = InvalidateAll(m, Elems(ids))
<1>1. PICK n \in Nat : n = Len(ids)
  OBVIOUS
<1> DEFINE P(h) == h = [k \in 0..n |-> IF k = 0 THEN m ELSE Invalidate(h[k - 1], ids[k])]
<1>2. PICK f : f = [k \in 0..n |-> InvalidateAll(m, Elems(SubSeq(ids, 1, k)))]
  OBVIOUS
<1>3. f[0] = m
  <2>1. PICK e : e = SubSeq(ids, 1, 0)
    OBVIOUS
  <2>2. e = <<>>
    BY <2>1, SubSeqEmpty
  <2>3. Elems(e) = {}
    BY <2>2 DEF Elems
  <2>4. 0 \in 0..n
    OBVIOUS
  <2> QED BY <1>2, <2>1, <2>3, <2>4, InvalidateNone
<1>4. ASSUME NEW k \in 1..n PROVE f[k] = Invalidate(f[k - 1], ids[k])
  <2>1. PICK s, t, x : s = SubSeq(ids, 1, k - 1) /\ t = SubSeq(ids, 1, k) /\ x = ids[k]
    OBVIOUS
  <2>2. t = Append(s, x) /\ s \in Seq(T) /\ x \in T
    BY <1>1, <2>1, OneMoreOfThem
  <2>3. Elems(t) = Elems(s) \cup {x}
    <3>1. s \in Seq(T) /\ x \in T
      BY <2>2
    <3>2. Elems(Append(s, x)) = Elems(s) \cup {x}
      BY <3>1, OneMoreIn
    <3> QED BY <2>2, <3>2
  <2>4. k - 1 \in 0..n /\ k \in 0..n
    OBVIOUS
  <2>5. PICK b, S : S = Elems(s) /\ b = InvalidateAll(m, S)
    OBVIOUS
  <2>6. Invalidate(b, x) = InvalidateAll(m, S \cup {x})
    BY <2>5, InvalidateOneMore
  <2>7. f[k - 1] = b /\ f[k] = InvalidateAll(m, Elems(t))
    BY <1>2, <2>1, <2>4, <2>5
  <2> QED BY <2>1, <2>3, <2>5, <2>6, <2>7
<1>5. P(f)
  <2>1. ASSUME NEW k \in 0..n
        PROVE  f[k] = IF k = 0 THEN m ELSE Invalidate(f[k - 1], ids[k])
    <3>1. k = 0 \/ k \in 1..n
      OBVIOUS
    <3> QED BY <1>3, <1>4, <3>1
  <2>2. f = [k \in 0..n |-> f[k]]
    BY <1>2
  <2> QED BY <2>1, <2>2, Zenon
<1>6. PICK h : h = CHOOSE u : P(u)
  OBVIOUS
<1>7. P(h)
  BY <1>5, <1>6
<1>8. InvalidateLoop(m, ids) = h[n]
  BY <1>1, <1>6 DEF InvalidateLoop
<1>9. h[0] = f[0]
  BY <1>3, <1>7
<1>10. ASSUME NEW k \in 1..n, h[k - 1] = f[k - 1] PROVE h[k] = f[k]
  <2>1. h[k] = Invalidate(h[k - 1], ids[k])
    BY <1>7
  <2> QED BY <1>4, <1>10, <2>1
<1>11. h[n] = f[n]
  BY <1>9, <1>10, SameRun
<1>12. f[n] = InvalidateAll(m, Elems(ids))
  <2>1. SubSeq(ids, 1, n) = ids
    BY <1>1, SubSeqFull
  <2>2. n \in 0..n
    OBVIOUS
  <2> QED BY <1>2, <2>1, <2>2
<1> QED BY <1>8, <1>11, <1>12
-----------------------------------------------------------------------------
(* The document. *)

(* The fields of a document. *)
IsDocument(d) ==
    d = [dom |-> d.dom, host |-> d.host, body |-> d.body, fresh |-> d.fresh,
         manifest |-> d.manifest, cached |-> d.cached, records |-> d.records]

(* The tree and the index: the types, and no node twice. *)
TreeOK(d) ==
    /\ d.fresh \in Nat \ {0}
    /\ d.dom \in Seq(1..(d.fresh - 1)) /\ IsOneToOne(d.dom)
    /\ d.host \in [1..(d.fresh - 1) -> (1..(d.fresh - 1)) \cup {NoHost}]
    /\ d.body \in [1..(d.fresh - 1) -> Seq(Mark)]
    /\ d.cached \in BOOLEAN
    /\ d.records \in Seq([id : Nat \ {0}, node : 1..(d.fresh - 1)])

(* The manifest: sound, and about nodes that exist. *)
ManifestOK(m, fresh) ==
    IsManifest(m) /\ Sound(m) /\ DOMAIN m.byNode \subseteq 1..(fresh - 1)

(* The inductive invariant. *)
DocInv(d) == IsDocument(d) /\ TreeOK(d) /\ ManifestOK(d.manifest, d.fresh)

(* The manifest r comes after m: an ID in both has one node, an ID that is *)
(* only in r was allocated since.                                          *)
Follows(m, r) ==
    /\ m.next <= r.next
    /\ \A i \in Ids(r) : IF i \in Ids(m) THEN r.byId[i] = m.byId[i] ELSE i >= m.next
-----------------------------------------------------------------------------
(* Sequences over a larger set. *)
LEMMA SeqMono ==
    ASSUME NEW S, NEW T, S \subseteq T, NEW s \in Seq(S)
    PROVE  s \in Seq(T)
<1>1. Len(s) \in Nat /\ s \in [1..Len(s) -> S]
  BY LenProperties
<1>2. s \in [1..Len(s) -> T]
  BY <1>1
<1> QED BY <1>1, <1>2

(* Functions on 1..n, and one-tuples, are sequences. *)
LEMMA FunctionIsSeq ==
    ASSUME NEW S, NEW n \in Nat, NEW s \in [1..n -> S]
    PROVE  s \in Seq(S)
OBVIOUS

LEMMA SingletonIsSeq ==
    ASSUME NEW S, NEW x \in S
    PROVE  <<x>> \in Seq(S)
OBVIOUS

(* The elements of a sequence over S are in S. *)
LEMMA ElemsInSet ==
    ASSUME NEW S, NEW s \in Seq(S)
    PROVE  Elems(s) \subseteq S
<1>1. s \in [1..Len(s) -> S] /\ DOMAIN s = 1..Len(s)
  BY LenProperties
<1> QED BY <1>1 DEF Elems

(* The largest member of a set of positions is one of them. *)
LEMMA HighestIsMember ==
    ASSUME NEW n \in Nat, NEW K \in SUBSET (1..n), K # {}
    PROVE  Highest(K) \in K
<1>1. IsFiniteSet(K) /\ Cardinality(K) \in Nat
  BY PositionsFinite
<1>2. Cardinality(K) # 0
  BY <1>1, FS_EmptySet
<1>3. PICK k \in 1..Cardinality(K) : k = Cardinality(K)
  BY <1>1, <1>2
<1>4. Nth(K, k) \in K
  BY NthProperties
<1> QED BY <1>3, <1>4 DEF Highest
-----------------------------------------------------------------------------
(* What the operators on manifests do, said with ManifestOK and Follows. *)

LEMMA FollowsItself ==
    ASSUME NEW m, IsManifest(m) PROVE Follows(m, m)
BY DEF Follows, IsManifest

LEMMA FollowsTransitive ==
    ASSUME NEW m, NEW r, NEW s, IsManifest(m), IsManifest(r), IsManifest(s), Sound(m), Sound(s),
           Follows(m, r), Follows(r, s)
    PROVE  Follows(m, s)
<1>1. m.next \in Nat /\ r.next \in Nat /\ s.next \in Nat
  BY DEF IsManifest
<1>2. m.next <= s.next
  BY <1>1 DEF Follows
<1>3. ASSUME NEW i \in Ids(s)
      PROVE  IF i \in Ids(m) THEN s.byId[i] = m.byId[i] ELSE i >= m.next
  <2>1. CASE i \in Ids(r)
    BY <2>1 DEF Follows
  <2>2. CASE i \notin Ids(r)
    <3>1. i \in Nat
      BY <1>1 DEF Sound
    <3>2. i >= r.next /\ m.next <= r.next
      BY <2>2 DEF Follows
    <3>3. i >= m.next
      BY <1>1, <3>1, <3>2
    <3>4. i \notin Ids(m)
      <4>1. ASSUME i \in Ids(m) PROVE FALSE
        <5>1. i \in 1..(m.next - 1)
          BY <4>1 DEF Sound
        <5> QED BY <5>1, <3>3, <1>1
      <4> QED BY <4>1
    <3> QED BY <3>3, <3>4
  <2> QED BY <2>1, <2>2
<1> QED BY <1>2, <1>3 DEF Follows

LEMMA BindNewOK ==
    ASSUME NEW f \in Nat \ {0}, NEW g \in Nat \ {0}, f <= g,
           NEW m, ManifestOK(m, f),
           NEW nodes \in Seq(1..(g - 1)), IsOneToOne(nodes),
           Elems(nodes) \cap DOMAIN m.byNode = {}
    PROVE  /\ ManifestOK(BindNew(m, nodes), g)
           /\ Follows(m, BindNew(m, nodes))
           /\ DOMAIN BindNew(m, nodes).byNode = DOMAIN m.byNode \cup Elems(nodes)
<1>1. PICK r : r = BindNew(m, nodes)
  OBVIOUS
<1>2. nodes \in Seq(Nat)
  <2>1. 1..(g - 1) \subseteq Nat
    OBVIOUS
  <2> QED BY <2>1, SeqMono
<1>3. IsManifest(m) /\ Sound(m) /\ DOMAIN m.byNode \subseteq 1..(f - 1)
  BY DEF ManifestOK
<1>4. /\ IsManifest(r) /\ Sound(r)
      /\ Ids(r) = Ids(m) \cup m.next..(m.next + Len(nodes) - 1)
      /\ DOMAIN r.byNode = DOMAIN m.byNode \cup Elems(nodes)
      /\ r.next = m.next + Len(nodes)
      /\ \A i \in Ids(m) : r.byId[i] = m.byId[i]
  BY <1>1, <1>2, <1>3, BindNewSound
<1>5. Elems(nodes) \subseteq 1..(g - 1) /\ 1..(f - 1) \subseteq 1..(g - 1)
  <2>1. Elems(nodes) \subseteq 1..(g - 1)
    BY ElemsInSet
  <2> QED BY <2>1
<1>6. ManifestOK(r, g)
  BY <1>3, <1>4, <1>5 DEF ManifestOK
<1>7. Len(nodes) \in Nat /\ m.next \in Nat
  BY <1>3, LenProperties DEF IsManifest
<1>8. Follows(m, r)
  BY <1>4, <1>7 DEF Follows
<1> QED BY <1>1, <1>4, <1>6, <1>8

LEMMA InvalidateAllOK ==
    ASSUME NEW f \in Nat \ {0}, NEW m, ManifestOK(m, f), NEW ids
    PROVE  /\ ManifestOK(InvalidateAll(m, ids), f)
           /\ Follows(m, InvalidateAll(m, ids))
<1>1. PICK r : r = InvalidateAll(m, ids)
  OBVIOUS
<1>2. IsManifest(m) /\ Sound(m) /\ DOMAIN m.byNode \subseteq 1..(f - 1)
  BY DEF ManifestOK
<1>3. /\ IsManifest(r) /\ Sound(r)
      /\ Ids(r) = Ids(m) \ ids
      /\ DOMAIN r.byNode \subseteq DOMAIN m.byNode
      /\ r.next = m.next
      /\ \A i \in Ids(r) : r.byId[i] = m.byId[i]
  BY <1>1, <1>2, InvalidateAllSound
<1>4. m.next \in Nat
  BY <1>2 DEF IsManifest
<1> QED BY <1>1, <1>2, <1>3, <1>4 DEF ManifestOK, Follows
-----------------------------------------------------------------------------
(* The nodes of new paragraphs are new and distinct. *)
LEMMA NewNodesProperties ==
    ASSUME NEW d, d.fresh \in Nat \ {0}, NEW shape \in Seq(BOOLEAN)
    PROVE  LET N == d.fresh..(d.fresh + Len(shape) - 1)
           IN  /\ NewNodes(d, shape) \in Seq(N) /\ IsOneToOne(NewNodes(d, shape))
               /\ Tops(d, shape) \in Seq(N) /\ IsOneToOne(Tops(d, shape))
<1> DEFINE N == d.fresh..(d.fresh + Len(shape) - 1)
           new == NewNodes(d, shape)
           K == {k \in 1..Len(shape) : ~shape[k]}
<1>1. Len(shape) \in Nat
  BY LenProperties
<1>2. \A k \in 1..Len(shape) : d.fresh + k - 1 \in N
  BY <1>1
<1>3. new = [k \in 1..Len(shape) |-> d.fresh + k - 1]
  BY DEF NewNodes
<1>4. new \in [1..Len(shape) -> N]
  BY <1>2, <1>3
<1>5. new \in Seq(N) /\ Len(new) = Len(shape) /\ DOMAIN new = 1..Len(shape)
  BY <1>1, <1>3, <1>4
<1>6. IsOneToOne(new)
  <2>1. \A i, j \in 1..Len(shape) : d.fresh + i - 1 = d.fresh + j - 1 => i = j
    BY <1>1
  <2> QED BY <2>1, <1>3 DEF IsOneToOne
<1>7. Tops(d, shape) = Keep(new, K)
  BY DEF Tops
<1>8. K \in SUBSET (1..Len(new))
  BY <1>5
<1> HIDE DEF new, K
<1>9. Keep(new, K) \in Seq(N) /\ IsOneToOne(Keep(new, K))
  BY <1>5, <1>6, <1>8, KeepProperties
<1> QED BY <1>5, <1>6, <1>7, <1>9 DEF new
-----------------------------------------------------------------------------
(* The operations preserve the invariant, and their manifests follow. *)

(* e may come after d: it is a document, its manifest follows that of d.   *)
Step(d, e) == DocInv(e) /\ Follows(d.manifest, e.manifest)

LEMMA StepTransitive ==
    ASSUME NEW d, NEW e, NEW f, DocInv(d), Step(d, e), Step(e, f)
    PROVE  Step(d, f)
BY FollowsTransitive DEF Step, DocInv, ManifestOK

LEMMA StepItself ==
    ASSUME NEW d, DocInv(d) PROVE Step(d, d)
BY FollowsItself DEF Step, DocInv, ManifestOK

(* Another sound manifest that follows. *)
LEMMA ManifestStep ==
    ASSUME NEW d, DocInv(d), NEW m, ManifestOK(m, d.fresh), Follows(d.manifest, m)
    PROVE  Step(d, [d EXCEPT !.manifest = m])
<1> DEFINE e == [d EXCEPT !.manifest = m]
<1>1. e = [dom |-> d.dom, host |-> d.host, body |-> d.body, fresh |-> d.fresh,
           manifest |-> m, cached |-> d.cached, records |-> d.records]
  BY DEF DocInv, IsDocument
<1> HIDE DEF e
<1>2. IsDocument(e)
  BY <1>1 DEF IsDocument
<1>3. TreeOK(e)
  BY <1>1 DEF DocInv, TreeOK
<1>4. ManifestOK(e.manifest, e.fresh) /\ Follows(d.manifest, e.manifest)
  BY <1>1
<1>5. Step(d, e)
  BY <1>2, <1>3, <1>4 DEF Step, DocInv
<1> QED BY <1>5 DEF e

(* Fewer nodes in the tree. *)
LEMMA ShrinkStep ==
    ASSUME NEW d, DocInv(d), NEW S
    PROVE  Step(d, [d EXCEPT !.dom = Without(@, S)])
<1> DEFINE e == [d EXCEPT !.dom = Without(@, S)]
<1>1. e = [dom |-> Without(d.dom, S), host |-> d.host, body |-> d.body, fresh |-> d.fresh,
           manifest |-> d.manifest, cached |-> d.cached, records |-> d.records]
  BY DEF DocInv, IsDocument
<1> HIDE DEF e
<1>2. IsDocument(e)
  BY <1>1 DEF IsDocument
<1>3. Without(d.dom, S) \in Seq(1..(d.fresh - 1)) /\ IsOneToOne(Without(d.dom, S))
  BY WithoutProperties DEF DocInv, TreeOK
<1>4. TreeOK(e)
  BY <1>1, <1>3 DEF DocInv, TreeOK
<1>5. ManifestOK(e.manifest, e.fresh) /\ Follows(d.manifest, e.manifest)
  BY <1>1, FollowsItself DEF DocInv, ManifestOK
<1>6. Step(d, e)
  BY <1>2, <1>4, <1>5 DEF Step, DocInv
<1> QED BY <1>6 DEF e

(* Dropping the index. *)
LEMMA InvalidatedStep ==
    ASSUME NEW d, DocInv(d)
    PROVE  Step(d, Invalidated(d))
<1> DEFINE e == Invalidated(d)
<1>1. e = [dom |-> d.dom, host |-> d.host, body |-> d.body, fresh |-> d.fresh,
           manifest |-> d.manifest, cached |-> FALSE, records |-> <<>>]
  <2>1. PICK c, r : c = FALSE /\ r = <<>>
    OBVIOUS
  <2>2. e = [d EXCEPT !.cached = c, !.records = r]
    BY <2>1 DEF Invalidated
  <2> HIDE DEF e
  <2>3. e = [dom |-> d.dom, host |-> d.host, body |-> d.body, fresh |-> d.fresh,
             manifest |-> d.manifest, cached |-> c, records |-> r]
    BY <2>2 DEF DocInv, IsDocument
  <2> QED BY <2>1, <2>3
<1> HIDE DEF e
<1>2. IsDocument(e)
  BY <1>1 DEF IsDocument
<1>3. TreeOK(e)
  BY <1>1, EmptySeq DEF DocInv, TreeOK
<1>4. ManifestOK(e.manifest, e.fresh) /\ Follows(d.manifest, e.manifest)
  BY <1>1, FollowsItself DEF DocInv, ManifestOK
<1>5. Step(d, e)
  BY <1>2, <1>3, <1>4 DEF Step, DocInv
<1> QED BY <1>5 DEF e

(* _build_index binds the nodes that have no ID, which are distinct because *)
(* the tree repeats none, and then every node has one.                      *)
LEMMA BuildIndexStep ==
    ASSUME NEW d, DocInv(d)
    PROVE  Step(d, BuildIndex(d))
<1> DEFINE nodes == Without(d.dom, DOMAIN d.manifest.byNode)
           m == BindNew(d.manifest, nodes)
           records == [i \in 1..Len(d.dom) |-> [id |-> m.byNode[d.dom[i]], node |-> d.dom[i]]]
           e == BuildIndex(d)
<1>1. /\ d.fresh \in Nat \ {0} /\ d.fresh <= d.fresh
      /\ d.dom \in Seq(1..(d.fresh - 1)) /\ IsOneToOne(d.dom)
      /\ ManifestOK(d.manifest, d.fresh)
  BY DEF DocInv, TreeOK
<1>2. /\ nodes \in Seq(1..(d.fresh - 1)) /\ IsOneToOne(nodes)
      /\ Elems(nodes) = Elems(d.dom) \ DOMAIN d.manifest.byNode
  BY <1>1, WithoutProperties
<1> HIDE DEF nodes
<1>3. /\ ManifestOK(m, d.fresh) /\ Follows(d.manifest, m)
      /\ DOMAIN m.byNode = DOMAIN d.manifest.byNode \cup Elems(nodes)
  <2>1. Elems(nodes) \cap DOMAIN d.manifest.byNode = {}
    BY <1>2
  <2> QED BY <1>1, <1>2, <2>1, BindNewOK
<1>4. e = [dom |-> d.dom, host |-> d.host, body |-> d.body, fresh |-> d.fresh,
           manifest |-> m, cached |-> TRUE, records |-> records]
  <2>1. BuildIndex(d) = [d EXCEPT !.manifest = m, !.cached = TRUE, !.records = records]
    BY DEF BuildIndex, nodes
  <2> HIDE DEF m, records
  <2> QED BY <2>1 DEF DocInv, IsDocument
<1> HIDE DEF m, e
<1>5. records \in Seq([id : Nat \ {0}, node : 1..(d.fresh - 1)])
  <2>1. \A i \in 1..Len(d.dom) : d.dom[i] \in 1..(d.fresh - 1) /\ d.dom[i] \in DOMAIN m.byNode
    <3>1. DOMAIN d.dom = 1..Len(d.dom) /\ d.dom \in [1..Len(d.dom) -> 1..(d.fresh - 1)]
      BY <1>1, LenProperties
    <3>2. Elems(d.dom) \subseteq DOMAIN m.byNode
      BY <1>2, <1>3
    <3> QED BY <3>1, <3>2 DEF Elems
  <2>2. \A n \in DOMAIN m.byNode : m.byNode[n] \in Nat \ {0}
    BY <1>3 DEF ManifestOK, Sound, IsManifest
  <2>3. records \in [1..Len(d.dom) -> [id : Nat \ {0}, node : 1..(d.fresh - 1)]]
    BY <2>1, <2>2
  <2>4. Len(d.dom) \in Nat
    BY <1>1, LenProperties
  <2> HIDE DEF records
  <2> QED BY <2>3, <2>4, FunctionIsSeq
<1> HIDE DEF records
<1>6. IsDocument(e)
  BY <1>4 DEF IsDocument
<1>7. TreeOK(e)
  BY <1>4, <1>5 DEF DocInv, TreeOK
<1>8. ManifestOK(e.manifest, e.fresh) /\ Follows(d.manifest, e.manifest)
  BY <1>3, <1>4
<1>9. Step(d, e)
  BY <1>6, <1>7, <1>8 DEF Step, DocInv
<1> QED BY <1>9 DEF e

LEMMA EnsureIndexStep ==
    ASSUME NEW d, DocInv(d)
    PROVE  Step(d, EnsureIndex(d))
BY BuildIndexStep, StepItself DEF EnsureIndex

(* New paragraphs: their nodes are at or above the next fresh node, so they *)
(* are neither in the tree nor known to the manifest.                       *)
LEMMA AddParagraphsStep ==
    ASSUME NEW d, DocInv(d), NEW at \in 0..Len(d.dom),
           NEW parent \in (1..(d.fresh - 1)) \cup {NoHost},
           NEW shape, IsShape(shape), NEW by \in Nat
    PROVE  Step(d, AddParagraphs(d, at, parent, shape, by))
<1> DEFINE e == AddParagraphs(d, at, parent, shape, by)
           last == d.fresh + Len(shape) - 1
           Node == 1..last
           new == NewNodes(d, shape)
           tops == Tops(d, shape)
           dom == Splice(d.dom, at, new)
           host == [n \in Node |-> IF n < d.fresh THEN d.host[n]
                                   ELSE HostIn(d, parent, shape, n - d.fresh + 1)]
           body == [n \in Node |-> IF n < d.fresh THEN d.body[n]
                                   ELSE <<<<by, n - d.fresh + 1>>>>]
           m == BindNew(d.manifest, tops)
<1>1. /\ shape \in Seq(BOOLEAN) /\ Len(shape) \in Nat /\ DOMAIN shape = 1..Len(shape)
      /\ shape # <<>> => ~shape[1]
  BY LenProperties DEF IsShape
<1>2. /\ d.fresh \in Nat \ {0}
      /\ d.dom \in Seq(1..(d.fresh - 1)) /\ IsOneToOne(d.dom)
      /\ d.host \in [1..(d.fresh - 1) -> (1..(d.fresh - 1)) \cup {NoHost}]
      /\ d.body \in [1..(d.fresh - 1) -> Seq(Mark)]
      /\ ManifestOK(d.manifest, d.fresh)
  BY DEF DocInv, TreeOK
<1>3. last \in Nat /\ last + 1 \in Nat \ {0} /\ d.fresh <= last + 1 /\ last = (last + 1) - 1
  BY <1>1, <1>2
<1>4. 1..(d.fresh - 1) \subseteq Node /\ d.fresh..last \subseteq Node
  BY <1>1, <1>2
<1>5. (1..(d.fresh - 1)) \cap (d.fresh..last) = {}
  BY <1>1, <1>2
<1>6. /\ new \in Seq(d.fresh..last) /\ IsOneToOne(new)
      /\ tops \in Seq(d.fresh..last) /\ IsOneToOne(tops)
  BY <1>1, <1>2, NewNodesProperties
<1>7. e = [dom |-> dom, host |-> host, body |-> body, fresh |-> last + 1,
           manifest |-> m, cached |-> FALSE, records |-> <<>>]
  <2>1. e = [Invalidated(d) EXCEPT !.dom = dom, !.host = host, !.body = body,
                                   !.fresh = last + 1, !.manifest = m]
    BY DEF AddParagraphs, Invalidated, DocInv, IsDocument
  <2> HIDE DEF dom, host, body, m, last
  <2> QED BY <2>1 DEF Invalidated, DocInv, IsDocument
<1> HIDE DEF e, new, tops
<1>8. dom \in Seq(Node) /\ IsOneToOne(dom)
  <2>1. d.dom \in Seq(Node) /\ new \in Seq(Node)
    BY <1>2, <1>4, <1>6, SeqMono
  <2>2. Elems(d.dom) \cap Elems(new) = {}
    <3>1. Elems(d.dom) \subseteq 1..(d.fresh - 1)
      BY <1>2, ElemsInSet
    <3>2. Elems(new) \subseteq d.fresh..last
      BY <1>6, ElemsInSet
    <3> QED BY <3>1, <3>2, <1>5
  <2> QED BY <2>1, <2>2, <1>2, <1>6, SpliceProperties
<1>9. host \in [Node -> Node \cup {NoHost}]
  <2> SUFFICES ASSUME NEW n \in Node PROVE host[n] \in Node \cup {NoHost}
    OBVIOUS
  <2>1. CASE n < d.fresh
    <3>1. n \in 1..(d.fresh - 1)
      BY <1>2, <2>1
    <3>2. host[n] = d.host[n]
      BY <2>1
    <3> QED BY <3>1, <3>2, <1>2, <1>4
  <2>2. CASE ~(n < d.fresh)
    <3> DEFINE k == n - d.fresh + 1
               K == {j \in 1..k : ~shape[j]}
    <3>1. k \in 1..Len(shape) /\ k \in Nat
      BY <1>1, <1>2, <2>2
    <3>2. host[n] = HostIn(d, parent, shape, k)
      BY <2>2
    <3>3. CASE ~shape[k]
      BY <1>4, <3>2, <3>3 DEF HostIn
    <3>4. CASE shape[k]
      <4>1. 1 \in K
        <5>1. shape # <<>>
          BY <1>1, <3>1
        <5>2. 1 \in 1..k
          BY <3>1
        <5> QED BY <5>1, <5>2, <1>1
      <4>2. K \in SUBSET (1..k) /\ K # {}
        BY <4>1
      <4>3. Highest(K) \in K
        BY <4>2, <3>1, HighestIsMember
      <4>4. Highest(K) \in 1..k
        BY <4>3
      <4>5. host[n] = d.fresh - 1 + Highest(K)
        BY <3>2, <3>4 DEF HostIn
      <4> HIDE DEF K
      <4>6. d.fresh - 1 + Highest(K) \in Node
        BY <4>4, <3>1, <1>1, <1>2
      <4> QED BY <4>5, <4>6
    <3> QED BY <3>3, <3>4
  <2> QED BY <2>1, <2>2
<1>10. body \in [Node -> Seq(Mark)]
  <2> SUFFICES ASSUME NEW n \in Node PROVE body[n] \in Seq(Mark)
    OBVIOUS
  <2>1. CASE n < d.fresh
    <3>1. n \in 1..(d.fresh - 1)
      BY <1>2, <2>1
    <3> QED BY <2>1, <3>1, <1>2
  <2>2. CASE ~(n < d.fresh)
    <3>1. n - d.fresh + 1 \in Nat
      BY <1>2, <2>2
    <3>2. <<by, n - d.fresh + 1>> \in Mark
      BY <3>1 DEF Mark
    <3>3. body[n] = <<<<by, n - d.fresh + 1>>>>
      BY <2>2
    <3>4. <<<<by, n - d.fresh + 1>>>> \in Seq(Mark)
      BY <3>2, SingletonIsSeq
    <3> QED BY <3>3, <3>4
  <2> QED BY <2>1, <2>2
<1>11. ManifestOK(m, last + 1) /\ Follows(d.manifest, m)
  <2>1. tops \in Seq(1..((last + 1) - 1))
    <3>1. tops \in Seq(Node)
      <4> HIDE DEF dom, host, body, m, last, Node
      <4> QED BY <1>4, <1>6, SeqMono
    <3> QED BY <3>1, <1>3
  <2>2. Elems(tops) \cap DOMAIN d.manifest.byNode = {}
    <3>1. Elems(tops) \subseteq d.fresh..last
      BY <1>6, ElemsInSet
    <3>2. DOMAIN d.manifest.byNode \subseteq 1..(d.fresh - 1)
      BY <1>2 DEF ManifestOK
    <3> QED BY <3>1, <3>2, <1>5
  <2>3. PICK g \in Nat \ {0} : g = last + 1
    BY <1>3
  <2> QED BY <2>1, <2>2, <2>3, <1>2, <1>3, <1>6, BindNewOK
<1> HIDE DEF dom, host, body, m, last
<1>12. IsDocument(e)
  BY <1>7 DEF IsDocument
<1>13. TreeOK(e)
  BY <1>3, <1>7, <1>8, <1>9, <1>10, EmptySeq DEF TreeOK
<1>14. Step(d, e)
  BY <1>7, <1>11, <1>12, <1>13 DEF Step, DocInv
<1> QED BY <1>14 DEF e

(* The positions at which a paragraph that resolves is found. *)
LEMMA PlaceOfTarget ==
    ASSUME NEW d, DocInv(d), NEW id, Resolves(d, id), NEW t, t = d.manifest.byId[id]
    PROVE  /\ t \in 1..(d.fresh - 1)
           /\ d.host[t] \in (1..(d.fresh - 1)) \cup {NoHost}
           /\ PosOf(d.dom, t) - 1 \in 0..Len(d.dom)
           /\ EndOf(d, t) \in 0..Len(d.dom)
<1> DEFINE K == {i \in 1..Len(d.dom) : d.dom[i] \in Subtrees(d, {t})}
<1>1. /\ d.dom \in Seq(1..(d.fresh - 1)) /\ Len(d.dom) \in Nat /\ DOMAIN d.dom = 1..Len(d.dom)
      /\ d.host \in [1..(d.fresh - 1) -> (1..(d.fresh - 1)) \cup {NoHost}]
  BY LenProperties DEF DocInv, TreeOK
<1>2. t \in Elems(d.dom)
  BY DEF Resolves, InTree
<1>3. t \in 1..(d.fresh - 1)
  BY <1>1, <1>2, ElemsInSet
<1>4. PosOf(d.dom, t) \in 1..Len(d.dom) /\ d.dom[PosOf(d.dom, t)] = t
  BY <1>1, <1>2, PosOfProperties
<1>5. PosOf(d.dom, t) \in K
  BY <1>4 DEF Subtrees
<1>6. K \in SUBSET (1..Len(d.dom)) /\ K # {}
  BY <1>5
<1>7. EndOf(d, t) = Highest(K)
  BY DEF EndOf
<1> HIDE DEF K
<1>8. Highest(K) \in 1..Len(d.dom)
  BY <1>1, <1>6, HighestIsMember
<1>9. PosOf(d.dom, t) - 1 \in 0..Len(d.dom)
  BY <1>1, <1>4
<1>10. EndOf(d, t) \in 0..Len(d.dom)
  BY <1>1, <1>7, <1>8
<1> QED BY <1>1, <1>3, <1>9, <1>10

LEMMA InsertBeforeStep ==
    ASSUME NEW d, DocInv(d), NEW id, Resolves(d, id), NEW shape, IsShape(shape), NEW by \in Nat
    PROVE  Step(d, InsertParaBefore(d, id, shape, by))
<1>1. PICK t : t = d.manifest.byId[id]
  OBVIOUS
<1>2. PICK at \in 0..Len(d.dom), parent \in (1..(d.fresh - 1)) \cup {NoHost} :
        at = PosOf(d.dom, t) - 1 /\ parent = d.host[t]
  BY <1>1, PlaceOfTarget
<1>3. Step(d, AddParagraphs(d, at, parent, shape, by))
  BY AddParagraphsStep
<1> QED BY <1>1, <1>2, <1>3 DEF InsertParaBefore

LEMMA InsertAfterStep ==
    ASSUME NEW d, DocInv(d), NEW id, Resolves(d, id), NEW shape, IsShape(shape), NEW by \in Nat
    PROVE  Step(d, InsertParaAfter(d, id, shape, by))
<1>1. PICK t : t = d.manifest.byId[id]
  OBVIOUS
<1>2. PICK at \in 0..Len(d.dom), parent \in (1..(d.fresh - 1)) \cup {NoHost} :
        at = EndOf(d, t) /\ parent = d.host[t]
  BY <1>1, PlaceOfTarget
<1>3. Step(d, AddParagraphs(d, at, parent, shape, by))
  BY AddParagraphsStep
<1> QED BY <1>1, <1>2, <1>3 DEF InsertParaAfter

(* replace_para: the ID goes, the new paragraphs come, the old node goes. *)
LEMMA ReplaceStep ==
    ASSUME NEW d, DocInv(d), NEW id, Resolves(d, id), NEW shape, IsShape(shape), NEW by \in Nat
    PROVE  Step(d, ReplacePara(d, id, shape, by))
<1>1. PICK t, m : t = d.manifest.byId[id] /\ m = InvalidateAll(d.manifest, {id})
  OBVIOUS
<1>2. PICK d1 : d1 = [d EXCEPT !.manifest = m]
  OBVIOUS
<1>3. Step(d, d1)
  <2>1. ManifestOK(m, d.fresh) /\ Follows(d.manifest, m)
    BY <1>1, InvalidateAllOK DEF DocInv, TreeOK
  <2> QED BY <2>1, <1>2, ManifestStep
<1>4. d1.dom = d.dom /\ d1.fresh = d.fresh
  BY <1>2 DEF DocInv, IsDocument
<1>5. PICK at \in 0..Len(d1.dom), parent \in (1..(d1.fresh - 1)) \cup {NoHost} :
        at = PosOf(d.dom, t) - 1 /\ parent = d.host[t]
  BY <1>1, <1>4, PlaceOfTarget
<1>6. PICK d2 : d2 = AddParagraphs(d1, at, parent, shape, by)
  OBVIOUS
<1>7. Step(d1, d2)
  BY <1>3, <1>6, AddParagraphsStep DEF Step
<1>8. PICK S : S = Subtrees(d, {t})
  OBVIOUS
<1>9. PICK e : e = [d2 EXCEPT !.dom = Without(@, S)]
  OBVIOUS
<1>10. Step(d2, e)
  BY <1>7, <1>9, ShrinkStep DEF Step
<1>11. Step(d, d2)
  BY <1>3, <1>7, StepTransitive
<1>12. Step(d, e)
  BY <1>10, <1>11, StepTransitive
<1>13. ReplacePara(d, id, shape, by) = e
  BY <1>1, <1>2, <1>5, <1>6, <1>8, <1>9 DEF ReplacePara
<1> QED BY <1>12, <1>13

LEMMA DeleteStep ==
    ASSUME NEW d, DocInv(d), NEW ids
    PROVE  Step(d, DeletePara(d, ids))
<1>1. PICK S, m : /\ S = Subtrees(d, {d.manifest.byId[i] : i \in ids})
                  /\ m = InvalidateAll(d.manifest, ids)
  OBVIOUS
<1>2. PICK d1 : d1 = Invalidated(d)
  OBVIOUS
<1>3. Step(d, d1) /\ d1.manifest = d.manifest /\ d1.fresh = d.fresh /\ d1.dom = d.dom
  <2>1. Step(d, d1)
    BY <1>2, InvalidatedStep
  <2> QED BY <2>1, <1>2 DEF Invalidated, DocInv, IsDocument
<1>4. PICK d2 : d2 = [d1 EXCEPT !.manifest = m]
  OBVIOUS
<1>5. Step(d1, d2)
  <2>1. ManifestOK(m, d1.fresh) /\ Follows(d1.manifest, m)
    BY <1>1, <1>3, InvalidateAllOK DEF DocInv, TreeOK
  <2> QED BY <2>1, <1>3, <1>4, ManifestStep DEF Step
<1>6. PICK e : e = [d2 EXCEPT !.dom = Without(@, S)]
  OBVIOUS
<1>7. Step(d2, e)
  BY <1>5, <1>6, ShrinkStep DEF Step
<1>8. Step(d, e)
  <2>1. Step(d, d2)
    BY <1>3, <1>5, StepTransitive
  <2> QED BY <2>1, <1>7, StepTransitive
<1>9. DeletePara(d, ids) = e
  <2>1. PICK dom : dom = Without(d.dom, S)
    OBVIOUS
  <2>2. DeletePara(d, ids) = [d1 EXCEPT !.dom = dom, !.manifest = m]
    BY <1>1, <1>2, <1>3, <2>1 DEF DeletePara
  <2>3. d1 = [dom |-> d1.dom, host |-> d1.host, body |-> d1.body, fresh |-> d1.fresh,
              manifest |-> d1.manifest, cached |-> d1.cached, records |-> d1.records]
    BY <1>3 DEF Step, DocInv, IsDocument
  <2>4. d2 = [dom |-> d1.dom, host |-> d1.host, body |-> d1.body, fresh |-> d1.fresh,
              manifest |-> m, cached |-> d1.cached, records |-> d1.records]
    BY <1>4, <2>3
  <2>5. e = [dom |-> dom, host |-> d1.host, body |-> d1.body, fresh |-> d1.fresh,
             manifest |-> m, cached |-> d1.cached, records |-> d1.records]
    <3>1. e = [d2 EXCEPT !.dom = dom]
      BY <1>3, <1>6, <2>1, <2>4
    <3> QED BY <3>1, <2>4
  <2>6. PICK f : f = [d1 EXCEPT !.dom = dom, !.manifest = m]
    OBVIOUS
  <2>7. f = [dom |-> dom, host |-> d1.host, body |-> d1.body, fresh |-> d1.fresh,
             manifest |-> m, cached |-> d1.cached, records |-> d1.records]
    BY <2>3, <2>6
  <2> QED BY <2>2, <2>5, <2>6, <2>7
<1> QED BY <1>8, <1>9

LEMMA TextEditStep ==
    ASSUME NEW d, DocInv(d), NEW id, NEW by \in Nat, NEW hit, NEW gone
    PROVE  Step(d, TextEdit(d, id, by, hit, gone))
<1>1. PICK body : body = [n \in DOMAIN d.body |->
                            IF n \in {d.manifest.byId[id]} \cup hit
                            THEN Append(d.body[n], <<by, 0>>) ELSE d.body[n]]
  OBVIOUS
<1>2. PICK d1 : d1 = [d EXCEPT !.body = body]
  OBVIOUS
<1>3. d1 = [dom |-> d.dom, host |-> d.host, body |-> body, fresh |-> d.fresh,
            manifest |-> d.manifest, cached |-> d.cached, records |-> d.records]
  BY <1>2 DEF DocInv, IsDocument
<1>4. body \in [1..(d.fresh - 1) -> Seq(Mark)]
  <2>1. d.body \in [1..(d.fresh - 1) -> Seq(Mark)]
    BY DEF DocInv, TreeOK
  <2>2. <<by, 0>> \in Mark
    BY DEF Mark
  <2>3. \A n \in 1..(d.fresh - 1) : Append(d.body[n], <<by, 0>>) \in Seq(Mark)
    BY <2>1, <2>2, AppendProperties
  <2> QED BY <1>1, <2>1, <2>3
<1>5. Step(d, d1)
  <2>1. IsDocument(d1)
    BY <1>3 DEF IsDocument
  <2>2. TreeOK(d1)
    BY <1>3, <1>4 DEF DocInv, TreeOK
  <2>3. ManifestOK(d1.manifest, d1.fresh) /\ Follows(d.manifest, d1.manifest)
    BY <1>3, FollowsItself DEF DocInv, ManifestOK
  <2> QED BY <2>1, <2>2, <2>3 DEF Step, DocInv
<1>6. PICK e : e = [d1 EXCEPT !.dom = Without(@, gone)]
  OBVIOUS
<1>7. Step(d, e)
  <2>1. Step(d1, e)
    BY <1>5, <1>6, ShrinkStep DEF Step
  <2> QED BY <2>1, <1>5, StepTransitive
<1>8. TextEdit(d, id, by, hit, gone) = e
  <2>1. PICK dom : dom = Without(d.dom, gone)
    OBVIOUS
  <2>2. PICK f : f = [d EXCEPT !.body = body, !.dom = dom]
    OBVIOUS
  <2>3. f = TextEdit(d, id, by, hit, gone)
    BY <1>1, <2>1, <2>2 DEF TextEdit, DocInv, IsDocument
  <2>4. f = [dom |-> dom, host |-> d.host, body |-> body, fresh |-> d.fresh,
             manifest |-> d.manifest, cached |-> d.cached, records |-> d.records]
    BY <2>2 DEF DocInv, IsDocument
  <2>5. e = [d1 EXCEPT !.dom = dom]
    BY <1>3, <1>6, <2>1
  <2>6. e = [dom |-> dom, host |-> d.host, body |-> body, fresh |-> d.fresh,
             manifest |-> d.manifest, cached |-> d.cached, records |-> d.records]
    BY <1>3, <2>5
  <2> QED BY <2>3, <2>4, <2>6
<1> QED BY <1>7, <1>8
-----------------------------------------------------------------------------
(* The document that open() indexes: no ID is bound yet, and a paragraph of *)
(* the file that is in no text box has no host.                             *)
LEMMA OpenedUnindexed ==
    \E e : /\ DocInv(e) /\ Opened = BuildIndex(e)
          /\ Ids(e.manifest) = {} /\ e.fresh = Len(InitialShape) + 1
          /\ \A k \in 1..Len(InitialShape) : ~InitialShape[k] => e.host[k] = NoHost
<1>1. PICK n, shape : n = Len(InitialShape) /\ shape = InitialShape
  OBVIOUS
<1>2. /\ IsShape(shape) /\ shape \in Seq(BOOLEAN) /\ n = Len(shape) /\ n \in Nat
      /\ DOMAIN shape = 1..n /\ (shape # <<>> => ~shape[1])
  BY <1>1, ShapeAssumption, LenProperties DEF IsShape
<1>3. PICK d0 : d0 = [dom |-> <<>>, host |-> <<>>, body |-> <<>>, fresh |-> 1,
                      manifest |-> EmptyManifest, cached |-> FALSE, records |-> <<>>]
  OBVIOUS
<1>4. PICK dom, host, body : /\ dom = [i \in 1..n |-> i]
                             /\ host = [i \in 1..n |-> HostIn(d0, NoHost, shape, i)]
                             /\ body = [i \in 1..n |-> <<>>]
  OBVIOUS
<1>5. PICK e : e = [d0 EXCEPT !.dom = dom, !.host = host, !.body = body, !.fresh = n + 1]
  OBVIOUS
<1>6. Opened = BuildIndex(e)
  BY <1>1, <1>3, <1>4, <1>5 DEF Opened
<1>7. e = [dom |-> dom, host |-> host, body |-> body, fresh |-> n + 1,
           manifest |-> EmptyManifest, cached |-> FALSE, records |-> <<>>]
  BY <1>3, <1>5
<1>8. IsDocument(e)
  BY <1>7 DEF IsDocument
<1>9. n + 1 \in Nat \ {0} /\ (n + 1) - 1 = n
  BY <1>2
<1>10. dom \in Seq(1..n) /\ IsOneToOne(dom)
  <2>1. dom \in [1..n -> 1..n]
    BY <1>4
  <2> QED BY <2>1, <1>2, <1>4, FunctionIsSeq DEF IsOneToOne
<1>11. host \in [1..n -> (1..n) \cup {NoHost}]
  <2> SUFFICES ASSUME NEW k \in 1..n
               PROVE  HostIn(d0, NoHost, shape, k) \in (1..n) \cup {NoHost}
    BY <1>4
  <2>1. CASE ~shape[k]
    BY <2>1 DEF HostIn
  <2>2. CASE shape[k]
    <3> DEFINE K == {j \in 1..k : ~shape[j]}
    <3>1. shape # <<>> /\ 1 \in 1..k /\ k \in Nat
      BY <1>2
    <3>2. K \in SUBSET (1..k) /\ K # {}
      BY <3>1, <1>2
    <3>3. HostIn(d0, NoHost, shape, k) = d0.fresh - 1 + Highest(K) /\ d0.fresh = 1
      BY <2>2, <1>3 DEF HostIn
    <3> HIDE DEF K
    <3>4. Highest(K) \in 1..k
      BY <3>1, <3>2, HighestIsMember
    <3>5. d0.fresh - 1 + Highest(K) \in 1..n
      BY <3>3, <3>4, <1>2
    <3> QED BY <3>3, <3>5
  <2> QED BY <2>1, <2>2
<1>12. body \in [1..n -> Seq(Mark)]
  <2>1. <<>> \in Seq(Mark)
    BY EmptySeq
  <2> QED BY <2>1, <1>4
<1>13. TreeOK(e)
  <2>1. e.records \in Seq([id : Nat \ {0}, node : 1..(e.fresh - 1)])
    BY <1>7, EmptySeq
  <2> QED BY <2>1, <1>7, <1>9, <1>10, <1>11, <1>12 DEF TreeOK
<1>14. ManifestOK(e.manifest, e.fresh)
  BY <1>7, EmptyManifestSound DEF ManifestOK
<1>15. DocInv(e)
  BY <1>8, <1>13, <1>14 DEF DocInv
<1>16. Ids(e.manifest) = {} /\ e.fresh = Len(InitialShape) + 1
  BY <1>1, <1>7, EmptyManifestSound
<1>17. ASSUME NEW k \in 1..Len(InitialShape), ~InitialShape[k] PROVE e.host[k] = NoHost
  <2>1. k \in 1..n /\ ~shape[k]
    BY <1>1, <1>17
  <2>2. e.host[k] = HostIn(d0, NoHost, shape, k)
    BY <2>1, <1>4, <1>7
  <2> QED BY <2>1, <2>2 DEF HostIn
<1> QED BY <1>6, <1>15, <1>16, <1>17

(* The document that open() returns. *)
LEMMA OpenedOK == DocInv(Opened)
<1>1. PICK e : DocInv(e) /\ Opened = BuildIndex(e)
  BY OpenedUnindexed
<1> QED BY <1>1, BuildIndexStep DEF Step
-----------------------------------------------------------------------------
(* The invariant, and what follows from it. *)

(* Every call takes a document to one that may come after it. *)
LEMMA NextIsStep ==
    ASSUME DocInv(doc), Next
    PROVE  Step(doc, doc')
<1>1. \A shape \in NewShapes : IsShape(shape)
  BY ShapeAssumption
<1>2. Fluent \in Nat
  BY DEF Fluent
<1>3. CASE Insert
  <2>1. PICK id \in Targets, shape \in NewShapes :
           \/ doc' = InsertParaBefore(doc, id, shape, Fluent)
           \/ doc' = InsertParaAfter(doc, id, shape, Fluent)
    BY <1>3 DEF Insert
  <2>2. Resolves(doc, id) /\ IsShape(shape)
    BY <1>1 DEF Targets
  <2> QED BY <2>1, <2>2, <1>2, InsertBeforeStep, InsertAfterStep
<1>4. CASE Replace
  <2>1. PICK id \in Targets, shape \in NewShapes : doc' = ReplacePara(doc, id, shape, Fluent)
    BY <1>4 DEF Replace
  <2>2. Resolves(doc, id) /\ IsShape(shape)
    BY <1>1 DEF Targets
  <2> QED BY <2>1, <2>2, <1>2, ReplaceStep
<1>5. CASE Delete
  BY <1>5, DeleteStep DEF Delete
<1>6. CASE EditText
  <2>1. PICK id, hit, gone : doc' = TextEdit(doc, id, Fluent, hit, gone)
    BY <1>6 DEF EditText
  <2> QED BY <2>1, <1>2, TextEditStep
<1>7. CASE Read
  BY <1>7, EnsureIndexStep DEF Read
<1> QED BY <1>3, <1>4, <1>5, <1>6, <1>7 DEF Next

(* DocInv is an inductive invariant of the document. *)
THEOREM DocumentInvariant == Spec => []DocInv(doc)
<1>1. Init => DocInv(doc)
  BY OpenedOK DEF Init
<1>2. DocInv(doc) /\ [Next]_doc => DocInv(doc)'
  <2>1. ASSUME DocInv(doc), Next PROVE DocInv(doc)'
    BY <2>1, NextIsStep DEF Step
  <2>2. ASSUME DocInv(doc), UNCHANGED doc PROVE DocInv(doc)'
    BY <2>2
  <2> QED BY <2>1, <2>2
<1> QED BY <1>1, <1>2, PTL DEF Spec

(* It implies the types. *)
LEMMA DocInvTyped ==
    ASSUME NEW d, DocInv(d) PROVE Typed(d)
<1>1. TreeOK(d) /\ IsManifest(d.manifest) /\ Sound(d.manifest)
      /\ DOMAIN d.manifest.byNode \subseteq 1..(d.fresh - 1)
  BY DEF DocInv, ManifestOK
<1>2. d.manifest.byId \in [Ids(d.manifest) -> 1..(d.fresh - 1)]
  BY <1>1 DEF IsManifest, Sound, Ids
<1>3. d.manifest.byNode \in [DOMAIN d.manifest.byNode -> Nat \ {0}]
  BY <1>1 DEF IsManifest, Sound, Ids
<1> QED BY <1>1, <1>2, <1>3 DEF Typed, TreeOK, IsManifest

(* Every node mentioned in the tree, the index or the manifest was used,    *)
(* whatever the file, the contents inserted and the number of calls.        *)
THEOREM TypeCorrect == Spec => []TypeOK
<1>1. DocInv(doc) => TypeOK
  BY DocInvTyped DEF TypeOK
<1> QED BY <1>1, DocumentInvariant, PTL

(* bind, invalidate and the order list are never out of step.               *)
THEOREM ManifestAlwaysSound == Spec => []ManifestSound
<1>1. DocInv(doc) => ManifestSound
  BY DEF DocInv, ManifestOK, ManifestSound
<1> QED BY <1>1, DocumentInvariant, PTL

(* An ID never moves to another paragraph, and is never issued again.       *)
THEOREM AnchorsNeverMove == Spec => AnchorsStable
<1>1. DocInv(doc) /\ [Next]_doc => [AnchorStep]_doc
  <2>1. ASSUME DocInv(doc), Next PROVE AnchorStep
    BY <2>1, NextIsStep DEF Step, Follows, AnchorStep, Ids
  <2> QED BY <2>1
<1> QED BY <1>1, DocumentInvariant, PTL DEF Spec, AnchorsStable
-----------------------------------------------------------------------------
(* The anchors and the tree: which paragraphs have an ID, and which IDs     *)
(* stand for a paragraph that is no longer there.  DocInv does not link the *)
(* two, and the link is not preserved by its parts alone: it is Linked, of  *)
(* the invariant TreeInv.  For each operation a lemma also says which IDs   *)
(* it retires, which paragraphs it writes and brings, and, in a document    *)
(* without text boxes, how many there are afterwards: the batch engine is   *)
(* built of these calls.                                                    *)

(* The records list the paragraphs of the tree with their IDs. *)
ListsTree(d) ==
    d.records = [i \in 1..Len(d.dom) |->
                   [id |-> d.manifest.byNode[d.dom[i]], node |-> d.dom[i]]]

(* What _build_index writes: the manifest, and the records. *)
LEMMA BuiltFields ==
    ASSUME NEW d, DocInv(d), NEW e, e = BuildIndex(d)
    PROVE  /\ e.dom = d.dom /\ e.host = d.host /\ e.body = d.body /\ e.fresh = d.fresh
           /\ e.manifest = BindNew(d.manifest, Without(d.dom, DOMAIN d.manifest.byNode))
           /\ ListsTree(e)
<1>1. PICK m : m = BindNew(d.manifest, Without(d.dom, DOMAIN d.manifest.byNode))
  OBVIOUS
<1>2. PICK r : r = [i \in 1..Len(d.dom) |-> [id |-> m.byNode[d.dom[i]], node |-> d.dom[i]]]
  OBVIOUS
<1>3. PICK x : x = TRUE
  OBVIOUS
<1>4. e = [d EXCEPT !.manifest = m, !.cached = x, !.records = r]
  BY <1>1, <1>2, <1>3 DEF BuildIndex
<1>5. e = [dom |-> d.dom, host |-> d.host, body |-> d.body, fresh |-> d.fresh,
           manifest |-> m, cached |-> x, records |-> r]
  BY <1>4 DEF DocInv, IsDocument
<1>6. /\ e.dom = d.dom /\ e.host = d.host /\ e.body = d.body /\ e.fresh = d.fresh
      /\ e.manifest = m /\ e.records = r
  BY <1>5
<1>7. ListsTree(e)
  BY <1>2, <1>6 DEF ListsTree
<1> QED BY <1>1, <1>6, <1>7

(* The old nodes keep their hosts and contents, and the new ones have      *)
(* those of the shape.                                                      *)
OldNodes(e, d) ==
    \A n \in 1..(d.fresh - 1) : e.host[n] = d.host[n] /\ e.body[n] = d.body[n]
NewBodies(e, d, parent, shape, by) ==
    \A k \in 1..Len(shape) : /\ e.host[d.fresh + k - 1] = HostIn(d, parent, shape, k)
                             /\ e.body[d.fresh + k - 1] = <<<<by, k>>>>

(* What the insertion of new paragraphs at a position writes. *)
LEMMA AddedFields ==
    ASSUME NEW d, DocInv(d), NEW at, NEW parent, NEW shape, IsShape(shape), NEW by,
           NEW e, e = AddParagraphs(d, at, parent, shape, by)
    PROVE  /\ e.dom = Splice(d.dom, at, NewNodes(d, shape))
           /\ OldNodes(e, d) /\ NewBodies(e, d, parent, shape, by)
           /\ e.fresh = d.fresh + Len(shape)
           /\ e.manifest = BindNew(d.manifest, Tops(d, shape))
<1>0. PICK f, l : f = d.fresh /\ l = Len(shape) /\ f \in Nat \ {0} /\ l \in Nat
  BY LenProperties DEF DocInv, TreeOK, IsShape
<1>1. PICK dom, host, body, fresh, m :
        /\ dom = Splice(d.dom, at, NewNodes(d, shape))
        /\ host = [n \in 1..(f + l - 1) |->
                     IF n < f THEN d.host[n]
                     ELSE HostIn(d, parent, shape, n - f + 1)]
        /\ body = [n \in 1..(f + l - 1) |->
                     IF n < f THEN d.body[n] ELSE <<<<by, n - f + 1>>>>]
        /\ fresh = f + l - 1 + 1
        /\ m = BindNew(d.manifest, Tops(d, shape))
  OBVIOUS
<1>2. PICK i : i = Invalidated(d)
  OBVIOUS
<1>3. i.dom = d.dom /\ i.host = d.host /\ i.body = d.body /\ i.manifest = d.manifest
  BY <1>2 DEF Invalidated, DocInv, IsDocument
<1>4. PICK c, r : i = [dom |-> d.dom, host |-> d.host, body |-> d.body, fresh |-> d.fresh,
                       manifest |-> d.manifest, cached |-> c, records |-> r] /\ c = FALSE
  <2>1. PICK c, r : c = FALSE /\ r = <<>>
    OBVIOUS
  <2>2. i = [d EXCEPT !.cached = c, !.records = r]
    BY <2>1, <1>2 DEF Invalidated
  <2>3. i = [dom |-> d.dom, host |-> d.host, body |-> d.body, fresh |-> d.fresh,
             manifest |-> d.manifest, cached |-> c, records |-> r]
    BY <2>2 DEF DocInv, IsDocument
  <2> QED BY <2>1, <2>3
<1>5. e = [i EXCEPT !.dom = dom, !.host = host, !.body = body, !.fresh = fresh, !.manifest = m]
  BY <1>0, <1>1, <1>2, <1>3 DEF AddParagraphs
<1>6. e = [dom |-> dom, host |-> host, body |-> body, fresh |-> fresh,
           manifest |-> m, cached |-> c, records |-> r]
  BY <1>4, <1>5
<1>7. /\ e.dom = dom /\ e.host = host /\ e.body = body /\ e.fresh = fresh
      /\ e.manifest = m
  BY <1>6
<1>8. fresh = f + l
  <2>1. f + l - 1 + 1 = f + l
    BY <1>0
  <2> QED BY <2>1, <1>1
<1>9. ASSUME NEW n \in 1..(f - 1)
      PROVE  host[n] = d.host[n] /\ body[n] = d.body[n]
  <2>1. n \in 1..(f + l - 1) /\ n < f
    BY <1>0
  <2> QED BY <2>1, <1>1
<1>10. ASSUME NEW k \in 1..l
       PROVE  /\ host[f + k - 1] = HostIn(d, parent, shape, k)
              /\ body[f + k - 1] = <<<<by, k>>>>
  <2>1. PICK n \in Int : n = f + k - 1
    BY <1>0
  <2>2. n \in 1..(f + l - 1) /\ ~(n < f) /\ n - f + 1 = k
    BY <1>0, <2>1
  <2>3. host[n] = HostIn(d, parent, shape, n - f + 1)
    BY <2>2, <1>1
  <2>4. body[n] = <<<<by, n - f + 1>>>>
    BY <2>2, <1>1
  <2> QED BY <2>1, <2>2, <2>3, <2>4
<1> QED BY <1>0, <1>1, <1>7, <1>8, <1>9, <1>10 DEF OldNodes, NewBodies

(* An insertion drops the cached index. *)
LEMMA AddedDropsIndex ==
    ASSUME NEW d, DocInv(d), NEW at, NEW parent, NEW shape, NEW by
    PROVE  ~AddParagraphs(d, at, parent, shape, by).cached
BY DEF AddParagraphs, Invalidated, DocInv, IsDocument

(* The new paragraphs stand before the target, and the target's subtree is *)
(* gone; the manifest has lost the target's ID and gained the new ones.     *)
IsReplaced(d, id, shape, by, e, d1, d2) ==
    LET t == d.manifest.byId[id]
    IN  /\ DocInv(d1) /\ DocInv(d2)
        /\ d1.dom = d.dom /\ d1.host = d.host /\ d1.body = d.body /\ d1.fresh = d.fresh
        /\ d1.manifest = InvalidateAll(d.manifest, {id})
        /\ d2 = AddParagraphs(d1, PosOf(d.dom, t) - 1, d.host[t], shape, by)
        /\ e.dom = Without(d2.dom, Subtrees(d, {t}))
        /\ e.host = d2.host /\ e.body = d2.body /\ e.fresh = d2.fresh
        /\ e.manifest = d2.manifest /\ e.cached = d2.cached

(* replace_para goes by way of a document without the old ID, and one that  *)
(* has the new paragraphs too.                                              *)
LEMMA ReplacedFields ==
    ASSUME NEW d, DocInv(d), NEW id, Resolves(d, id), NEW shape, IsShape(shape), NEW by \in Nat,
           NEW e, e = ReplacePara(d, id, shape, by)
    PROVE  \E d1, d2 : IsReplaced(d, id, shape, by, e, d1, d2)
<1>0. PICK t : t = d.manifest.byId[id]
  OBVIOUS
<1>1. PICK m : m = InvalidateAll(d.manifest, {id})
  OBVIOUS
<1>2. PICK d1 : d1 = [d EXCEPT !.manifest = m]
  OBVIOUS
<1>3. DocInv(d1)
  <2>1. ManifestOK(m, d.fresh) /\ Follows(d.manifest, m)
    BY <1>1, InvalidateAllOK DEF DocInv, TreeOK
  <2> QED BY <2>1, <1>2, ManifestStep DEF Step
<1>4. /\ d1.dom = d.dom /\ d1.host = d.host /\ d1.body = d.body /\ d1.fresh = d.fresh
      /\ d1.manifest = m
  BY <1>2 DEF DocInv, IsDocument
<1>5. PICK at \in 0..Len(d1.dom), parent \in (1..(d1.fresh - 1)) \cup {NoHost} :
        at = PosOf(d.dom, t) - 1 /\ parent = d.host[t]
  BY <1>0, <1>4, PlaceOfTarget
<1>6. PICK d2 : d2 = AddParagraphs(d1, at, parent, shape, by)
  OBVIOUS
<1>7. DocInv(d2)
  BY <1>3, <1>6, AddParagraphsStep DEF Step
<1>8. PICK dom : dom = Without(d2.dom, Subtrees(d, {t}))
  OBVIOUS
<1>9. e = [d2 EXCEPT !.dom = dom]
  BY <1>0, <1>1, <1>2, <1>5, <1>6, <1>8 DEF ReplacePara
<1>10. /\ e.dom = dom /\ e.host = d2.host /\ e.body = d2.body /\ e.fresh = d2.fresh
       /\ e.manifest = d2.manifest /\ e.cached = d2.cached
  BY <1>7, <1>9 DEF DocInv, IsDocument
<1> QED BY <1>0, <1>1, <1>3, <1>4, <1>5, <1>6, <1>7, <1>8, <1>10 DEF IsReplaced

(* What delete_para writes. *)
LEMMA DeletedFields ==
    ASSUME NEW d, DocInv(d), NEW ids, NEW e, e = DeletePara(d, ids)
    PROVE  /\ e.dom = Without(d.dom, Subtrees(d, {d.manifest.byId[i] : i \in ids}))
           /\ e.host = d.host /\ e.body = d.body /\ e.fresh = d.fresh
           /\ e.manifest = InvalidateAll(d.manifest, ids)
           /\ ~e.cached
<1>1. PICK dom, m : /\ dom = Without(d.dom, Subtrees(d, {d.manifest.byId[i] : i \in ids}))
                    /\ m = InvalidateAll(d.manifest, ids)
  OBVIOUS
<1>2. PICK c, r : c = FALSE /\ r = <<>>
  OBVIOUS
<1>3. PICK i : i = [d EXCEPT !.cached = c, !.records = r]
  OBVIOUS
<1>4. i = [dom |-> d.dom, host |-> d.host, body |-> d.body, fresh |-> d.fresh,
           manifest |-> d.manifest, cached |-> c, records |-> r]
  BY <1>3 DEF DocInv, IsDocument
<1>5. e = [i EXCEPT !.dom = dom, !.manifest = m]
  <2>1. i.dom = d.dom /\ i.manifest = d.manifest
    BY <1>4
  <2> QED BY <1>1, <1>2, <1>3, <2>1 DEF DeletePara, Invalidated
<1>6. e = [dom |-> dom, host |-> d.host, body |-> d.body, fresh |-> d.fresh,
           manifest |-> m, cached |-> c, records |-> r]
  BY <1>4, <1>5
<1> QED BY <1>1, <1>2, <1>6

(* A text edit keeps all but the tree and the contents, which it marks. *)
SameRest(e, d) ==
    /\ e.host = d.host /\ e.fresh = d.fresh /\ e.manifest = d.manifest
    /\ e.cached = d.cached /\ e.records = d.records
MarkedBodies(e, d, S, by) ==
    e.body = [n \in DOMAIN d.body |->
                IF n \in S THEN Append(d.body[n], <<by, 0>>) ELSE d.body[n]]

(* What a text edit writes. *)
LEMMA EditedFields ==
    ASSUME NEW d, DocInv(d), NEW id, NEW by, NEW hit, NEW gone,
           NEW e, e = TextEdit(d, id, by, hit, gone)
    PROVE  /\ e.dom = Without(d.dom, gone)
           /\ MarkedBodies(e, d, {d.manifest.byId[id]} \cup hit, by)
           /\ SameRest(e, d)
<1>1. PICK dom, body : /\ dom = Without(d.dom, gone)
                       /\ body = [n \in DOMAIN d.body |->
                                    IF n \in {d.manifest.byId[id]} \cup hit
                                    THEN Append(d.body[n], <<by, 0>>) ELSE d.body[n]]
  OBVIOUS
<1>2. e = [d EXCEPT !.body = body, !.dom = dom]
  BY <1>1 DEF TextEdit, DocInv, IsDocument
<1>3. e = [dom |-> dom, host |-> d.host, body |-> body, fresh |-> d.fresh,
           manifest |-> d.manifest, cached |-> d.cached, records |-> d.records]
  BY <1>2 DEF DocInv, IsDocument
<1> QED BY <1>1, <1>3 DEF SameRest, MarkedBodies
-----------------------------------------------------------------------------
(* Anchors and tree: no ID stands for a node in S; a node that an ID stands *)
(* for is in the tree or was inside a text box; and a node of the tree that *)
(* is in no text box, and not in S, has an ID.                              *)
LinkedBut(dom, host, m, S) ==
    /\ \A i \in Ids(m) : /\ m.byId[i] \notin S
                         /\ m.byId[i] \in Elems(dom) \/ host[m.byId[i]] # NoHost
    /\ \A n \in Elems(dom) \ S : host[n] = NoHost => n \in DOMAIN m.byNode

(* The link as it is between calls. *)
Linked(d) == LinkedBut(d.dom, d.host, d.manifest, {})

(* Invalidating IDs takes their nodes out of the link, and no other. *)
LEMMA InvalidatedLinked ==
    ASSUME NEW m, IsManifest(m), Sound(m), NEW dom, NEW host, LinkedBut(dom, host, m, {}),
           NEW ids, ids \subseteq Ids(m), NEW S, S = {m.byId[i] : i \in ids},
           NEW r, r = InvalidateAll(m, ids)
    PROVE  LinkedBut(dom, host, r, S)
<1>1. Sound(r) /\ Ids(r) = Ids(m) \ ids /\ \A i \in Ids(r) : r.byId[i] = m.byId[i]
  BY InvalidateAllSound
<1>2. ASSUME NEW i \in Ids(r)
      PROVE  r.byId[i] \notin S /\ (r.byId[i] \in Elems(dom) \/ host[r.byId[i]] # NoHost)
  <2>1. i \in Ids(m) /\ i \notin ids /\ r.byId[i] = m.byId[i]
    BY <1>1
  <2>2. \A j \in ids : m.byId[j] # m.byId[i]
    BY <2>1 DEF Sound
  <2> QED BY <2>1, <2>2 DEF LinkedBut
<1>3. ASSUME NEW n \in Elems(dom) \ S, host[n] = NoHost
      PROVE  n \in DOMAIN r.byNode
  <2>1. n \in DOMAIN m.byNode
    BY <1>3 DEF LinkedBut
  <2>2. PICK i \in Ids(m) : m.byId[i] = n
    BY <2>1 DEF Sound
  <2>3. i \in Ids(r) /\ r.byId[i] = n
    BY <1>1, <2>2
  <2> QED BY <1>1, <2>3 DEF Sound
<1> QED BY <1>2, <1>3 DEF LinkedBut

(* Nodes without an ID, and boxed ones, may leave the tree. *)
LEMMA ShrunkLinked ==
    ASSUME NEW T, NEW dom \in Seq(T), NEW host, NEW m, NEW S, LinkedBut(dom, host, m, S),
           NEW R, S \subseteq R, \A n \in R \ S : host[n] # NoHost
    PROVE  LinkedBut(Without(dom, R), host, m, {})
<1>1. Elems(Without(dom, R)) = Elems(dom) \ R
  BY WithoutProperties
<1> QED BY <1>1 DEF LinkedBut

(* A paragraph of a shape that is in a text box has one of the shape's       *)
(* top-level paragraphs as its host.                                         *)
LEMMA HostIsTop ==
    ASSUME NEW d, d.fresh \in Nat \ {0}, NEW parent, NEW shape, IsShape(shape),
           NEW k \in 1..Len(shape), shape[k]
    PROVE  /\ HostIn(d, parent, shape, k) \in d.fresh..(d.fresh + Len(shape) - 1)
           /\ HostIn(d, parent, shape, k) # NoHost
<1> DEFINE K == {j \in 1..k : ~shape[j]}
<1>1. Len(shape) \in Nat /\ shape # <<>> /\ ~shape[1] /\ k \in Nat /\ 1 \in 1..k
  BY LenProperties DEF IsShape
<1>2. K \in SUBSET (1..k) /\ K # {}
  BY <1>1
<1>3. HostIn(d, parent, shape, k) = d.fresh - 1 + Highest(K)
  BY DEF HostIn
<1> HIDE DEF K
<1>4. Highest(K) \in 1..k
  BY <1>1, <1>2, HighestIsMember
<1> QED BY <1>1, <1>3, <1>4 DEF NoHost

(* The nodes of the new paragraphs, and of the top-level ones among them. *)
LEMMA NewNodesElems ==
    ASSUME NEW d, d.fresh \in Nat \ {0}, NEW shape \in Seq(BOOLEAN)
    PROVE  /\ Elems(NewNodes(d, shape)) = d.fresh..(d.fresh + Len(shape) - 1)
           /\ Elems(Tops(d, shape)) =
                {d.fresh + k - 1 : k \in {j \in 1..Len(shape) : ~shape[j]}}
           /\ Len(Tops(d, shape)) = Cardinality({j \in 1..Len(shape) : ~shape[j]})
           /\ Len(Tops(d, shape)) \in Nat
<1> DEFINE new == NewNodes(d, shape)
           K == {j \in 1..Len(shape) : ~shape[j]}
<1>1. Len(shape) \in Nat
  BY LenProperties
<1>2. new = [k \in 1..Len(shape) |-> d.fresh + k - 1]
  BY DEF NewNodes
<1>3. new \in Seq(d.fresh..(d.fresh + Len(shape) - 1)) /\ Len(new) = Len(shape)
  BY <1>1, <1>2, NewNodesProperties
<1>4. Tops(d, shape) = Keep(new, K) /\ K \in SUBSET (1..Len(new))
  BY <1>3 DEF Tops
<1>5. Elems(new) = d.fresh..(d.fresh + Len(shape) - 1)
  <2>1. ASSUME NEW n \in d.fresh..(d.fresh + Len(shape) - 1)
        PROVE  n \in Elems(new)
    <3>1. n - d.fresh + 1 \in 1..Len(shape) /\ new[n - d.fresh + 1] = n
      BY <1>1, <1>2
    <3> QED BY <3>1, <1>2 DEF Elems
  <2>2. Elems(new) \subseteq d.fresh..(d.fresh + Len(shape) - 1)
    BY <1>3, ElemsInSet
  <2> QED BY <2>1, <2>2
<1> HIDE DEF new
<1>6. /\ Elems(Keep(new, K)) = {new[k] : k \in K}
      /\ Len(Keep(new, K)) = Cardinality(K) /\ Cardinality(K) \in Nat
  <2> HIDE DEF K
  <2> QED BY <1>3, <1>4, KeepProperties
<1>7. {new[k] : k \in K} = {d.fresh + k - 1 : k \in K}
  BY <1>2
<1> QED BY <1>4, <1>5, <1>6, <1>7 DEF new

(* The top-level ones of the new paragraphs get the next IDs. *)
NewIdsBound(e, d, shape) ==
    LET tops == Tops(d, shape)
    IN  /\ Ids(e.manifest) =
             Ids(d.manifest) \cup d.manifest.next..(d.manifest.next + Len(tops) - 1)
        /\ \A j \in 1..Len(tops) : e.manifest.byId[d.manifest.next + j - 1] = tops[j]

(* The tree has the new paragraphs besides the old ones. *)
NodesAdded(e, d, shape) ==
    Elems(e.dom) = Elems(d.dom) \cup d.fresh..(d.fresh + Len(shape) - 1)

(* New paragraphs: the top-level ones get IDs, the others have hosts. *)
LEMMA AddedLinked ==
    ASSUME NEW d, DocInv(d), NEW S, S \subseteq 1..(d.fresh - 1),
           LinkedBut(d.dom, d.host, d.manifest, S),
           NEW at \in 0..Len(d.dom), NEW parent, NEW shape, IsShape(shape), NEW by,
           NEW e, e = AddParagraphs(d, at, parent, shape, by)
    PROVE  /\ LinkedBut(e.dom, e.host, e.manifest, S)
           /\ NodesAdded(e, d, shape)
           /\ NewIdsBound(e, d, shape)
<1>1. PICK last, new, tops : /\ last = d.fresh + Len(shape) - 1
                             /\ new = NewNodes(d, shape) /\ tops = Tops(d, shape)
  OBVIOUS
<1>2. shape \in Seq(BOOLEAN) /\ d.fresh \in Nat \ {0} /\ d.dom \in Seq(1..(d.fresh - 1))
  BY DEF IsShape, DocInv, TreeOK
<1>3. d.fresh \in Nat \ {0} /\ Len(shape) \in Nat
  BY <1>2, LenProperties
<1>4. /\ e.dom = Splice(d.dom, at, new)
      /\ OldNodes(e, d) /\ NewBodies(e, d, parent, shape, by)
      /\ e.manifest = BindNew(d.manifest, tops)
  BY <1>1, AddedFields
<1>5. /\ new \in Seq(d.fresh..last) /\ IsOneToOne(new)
      /\ tops \in Seq(d.fresh..last) /\ IsOneToOne(tops)
  BY <1>1, <1>2, NewNodesProperties
<1>6. /\ Elems(new) = d.fresh..last
      /\ Elems(tops) = {d.fresh + k - 1 : k \in {j \in 1..Len(shape) : ~shape[j]}}
  BY <1>1, <1>2, NewNodesElems
<1>7. Elems(e.dom) = Elems(d.dom) \cup d.fresh..last
  <2>1. d.dom \in Seq(Nat) /\ new \in Seq(Nat)
    <3>1. 1..(d.fresh - 1) \subseteq Nat /\ d.fresh..last \subseteq Nat
      BY <1>1, <1>3
    <3> QED BY <3>1, <1>2, <1>5, SeqMono
  <2>2. Elems(Splice(d.dom, at, new)) = Elems(d.dom) \cup Elems(new)
    BY <2>1, SpliceProperties
  <2> QED BY <2>2, <1>4, <1>6
<1>8. /\ IsManifest(d.manifest) /\ Sound(d.manifest)
      /\ DOMAIN d.manifest.byNode \subseteq 1..(d.fresh - 1)
  BY DEF DocInv, ManifestOK
<1>9. Elems(tops) \subseteq d.fresh..last
  BY <1>5, ElemsInSet
<1>10. tops \in Seq(Nat) /\ Elems(tops) \cap DOMAIN d.manifest.byNode = {}
  <2>1. d.fresh..last \subseteq Nat /\ (d.fresh..last) \cap (1..(d.fresh - 1)) = {}
    BY <1>1, <1>3
  <2> QED BY <2>1, <1>5, <1>8, <1>9, SeqMono
<1>11. /\ Ids(e.manifest) = Ids(d.manifest) \cup d.manifest.next..(d.manifest.next + Len(tops) - 1)
       /\ DOMAIN e.manifest.byNode = DOMAIN d.manifest.byNode \cup Elems(tops)
       /\ \A i \in Ids(d.manifest) : e.manifest.byId[i] = d.manifest.byId[i]
       /\ \A j \in 1..Len(tops) : e.manifest.byId[d.manifest.next + j - 1] = tops[j]
  BY <1>4, <1>5, <1>8, <1>10, BindNewSound
<1>12. ASSUME NEW i \in Ids(e.manifest)
       PROVE  /\ e.manifest.byId[i] \notin S
              /\ e.manifest.byId[i] \in Elems(e.dom) \/ e.host[e.manifest.byId[i]] # NoHost
  <2>1. CASE i \in Ids(d.manifest)
    <3>1. PICK n : n = d.manifest.byId[i] /\ n = e.manifest.byId[i]
      BY <2>1, <1>11
    <3>2. n \notin S /\ (n \in Elems(d.dom) \/ d.host[n] # NoHost)
      BY <2>1, <3>1 DEF LinkedBut
    <3>3. n \in 1..(d.fresh - 1)
      BY <2>1, <3>1, <1>8 DEF Sound
    <3> QED BY <3>1, <3>2, <3>3, <1>4, <1>7 DEF OldNodes
  <2>2. CASE i \notin Ids(d.manifest)
    <3>1. i \in d.manifest.next..(d.manifest.next + Len(tops) - 1)
      BY <2>2, <1>11
    <3>2. d.manifest.next \in Nat /\ Len(tops) \in Nat
      BY <1>8, <1>10, LenProperties DEF IsManifest
    <3>3. PICK j \in 1..Len(tops) : i = d.manifest.next + j - 1
      <4>1. /\ i - d.manifest.next + 1 \in 1..Len(tops)
            /\ i = d.manifest.next + (i - d.manifest.next + 1) - 1
        BY <3>1, <3>2
      <4> QED BY <4>1
    <3>4. e.manifest.byId[i] = tops[j]
      BY <3>3, <1>11
    <3>5. tops[j] \in Elems(tops)
      BY <1>5, LenProperties DEF Elems
    <3>6. e.manifest.byId[i] \in d.fresh..last
      BY <3>4, <3>5, <1>9
    <3>7. e.manifest.byId[i] \notin 1..(d.fresh - 1)
      BY <3>6, <1>3
    <3> QED BY <3>6, <3>7, <1>7
  <2> QED BY <2>1, <2>2
<1>13. ASSUME NEW n \in Elems(e.dom) \ S, e.host[n] = NoHost
       PROVE  n \in DOMAIN e.manifest.byNode
  <2>1. CASE n \in Elems(d.dom)
    <3>1. n \in 1..(d.fresh - 1)
      BY <2>1, <1>2, ElemsInSet
    <3>2. d.host[n] = NoHost
      BY <3>1, <1>4, <1>13 DEF OldNodes
    <3> QED BY <2>1, <3>2, <1>11 DEF LinkedBut
  <2>2. CASE n \in d.fresh..last
    <3>1. PICK k : k = n - d.fresh + 1
      OBVIOUS
    <3>2. k \in 1..Len(shape) /\ n = d.fresh + k - 1
      BY <2>2, <3>1, <1>1, <1>3
    <3>3. e.host[n] = HostIn(d, parent, shape, k)
      BY <3>2, <1>4 DEF NewBodies
    <3>4. ~shape[k]
      <4>1. ASSUME shape[k] PROVE FALSE
        <5>1. HostIn(d, parent, shape, k) # NoHost
          BY <4>1, <3>2, <1>2, HostIsTop
        <5> QED BY <5>1, <3>3, <1>13
      <4> QED BY <4>1
    <3>5. n \in Elems(tops)
      BY <3>2, <3>4, <1>6
    <3> QED BY <3>5, <1>11
  <2> QED BY <2>1, <2>2, <1>7
<1>14. LinkedBut(e.dom, e.host, e.manifest, S)
  BY <1>12, <1>13 DEF LinkedBut
<1> QED BY <1>1, <1>4, <1>7, <1>11, <1>14 DEF NewIdsBound, NodesAdded

(* _build_index leaves every node of the tree with an ID. *)
LEMMA BuiltLinked ==
    ASSUME NEW d, DocInv(d),
           \A i \in Ids(d.manifest) :
               d.manifest.byId[i] \in Elems(d.dom) \/ d.host[d.manifest.byId[i]] # NoHost,
           NEW e, e = BuildIndex(d)
    PROVE  /\ Linked(e)
           /\ Elems(d.dom) \subseteq DOMAIN e.manifest.byNode
           /\ Ids(d.manifest) \subseteq Ids(e.manifest)
<1> DEFINE nodes == Without(d.dom, DOMAIN d.manifest.byNode)
<1>1. /\ d.fresh \in Nat \ {0} /\ d.dom \in Seq(1..(d.fresh - 1)) /\ IsOneToOne(d.dom)
      /\ IsManifest(d.manifest) /\ Sound(d.manifest)
  BY DEF DocInv, TreeOK, ManifestOK
<1>2. e.dom = d.dom /\ e.host = d.host /\ e.manifest = BindNew(d.manifest, nodes)
  BY BuiltFields
<1>3. /\ nodes \in Seq(1..(d.fresh - 1)) /\ IsOneToOne(nodes)
      /\ Elems(nodes) = Elems(d.dom) \ DOMAIN d.manifest.byNode
  BY <1>1, WithoutProperties
<1>4. nodes \in Seq(Nat) /\ Len(nodes) \in Nat
  <2>1. 1..(d.fresh - 1) \subseteq Nat
    BY <1>1
  <2> HIDE DEF nodes
  <2> QED BY <2>1, <1>3, SeqMono, LenProperties
<1> HIDE DEF nodes
<1>5. /\ Ids(e.manifest) = Ids(d.manifest) \cup d.manifest.next..(d.manifest.next + Len(nodes) - 1)
      /\ DOMAIN e.manifest.byNode = DOMAIN d.manifest.byNode \cup Elems(nodes)
      /\ \A i \in Ids(d.manifest) : e.manifest.byId[i] = d.manifest.byId[i]
      /\ \A j \in 1..Len(nodes) : e.manifest.byId[d.manifest.next + j - 1] = nodes[j]
  <2>1. Elems(nodes) \cap DOMAIN d.manifest.byNode = {}
    BY <1>3
  <2> QED BY <2>1, <1>1, <1>2, <1>3, <1>4, BindNewSound
<1>6. ASSUME NEW i \in Ids(e.manifest)
      PROVE  e.manifest.byId[i] \in Elems(d.dom) \/ d.host[e.manifest.byId[i]] # NoHost
  <2>1. CASE i \in Ids(d.manifest)
    BY <2>1, <1>5
  <2>2. CASE i \notin Ids(d.manifest)
    <3>1. i \in d.manifest.next..(d.manifest.next + Len(nodes) - 1) /\ d.manifest.next \in Nat
      BY <2>2, <1>1, <1>5 DEF IsManifest
    <3>2. PICK j \in 1..Len(nodes) : i = d.manifest.next + j - 1
      <4>1. i - d.manifest.next + 1 \in 1..Len(nodes)
        BY <3>1, <1>4
      <4> QED BY <4>1, <3>1
    <3>3. nodes[j] \in Elems(nodes)
      BY <1>3, LenProperties DEF Elems
    <3> QED BY <3>2, <3>3, <1>3, <1>5
  <2> QED BY <2>1, <2>2
<1>7. Elems(d.dom) \subseteq DOMAIN e.manifest.byNode
  BY <1>3, <1>5
<1> QED BY <1>2, <1>5, <1>6, <1>7 DEF Linked, LinkedBut
-----------------------------------------------------------------------------
(* What a call does to the IDs and the nodes there were. *)

(* The IDs in ids are gone, the others are still bound; a node stays where  *)
(* it was, in a text box or in none.                                        *)
Keeps(d, e, ids) ==
    /\ d.fresh <= e.fresh
    /\ Ids(d.manifest) \ ids \subseteq Ids(e.manifest)
    /\ Ids(e.manifest) \cap ids = {}
    /\ \A n \in 1..(d.fresh - 1) : e.host[n] = d.host[n]

(* Only the contents of the nodes in S are changed. *)
SameBodies(d, e, S) == \A n \in (1..(d.fresh - 1)) \ S : e.body[n] = d.body[n]

(* A call that does nothing keeps everything. *)
LEMMA KeepsItself ==
    ASSUME NEW d, DocInv(d) PROVE Keeps(d, d, {}) /\ SameBodies(d, d, {})
BY DEF Keeps, SameBodies, DocInv, TreeOK

(* What two calls in a row retire. *)
LEMMA KeepsTransitive ==
    ASSUME NEW d, NEW e, NEW f, DocInv(d), Step(d, e), Step(e, f),
           NEW I, NEW J, I \subseteq Ids(d.manifest), Keeps(d, e, I), Keeps(e, f, J)
    PROVE  Keeps(d, f, I \cup J)
<1>1. /\ d.fresh \in Nat /\ e.fresh \in Nat /\ f.fresh \in Nat
      /\ d.manifest.next \in Nat /\ e.manifest.next \in Nat /\ Sound(d.manifest)
  BY DEF Step, DocInv, TreeOK, ManifestOK, IsManifest
<1>2. d.fresh <= e.fresh /\ e.fresh <= f.fresh /\ d.manifest.next <= e.manifest.next
  BY DEF Keeps, Step, Follows
<1>3. d.fresh <= f.fresh /\ 1..(d.fresh - 1) \subseteq 1..(e.fresh - 1)
  BY <1>1, <1>2
<1>4. \A n \in 1..(d.fresh - 1) : f.host[n] = d.host[n]
  BY <1>3 DEF Keeps
<1>5. Ids(d.manifest) \ (I \cup J) \subseteq Ids(f.manifest)
  BY DEF Keeps
<1>6. ASSUME NEW i \in I, i \in Ids(f.manifest) PROVE FALSE
  <2>1. i \in 1..(d.manifest.next - 1)
    BY DEF Sound, DocInv, ManifestOK
  <2>2. i \notin Ids(e.manifest)
    BY DEF Keeps
  <2>3. i >= e.manifest.next
    BY <1>6, <2>2 DEF Step, Follows
  <2> QED BY <1>1, <1>2, <2>1, <2>3
<1>7. Ids(f.manifest) \cap (I \cup J) = {}
  BY <1>6 DEF Keeps
<1> QED BY <1>3, <1>4, <1>5, <1>7 DEF Keeps

(* What two calls in a row write. *)
LEMMA SameBodiesTransitive ==
    ASSUME NEW d, NEW e, NEW f, DocInv(d), DocInv(e), d.fresh <= e.fresh,
           NEW S, NEW T, SameBodies(d, e, S), SameBodies(e, f, T)
    PROVE  SameBodies(d, f, S \cup T)
<1>1. d.fresh \in Nat /\ e.fresh \in Nat
  BY DEF DocInv, TreeOK
<1>2. 1..(d.fresh - 1) \subseteq 1..(e.fresh - 1)
  BY <1>1
<1> QED BY <1>2 DEF SameBodies

(* The paragraphs of shape have come, inside parent, and those in gone have *)
(* left; there is no index any more.                                        *)
Brings(d, e, parent, shape, by, gone) ==
    LET tops == Tops(d, shape)
    IN  /\ e.fresh = d.fresh + Len(shape)
        /\ NewBodies(e, d, parent, shape, by)
        /\ \A j \in 1..Len(tops) : /\ d.manifest.next + j - 1 \in Ids(e.manifest)
                                   /\ e.manifest.byId[d.manifest.next + j - 1] = tops[j]
        /\ Elems(e.dom) = (Elems(d.dom) \cup d.fresh..(d.fresh + Len(shape) - 1)) \ gone
        /\ ~e.cached

(* The IDs of new paragraphs, one by one. *)
LEMMA NewIdsBrought ==
    ASSUME NEW d, d.manifest.next \in Nat, NEW e, NEW shape, NewIdsBound(e, d, shape),
           Len(Tops(d, shape)) \in Nat
    PROVE  \A j \in 1..Len(Tops(d, shape)) :
              /\ d.manifest.next + j - 1 \in Ids(e.manifest)
              /\ e.manifest.byId[d.manifest.next + j - 1] = Tops(d, shape)[j]
BY DEF NewIdsBound

(* insert_para_before and insert_para_after retire nothing. *)
LEMMA InsertedTree ==
    ASSUME NEW d, DocInv(d), Linked(d), NEW id, Resolves(d, id),
           NEW shape, IsShape(shape), NEW by,
           NEW e, \/ e = InsertParaBefore(d, id, shape, by)
                  \/ e = InsertParaAfter(d, id, shape, by)
    PROVE  /\ Linked(e) /\ Keeps(d, e, {}) /\ SameBodies(d, e, {})
           /\ Brings(d, e, d.host[d.manifest.byId[id]], shape, by, {})
<1>0. PICK parent : parent = d.host[d.manifest.byId[id]]
  OBVIOUS
<1>1. PICK at \in 0..Len(d.dom) : e = AddParagraphs(d, at, parent, shape, by)
  <2>1. PICK t : t = d.manifest.byId[id]
    OBVIOUS
  <2>2. PosOf(d.dom, t) - 1 \in 0..Len(d.dom) /\ EndOf(d, t) \in 0..Len(d.dom)
    BY <2>1, PlaceOfTarget
  <2>3. \/ e = AddParagraphs(d, PosOf(d.dom, t) - 1, parent, shape, by)
        \/ e = AddParagraphs(d, EndOf(d, t), parent, shape, by)
    BY <1>0, <2>1 DEF InsertParaBefore, InsertParaAfter
  <2> QED BY <2>2, <2>3
<1>2. LinkedBut(d.dom, d.host, d.manifest, {})
  BY DEF Linked
<1>3. /\ LinkedBut(e.dom, e.host, e.manifest, {})
      /\ NewIdsBound(e, d, shape)
      /\ NodesAdded(e, d, shape)
  BY <1>1, <1>2, AddedLinked
<1>4. /\ OldNodes(e, d) /\ NewBodies(e, d, parent, shape, by)
      /\ e.fresh = d.fresh + Len(shape)
  BY <1>1, AddedFields
<1>5. /\ d.fresh \in Nat \ {0} /\ Len(shape) \in Nat /\ d.manifest.next \in Nat
      /\ shape \in Seq(BOOLEAN)
  BY LenProperties DEF DocInv, TreeOK, ManifestOK, IsManifest, IsShape
<1>6. d.fresh <= e.fresh
  BY <1>4, <1>5
<1>7. Len(Tops(d, shape)) \in Nat
  BY <1>5, NewNodesElems
<1>8. ~e.cached
  BY <1>1, AddedDropsIndex
<1>9. Brings(d, e, parent, shape, by, {})
  BY <1>3, <1>4, <1>5, <1>7, <1>8, NewIdsBrought DEF Brings, NodesAdded
<1> QED BY <1>0, <1>3, <1>4, <1>6, <1>9 DEF Linked, Keeps, SameBodies, OldNodes, NewIdsBound

(* replace_para retires the ID of the paragraph it takes out. *)
LEMMA ReplacedTree ==
    ASSUME NEW d, DocInv(d), Linked(d), NEW id, Resolves(d, id),
           NEW shape, IsShape(shape), NEW by \in Nat,
           NEW e, e = ReplacePara(d, id, shape, by)
    PROVE  /\ Linked(e) /\ Keeps(d, e, {id}) /\ SameBodies(d, e, {})
           /\ Brings(d, e, d.host[d.manifest.byId[id]], shape, by,
                     Subtrees(d, {d.manifest.byId[id]}))
<1>1. PICK t : t = d.manifest.byId[id]
  OBVIOUS
<1>2. PICK d1, d2 : IsReplaced(d, id, shape, by, e, d1, d2)
  BY ReplacedFields
<1>a. PICK at, parent : at = PosOf(d.dom, t) - 1 /\ parent = d.host[t]
  OBVIOUS
<1>b. /\ DocInv(d1) /\ DocInv(d2)
      /\ d1.dom = d.dom /\ d1.host = d.host /\ d1.body = d.body /\ d1.fresh = d.fresh
      /\ d1.manifest = InvalidateAll(d.manifest, {id})
      /\ d2 = AddParagraphs(d1, at, parent, shape, by)
      /\ e.dom = Without(d2.dom, Subtrees(d, {t}))
      /\ e.host = d2.host /\ e.body = d2.body /\ e.fresh = d2.fresh
      /\ e.manifest = d2.manifest /\ e.cached = d2.cached
  BY <1>1, <1>a, <1>2 DEF IsReplaced
<1>3. at \in 0..Len(d1.dom) /\ t \in 1..(d.fresh - 1)
  BY <1>1, <1>a, <1>b, PlaceOfTarget
<1>4. /\ id \in Ids(d.manifest) /\ IsManifest(d.manifest) /\ Sound(d.manifest)
      /\ d.fresh \in Nat \ {0} /\ Len(shape) \in Nat
  BY LenProperties DEF Resolves, DocInv, ManifestOK, TreeOK, IsShape
<1>5. LinkedBut(d1.dom, d1.host, d1.manifest, {t})
  <2>1. {id} \subseteq Ids(d.manifest) /\ {t} = {d.manifest.byId[i] : i \in {id}}
    BY <1>1, <1>4
  <2> QED BY <2>1, <1>b, <1>4, InvalidatedLinked DEF Linked
<1>6. Ids(d1.manifest) = Ids(d.manifest) \ {id} /\ d1.manifest.next = d.manifest.next
  BY <1>b, <1>4, InvalidateAllSound
<1>7. /\ LinkedBut(d2.dom, d2.host, d2.manifest, {t})
      /\ NewIdsBound(d2, d1, shape) /\ NodesAdded(d2, d1, shape)
  <2>1. PICK S : S = {t}
    OBVIOUS
  <2>2. S \subseteq 1..(d1.fresh - 1) /\ LinkedBut(d1.dom, d1.host, d1.manifest, S)
    BY <2>1, <1>b, <1>3, <1>5
  <2>3. DocInv(d1) /\ d2 = AddParagraphs(d1, at, parent, shape, by)
    BY <1>b
  <2>4. LinkedBut(d2.dom, d2.host, d2.manifest, S)
    BY <2>2, <2>3, <1>3, AddedLinked
  <2>5. NewIdsBound(d2, d1, shape) /\ NodesAdded(d2, d1, shape)
    BY <2>2, <2>3, <1>3, AddedLinked
  <2> QED BY <2>1, <2>4, <2>5
<1>8. /\ OldNodes(d2, d1) /\ NewBodies(d2, d1, parent, shape, by)
      /\ d2.fresh = d1.fresh + Len(shape)
  BY <1>b, AddedFields
<1>9. \A n \in Subtrees(d, {t}) \ {t} : d2.host[n] # NoHost
  <2>1. ASSUME NEW n \in Subtrees(d, {t}) \ {t} PROVE d2.host[n] # NoHost
    <3>1. n \in Elems(d.dom) /\ d.host[n] = t
      BY DEF Subtrees, Boxed
    <3>2. n \in 1..(d1.fresh - 1)
      BY <3>1, <1>b, ElemsInSet DEF DocInv, TreeOK
    <3>3. d2.host[n] = t
      BY <3>1, <3>2, <1>b, <1>8 DEF OldNodes
    <3> QED BY <3>3, <1>3 DEF NoHost
  <2> QED BY <2>1
<1>10. Linked(e)
  <2>1. d2.dom \in Seq(1..(d2.fresh - 1)) /\ {t} \subseteq Subtrees(d, {t})
    BY <1>b DEF DocInv, TreeOK, Subtrees
  <2>2. LinkedBut(Without(d2.dom, Subtrees(d, {t})), d2.host, d2.manifest, {})
    BY <2>1, <1>7, <1>9, ShrunkLinked
  <2> QED BY <2>2, <1>b DEF Linked
<1>11. Ids(e.manifest) \cap {id} = {}
  <2>1. id < d.manifest.next /\ d.manifest.next \in Nat
    BY <1>4 DEF Sound, IsManifest
  <2> QED BY <2>1, <1>b, <1>6, <1>7 DEF NewIdsBound
<1>12. Ids(d.manifest) \ {id} \subseteq Ids(e.manifest)
  BY <1>b, <1>6, <1>7 DEF NewIdsBound
<1>13. d.fresh <= e.fresh
  BY <1>b, <1>4, <1>8
<1>14. OldNodes(e, d)
  BY <1>b, <1>8 DEF OldNodes
<1>15. Brings(d, e, parent, shape, by, Subtrees(d, {t}))
  <2>1. /\ shape \in Seq(BOOLEAN) /\ d.manifest.next \in Nat
        /\ NewNodes(d1, shape) = NewNodes(d, shape)
        /\ \A k : HostIn(d1, parent, shape, k) = HostIn(d, parent, shape, k)
    BY <1>4, <1>b DEF IsShape, IsManifest, NewNodes, HostIn
  <2>2. Tops(d1, shape) = Tops(d, shape) /\ Len(Tops(d1, shape)) \in Nat
    BY <2>1, <1>4, NewNodesElems DEF Tops
  <2>3. \A j \in 1..Len(Tops(d, shape)) :
           /\ d.manifest.next + j - 1 \in Ids(e.manifest)
           /\ e.manifest.byId[d.manifest.next + j - 1] = Tops(d, shape)[j]
    BY <2>1, <2>2, <1>b, <1>6, <1>7, NewIdsBrought
  <2>4. Elems(e.dom) = (Elems(d.dom) \cup d.fresh..(d.fresh + Len(shape) - 1))
                         \ Subtrees(d, {t})
    <3>1. d2.dom \in Seq(1..(d2.fresh - 1))
      BY <1>b DEF DocInv, TreeOK
    <3> QED BY <3>1, <1>b, <1>7, WithoutProperties DEF NodesAdded
  <2>5. ~e.cached
    BY <1>b, AddedDropsIndex
  <2>6. NewBodies(e, d, parent, shape, by)
    BY <2>1, <1>b, <1>8 DEF NewBodies
  <2> QED BY <2>3, <2>4, <2>5, <2>6, <1>b, <1>8 DEF Brings
<1> QED BY <1>1, <1>a, <1>10, <1>11, <1>12, <1>13, <1>14, <1>15 DEF Keeps, SameBodies, OldNodes

(* delete_para retires the IDs of the paragraphs it takes out. *)
LEMMA DeletedTree ==
    ASSUME NEW d, DocInv(d), Linked(d), NEW ids, \A i \in ids : Resolves(d, i),
           NEW e, e = DeletePara(d, ids)
    PROVE  Linked(e) /\ Keeps(d, e, ids) /\ SameBodies(d, e, {})
<1>1. PICK S : S = {d.manifest.byId[i] : i \in ids}
  OBVIOUS
<1>2. /\ e.dom = Without(d.dom, Subtrees(d, S))
      /\ e.host = d.host /\ e.body = d.body /\ e.fresh = d.fresh
      /\ e.manifest = InvalidateAll(d.manifest, ids)
  BY <1>1, DeletedFields
<1>3. /\ IsManifest(d.manifest) /\ Sound(d.manifest) /\ ids \subseteq Ids(d.manifest)
      /\ d.fresh \in Nat \ {0} /\ d.dom \in Seq(1..(d.fresh - 1))
      /\ S \subseteq Elems(d.dom)
  BY <1>1 DEF Resolves, InTree, DocInv, ManifestOK, TreeOK
<1>4. LinkedBut(d.dom, d.host, e.manifest, S)
  BY <1>1, <1>2, <1>3, InvalidatedLinked DEF Linked
<1>5. \A n \in Subtrees(d, S) \ S : d.host[n] # NoHost
  <2>1. ASSUME NEW n \in Subtrees(d, S) \ S PROVE d.host[n] # NoHost
    <3>1. d.host[n] \in S
      BY DEF Subtrees, Boxed
    <3>2. d.host[n] \in 1..(d.fresh - 1)
      BY <3>1, <1>3, ElemsInSet
    <3> QED BY <3>2, <1>3 DEF NoHost
  <2> QED BY <2>1
<1>6. Linked(e)
  <2>1. S \subseteq Subtrees(d, S)
    BY DEF Subtrees
  <2>2. LinkedBut(Without(d.dom, Subtrees(d, S)), d.host, e.manifest, {})
    BY <2>1, <1>3, <1>4, <1>5, ShrunkLinked
  <2> QED BY <2>2, <1>2 DEF Linked
<1>7. Ids(e.manifest) = Ids(d.manifest) \ ids
  BY <1>2, <1>3, InvalidateAllSound
<1>8. d.fresh <= e.fresh
  BY <1>2, <1>3
<1> QED BY <1>2, <1>6, <1>7, <1>8 DEF Keeps, SameBodies

(* A text edit retires no ID, and changes its own paragraph and those of    *)
(* its text boxes that it reaches.                                          *)
LEMMA EditedTree ==
    ASSUME NEW d, DocInv(d), Linked(d), NEW id, Resolves(d, id), NEW by, NEW hit,
           NEW t, t = d.manifest.byId[id], NEW gone \in SUBSET Boxed(d, t),
           NEW e, e = TextEdit(d, id, by, hit, gone)
    PROVE  Linked(e) /\ Keeps(d, e, {}) /\ SameBodies(d, e, {t} \cup hit)
<1>0. /\ e.dom = Without(d.dom, gone) /\ SameRest(e, d)
      /\ MarkedBodies(e, d, {t} \cup hit, by)
  BY EditedFields
<1>1. e.host = d.host /\ e.fresh = d.fresh /\ e.manifest = d.manifest
  BY <1>0 DEF SameRest
<1>2. /\ d.fresh \in Nat \ {0} /\ d.dom \in Seq(1..(d.fresh - 1))
      /\ DOMAIN d.body = 1..(d.fresh - 1)
      /\ t \in 1..(d.fresh - 1)
  BY PlaceOfTarget DEF DocInv, TreeOK
<1>3. \A n \in gone : d.host[n] # NoHost
  BY <1>2 DEF Boxed, NoHost
<1>4. Linked(e)
  <2>1. LinkedBut(d.dom, d.host, d.manifest, {}) /\ {} \subseteq gone
    BY DEF Linked
  <2>2. LinkedBut(Without(d.dom, gone), d.host, d.manifest, {})
    BY <2>1, <1>2, <1>3, ShrunkLinked
  <2> QED BY <2>2, <1>0, <1>1 DEF Linked
<1>5. SameBodies(d, e, {t} \cup hit)
  BY <1>0, <1>2 DEF SameBodies, MarkedBodies
<1>6. Keeps(d, e, {})
  BY <1>1, <1>2 DEF Keeps
<1> QED BY <1>4, <1>5, <1>6

(* Building the index retires no ID. *)
LEMMA EnsuredTree ==
    ASSUME NEW d, DocInv(d), Linked(d), NEW e, e = EnsureIndex(d)
    PROVE  /\ Linked(e) /\ Keeps(d, e, {}) /\ SameBodies(d, e, {})
           /\ e.dom = d.dom /\ e.host = d.host /\ e.body = d.body /\ e.fresh = d.fresh
<1>1. CASE d.cached
  BY <1>1, KeepsItself DEF EnsureIndex
<1>2. CASE ~d.cached
  <2>1. e = BuildIndex(d)
    BY <1>2 DEF EnsureIndex
  <2>2. e.dom = d.dom /\ e.host = d.host /\ e.body = d.body /\ e.fresh = d.fresh
    BY <2>1, BuiltFields
  <2>3. Linked(e) /\ Ids(d.manifest) \subseteq Ids(e.manifest)
    BY <2>1, BuiltLinked DEF Linked, LinkedBut
  <2>4. d.fresh <= d.fresh
    BY DEF DocInv, TreeOK
  <2> QED BY <2>2, <2>3, <2>4 DEF Keeps, SameBodies
<1> QED BY <1>1, <1>2

(* A document that has just been opened. *)
LEMMA OpenedLinked == Linked(Opened)
<1>1. PICK e : DocInv(e) /\ Opened = BuildIndex(e) /\ Ids(e.manifest) = {}
  BY OpenedUnindexed
<1>2. PICK o : o = Opened
  OBVIOUS
<1> QED BY <1>1, <1>2, BuiltLinked
-----------------------------------------------------------------------------
(* The calls of the document between batches. *)

(* Every call preserves the link. *)
LEMMA NextLinked ==
    ASSUME DocInv(doc), Linked(doc), Next
    PROVE  Linked(doc)'
<1>1. /\ \A shape \in NewShapes : IsShape(shape)
      /\ \A id \in Targets : Resolves(doc, id)
      /\ Fluent \in Nat
  BY ShapeAssumption DEF Targets, Fluent
<1>2. CASE Insert
  <2>1. PICK id \in Targets, shape \in NewShapes :
           \/ doc' = InsertParaBefore(doc, id, shape, Fluent)
           \/ doc' = InsertParaAfter(doc, id, shape, Fluent)
    BY <1>2 DEF Insert
  <2> QED BY <2>1, <1>1, InsertedTree
<1>3. CASE Replace
  <2>1. PICK id \in Targets, shape \in NewShapes : doc' = ReplacePara(doc, id, shape, Fluent)
    BY <1>3 DEF Replace
  <2> QED BY <2>1, <1>1, ReplacedTree
<1>4. CASE Delete
  <2>1. PICK ids \in SUBSET Targets : doc' = DeletePara(doc, ids)
    BY <1>4 DEF Delete
  <2> QED BY <2>1, <1>1, DeletedTree
<1>5. CASE EditText
  <2>1. PICK id \in Targets : \E hit, gone \in SUBSET Boxed(doc, doc.manifest.byId[id]) :
           doc' = TextEdit(doc, id, Fluent, hit, gone)
    BY <1>5 DEF EditText
  <2> QED BY <2>1, <1>1, EditedTree
<1>6. CASE Read
  BY <1>6, EnsuredTree DEF Read
<1> QED BY <1>2, <1>3, <1>4, <1>5, <1>6 DEF Next

(* The inductive invariant: DocInv and the link of anchors and tree. *)
TreeInv == DocInv(doc) /\ Linked(doc)

(* TreeInv holds of an open document after every sequence of calls. *)
THEOREM TreeInvariant == Spec => []TreeInv
<1>1. Init => TreeInv
  BY OpenedOK, OpenedLinked DEF Init, TreeInv
<1>2. TreeInv /\ [Next]_doc => TreeInv'
  <2>1. ASSUME TreeInv, Next PROVE TreeInv'
    BY <2>1, NextIsStep, NextLinked DEF TreeInv, Step
  <2>2. ASSUME TreeInv, UNCHANGED doc PROVE TreeInv'
    BY <2>2 DEF TreeInv
  <2> QED BY <2>1, <2>2
<1> QED BY <1>1, <1>2, PTL DEF Spec

(* A bound ID whose paragraph is not in the tree belongs to one that was in *)
(* a text box.                                                              *)
LEMMA LinkedStale ==
    ASSUME Linked(doc) PROVE StaleOnlyInBoxes
BY DEF Linked, LinkedBut, StaleOnlyInBoxes, Resolves, InTree

(* The calls of the document leave no dangling anchor but those of         *)
(* paragraphs that went with the one whose text box they were in.          *)
THEOREM AnchorsDangleOnlyInBoxes == Spec => []StaleOnlyInBoxes
<1>1. TreeInv => StaleOnlyInBoxes
  BY LinkedStale DEF TreeInv
<1> QED BY <1>1, TreeInvariant, PTL
-----------------------------------------------------------------------------
(* Sequences that are kept whole, and their lengths. *)

(* The k-th of the first n positions is k. *)
LEMMA NthOfAll ==
    ASSUME NEW n \in Nat, NEW k \in 1..n PROVE Nth(1..n, k) = k
<1>1. Cardinality(1..n) = n
  BY FS_Interval
<1>2. PICK i : i = Nth(1..n, k)
  OBVIOUS
<1>3. i \in 1..n /\ Cardinality({x \in 1..n : x <= i}) = k
  <2>1. 1..n \in SUBSET (1..n) /\ k \in 1..Cardinality(1..n)
    BY <1>1
  <2> QED BY <2>1, <1>2, NthProperties
<1>4. {x \in 1..n : x <= i} = 1..i
  BY <1>3
<1>5. Cardinality(1..i) = i
  BY <1>3, FS_Interval
<1> QED BY <1>2, <1>3, <1>4, <1>5

(* Keeping every position keeps the sequence. *)
LEMMA KeepAll ==
    ASSUME NEW S, NEW s \in Seq(S) PROVE Keep(s, 1..Len(s)) = s
<1>1. PICK n \in Nat : n = Len(s)
  BY LenProperties
<1>2. s = [k \in 1..n |-> s[k]]
  BY <1>1
<1>3. Cardinality(1..n) = n
  BY FS_Interval
<1>4. Keep(s, 1..n) = [k \in 1..n |-> s[Nth(1..n, k)]]
  BY <1>3 DEF Keep
<1>5. \A k \in 1..n : Nth(1..n, k) = k
  BY NthOfAll
<1> QED BY <1>1, <1>2, <1>4, <1>5

(* Taking out nothing that is there changes nothing. *)
LEMMA WithoutNothing ==
    ASSUME NEW T, NEW s \in Seq(T), NEW S, Elems(s) \cap S = {} PROVE Without(s, S) = s
<1>1. Len(s) \in Nat /\ DOMAIN s = 1..Len(s)
  BY LenProperties
<1>2. {i \in 1..Len(s) : s[i] \notin S} = 1..Len(s)
  BY <1>1 DEF Elems
<1> QED BY <1>2, KeepAll DEF Without

(* A sequence without repetitions is as long as it has elements. *)
LEMMA LenIsCardinality ==
    ASSUME NEW T, NEW s \in Seq(T), IsOneToOne(s)
    PROVE  IsFiniteSet(Elems(s)) /\ Cardinality(Elems(s)) = Len(s)
<1>1. PICK n \in Nat : n = Len(s)
  BY LenProperties
<1>2. s \in [1..n -> Elems(s)] /\ DOMAIN s = 1..n
  BY <1>1 DEF Elems
<1>3. s \in Bijection(1..n, Elems(s))
  <2>1. \A e \in Elems(s) : \E i \in 1..n : s[i] = e
    BY <1>2 DEF Elems
  <2>2. \A i, j \in 1..n : s[i] = s[j] => i = j
    BY <1>2 DEF IsOneToOne
  <2> QED BY <2>1, <2>2, <1>2 DEF Bijection, Injection, Surjection, IsInjective
<1>4. ExistsBijection(1..n, Elems(s))
  BY <1>3 DEF ExistsBijection
<1>5. IsFiniteSet(1..n) /\ Cardinality(1..n) = n
  BY FS_Interval
<1> QED BY <1>1, <1>4, <1>5, FS_Bijection
-----------------------------------------------------------------------------
(* Documents without text boxes. *)

(* New paragraphs, none of which is in a text box. *)
FlatShape(shape) == \A k \in 1..Len(shape) : ~shape[k]

(* No paragraph there ever was is in a text box. *)
Flat(d) == \A n \in 1..(d.fresh - 1) : d.host[n] = NoHost

(* No paragraph takes others with it. *)
LEMMA FlatBoxed ==
    ASSUME NEW d, DocInv(d), Flat(d)
    PROVE  /\ \A n \in Elems(d.dom) : Boxed(d, n) = {}
           /\ \A S \in SUBSET Elems(d.dom) : Subtrees(d, S) = S
<1>1. Elems(d.dom) \subseteq 1..(d.fresh - 1) /\ d.fresh \in Nat
  BY ElemsInSet DEF DocInv, TreeOK
<1>2. \A n \in Elems(d.dom) : Boxed(d, n) = {}
  BY <1>1 DEF Boxed, Flat, NoHost
<1> QED BY <1>2 DEF Subtrees

(* Every ID resolves, and every paragraph has one. *)
LEMMA FlatLinked ==
    ASSUME NEW d, DocInv(d), Flat(d), Linked(d)
    PROVE  /\ \A i \in Ids(d.manifest) : Resolves(d, i)
           /\ Elems(d.dom) = DOMAIN d.manifest.byNode
<1>1. /\ Elems(d.dom) \subseteq 1..(d.fresh - 1)
      /\ Sound(d.manifest) /\ DOMAIN d.manifest.byNode \subseteq 1..(d.fresh - 1)
  BY ElemsInSet DEF DocInv, TreeOK, ManifestOK
<1>2. \A i \in Ids(d.manifest) : d.manifest.byId[i] \in Elems(d.dom)
  BY <1>1 DEF Linked, LinkedBut, Flat, Sound
<1>3. Elems(d.dom) \subseteq DOMAIN d.manifest.byNode
  BY <1>1 DEF Linked, LinkedBut, Flat
<1>4. DOMAIN d.manifest.byNode \subseteq Elems(d.dom)
  BY <1>1, <1>2 DEF Sound
<1> QED BY <1>2, <1>3, <1>4 DEF Resolves, InTree

(* Nothing in a shape is in a text box: all its paragraphs get IDs. *)
LEMMA FlatTops ==
    ASSUME NEW d, d.fresh \in Nat \ {0}, NEW shape \in Seq(BOOLEAN), FlatShape(shape)
    PROVE  /\ Tops(d, shape) = NewNodes(d, shape)
           /\ Len(Tops(d, shape)) = Len(shape)
           /\ \A k \in 1..Len(shape) : Tops(d, shape)[k] = d.fresh + k - 1
<1>1. PICK new : new = NewNodes(d, shape)
  OBVIOUS
<1>2. Len(shape) \in Nat
  BY LenProperties
<1>3. new \in Seq(d.fresh..(d.fresh + Len(shape) - 1)) /\ Len(new) = Len(shape)
  BY <1>1, <1>2, NewNodesProperties DEF NewNodes
<1>4. {k \in 1..Len(shape) : ~shape[k]} = 1..Len(new)
  BY <1>3 DEF FlatShape
<1>5. Keep(new, 1..Len(new)) = new
  BY <1>3, KeepAll
<1>6. Tops(d, shape) = new
  BY <1>1, <1>4, <1>5 DEF Tops
<1> QED BY <1>1, <1>3, <1>6 DEF NewNodes

(* The paragraphs a call has brought, by the IDs it reports. *)
NamedAnew(d, e, shape, by) ==
    \A k \in 1..Len(shape) :
        /\ d.manifest.next + k - 1 \in Ids(e.manifest)
        /\ e.manifest.byId[d.manifest.next + k - 1] = d.fresh + k - 1
        /\ e.body[d.fresh + k - 1] = <<<<by, k>>>>

(* New paragraphs without text boxes leave the document without any, and    *)
(* all of them are named.                                                   *)
LEMMA FlatBrings ==
    ASSUME NEW d, DocInv(d), Flat(d), NEW e, NEW ids, Keeps(d, e, ids),
           NEW shape, IsShape(shape), FlatShape(shape), NEW by, NEW gone,
           Brings(d, e, NoHost, shape, by, gone)
    PROVE  Flat(e) /\ NamedAnew(d, e, shape, by)
<1>1. /\ d.fresh \in Nat \ {0} /\ shape \in Seq(BOOLEAN) /\ Len(shape) \in Nat
      /\ e.fresh = d.fresh + Len(shape)
  BY LenProperties DEF DocInv, TreeOK, IsShape, Brings
<1>2. /\ Len(Tops(d, shape)) = Len(shape)
      /\ \A k \in 1..Len(shape) : Tops(d, shape)[k] = d.fresh + k - 1
  BY <1>1, FlatTops
<1>3. \A k \in 1..Len(shape) : /\ e.host[d.fresh + k - 1] = NoHost
                              /\ e.body[d.fresh + k - 1] = <<<<by, k>>>>
  BY DEF Brings, NewBodies, FlatShape, HostIn
<1>4. Flat(e)
  <2>1. ASSUME NEW n \in 1..(e.fresh - 1) PROVE e.host[n] = NoHost
    <3>1. CASE n < d.fresh
      <4>1. n \in 1..(d.fresh - 1)
        BY <3>1, <1>1
      <4> QED BY <4>1 DEF Keeps, Flat
    <3>2. CASE ~(n < d.fresh)
      <4>1. PICK k \in Int : k = n - d.fresh + 1
        BY <1>1
      <4>2. k \in 1..Len(shape) /\ n = d.fresh + k - 1
        BY <3>2, <4>1, <1>1
      <4> QED BY <4>2, <1>3
    <3> QED BY <3>1, <3>2
  <2> QED BY <2>1 DEF Flat
<1>5. NamedAnew(d, e, shape, by)
  <2>1. \A j \in 1..Len(shape) :
          /\ d.manifest.next + j - 1 \in Ids(e.manifest)
          /\ e.manifest.byId[d.manifest.next + j - 1] = Tops(d, shape)[j]
    BY <1>2 DEF Brings
  <2> QED BY <2>1, <1>2, <1>3 DEF NamedAnew
<1> QED BY <1>4, <1>5

(* How the number of paragraphs changes when l come and those in gone go. *)
LEMMA GrownLength ==
    ASSUME NEW d, DocInv(d), NEW e, DocInv(e), NEW l \in Nat,
           NEW gone \in SUBSET Elems(d.dom),
           Elems(e.dom) = (Elems(d.dom) \cup d.fresh..(d.fresh + l - 1)) \ gone
    PROVE  /\ Len(e.dom) = Len(d.dom) + l - Cardinality(gone)
           /\ Len(d.dom) \in Nat /\ Cardinality(gone) \in Nat
<1>1. /\ d.fresh \in Nat \ {0} /\ d.dom \in Seq(1..(d.fresh - 1)) /\ IsOneToOne(d.dom)
      /\ e.dom \in Seq(1..(e.fresh - 1)) /\ IsOneToOne(e.dom)
  BY DEF DocInv, TreeOK
<1>2. PICK A, B, C : A = Elems(d.dom) /\ B = d.fresh..(d.fresh + l - 1) /\ C = A \cup B
  OBVIOUS
<1>3. /\ IsFiniteSet(A) /\ Cardinality(A) = Len(d.dom)
      /\ Cardinality(Elems(e.dom)) = Len(e.dom)
  BY <1>1, <1>2, LenIsCardinality
<1>4. IsFiniteSet(B) /\ Cardinality(B) = l
  <2>1. PICK a \in Int, b \in Int : a = d.fresh /\ b = d.fresh + l - 1
    BY <1>1
  <2>2. IsFiniteSet(a..b) /\ Cardinality(a..b) = IF a > b THEN 0 ELSE b - a + 1
    BY FS_Interval
  <2>3. (IF a > b THEN 0 ELSE b - a + 1) = l
    BY <2>1, <1>1
  <2> QED BY <1>2, <2>1, <2>2, <2>3
<1>5. A \cap B = {}
  BY <1>1, <1>2, ElemsInSet
<1>6. IsFiniteSet(C) /\ Cardinality(C) = Len(d.dom) + l - Cardinality(A \cap B)
  BY <1>2, <1>3, <1>4, FS_Union
<1>7. Cardinality(A \cap B) = 0
  BY <1>5, FS_EmptySet
<1>8. IsFiniteSet(gone) /\ Cardinality(gone) \in Nat
  BY <1>2, <1>3, FS_Subset, FS_CardinalityType
<1>9. Cardinality(C \ gone) = Cardinality(C) - Cardinality(C \cap gone) /\ C \cap gone = gone
  BY <1>2, <1>6, FS_Difference
<1>10. Elems(e.dom) = C \ gone
  BY <1>2
<1>11. Len(d.dom) \in Nat
  BY <1>1, LenProperties
<1>12. PICK x, y, z \in Nat : x = Len(e.dom) /\ y = Len(d.dom) /\ z = Cardinality(gone)
  BY <1>1, <1>8, <1>11, LenProperties
<1>13. Cardinality(C) = y + l - 0 /\ x = Cardinality(C) - z
  BY <1>3, <1>6, <1>7, <1>9, <1>10, <1>12
<1>14. x = y + l - z
  BY <1>13
<1> QED BY <1>12, <1>14

(* The cached index lists the tree. *)
FreshIndex(d) == d.cached => ListsTree(d)

(* The tree has n paragraphs more. *)
LongerBy(d, e, n) == Len(e.dom) = Len(d.dom) + n

(* An insertion adds as many paragraphs as it was given. *)
LEMMA FlatInserted ==
    ASSUME NEW d, DocInv(d), Linked(d), Flat(d), NEW id, Resolves(d, id),
           NEW shape, IsShape(shape), FlatShape(shape), NEW by \in Nat,
           NEW e, \/ e = InsertParaBefore(d, id, shape, by)
                  \/ e = InsertParaAfter(d, id, shape, by)
    PROVE  /\ Flat(e) /\ FreshIndex(e) /\ NamedAnew(d, e, shape, by)
           /\ LongerBy(d, e, Len(shape))
<1>1. d.host[d.manifest.byId[id]] = NoHost
  BY PlaceOfTarget DEF Flat
<1>2. Keeps(d, e, {}) /\ Brings(d, e, NoHost, shape, by, {})
  BY <1>1, InsertedTree
<1>3. Flat(e) /\ NamedAnew(d, e, shape, by)
  BY <1>2, FlatBrings
<1>4. FreshIndex(e)
  BY <1>2 DEF Brings, FreshIndex
<1>5. DocInv(e) /\ Len(shape) \in Nat
  BY InsertBeforeStep, InsertAfterStep, LenProperties DEF Step, IsShape
<1>6. Elems(e.dom) = (Elems(d.dom) \cup d.fresh..(d.fresh + Len(shape) - 1)) \ {}
  BY <1>2 DEF Brings
<1>7. /\ Len(e.dom) = Len(d.dom) + Len(shape) - Cardinality({})
      /\ Len(d.dom) \in Nat
  <2>1. PICK gone, l : gone = {} /\ l = Len(shape)
    OBVIOUS
  <2>2. /\ gone \in SUBSET Elems(d.dom) /\ l \in Nat
        /\ Elems(e.dom) = (Elems(d.dom) \cup d.fresh..(d.fresh + l - 1)) \ gone
    BY <1>5, <1>6, <2>1
  <2>3. DocInv(d) /\ DocInv(e)
    BY <1>5
  <2>4. /\ Len(e.dom) = Len(d.dom) + l - Cardinality(gone)
        /\ Len(d.dom) \in Nat
    BY <2>2, <2>3, GrownLength
  <2> QED BY <2>1, <2>4
<1>8. Cardinality({}) = 0
  BY FS_EmptySet
<1> QED BY <1>3, <1>4, <1>5, <1>7, <1>8 DEF LongerBy

(* A replacement adds one paragraph less than it was given. *)
LEMMA FlatReplaced ==
    ASSUME NEW d, DocInv(d), Linked(d), Flat(d), NEW id, Resolves(d, id),
           NEW shape, IsShape(shape), FlatShape(shape), NEW by \in Nat,
           NEW e, e = ReplacePara(d, id, shape, by)
    PROVE  /\ Flat(e) /\ FreshIndex(e) /\ NamedAnew(d, e, shape, by)
           /\ LongerBy(d, e, Len(shape) - 1)
<1>1. PICK t : t = d.manifest.byId[id]
  OBVIOUS
<1>2. d.host[t] = NoHost /\ t \in Elems(d.dom)
  BY <1>1, PlaceOfTarget DEF Flat, Resolves, InTree
<1>3. Keeps(d, e, {id}) /\ Brings(d, e, NoHost, shape, by, Subtrees(d, {t}))
  BY <1>1, <1>2, ReplacedTree
<1>4. Flat(e) /\ NamedAnew(d, e, shape, by)
  BY <1>3, FlatBrings
<1>5. FreshIndex(e)
  BY <1>3 DEF Brings, FreshIndex
<1>6. DocInv(e) /\ Len(shape) \in Nat
  BY ReplaceStep, LenProperties DEF Step, IsShape
<1>7. Subtrees(d, {t}) = {t}
  BY <1>2, FlatBoxed
<1>8. Elems(e.dom) = (Elems(d.dom) \cup d.fresh..(d.fresh + Len(shape) - 1)) \ {t}
  BY <1>3, <1>7 DEF Brings
<1>9. /\ Len(e.dom) = Len(d.dom) + Len(shape) - Cardinality({t})
      /\ Len(d.dom) \in Nat
  <2>1. PICK gone : gone = {t}
    OBVIOUS
  <2>2. /\ gone \in SUBSET Elems(d.dom)
        /\ Elems(e.dom) = (Elems(d.dom) \cup d.fresh..(d.fresh + Len(shape) - 1)) \ gone
    BY <2>1, <1>2, <1>8
  <2>3. /\ Len(e.dom) = Len(d.dom) + Len(shape) - Cardinality(gone)
        /\ Len(d.dom) \in Nat
    BY <2>2, <1>6, GrownLength
  <2> QED BY <2>1, <2>3
<1>10. Cardinality({t}) = 1
  BY FS_Singleton
<1> QED BY <1>4, <1>5, <1>6, <1>9, <1>10 DEF LongerBy

(* As many paragraphs go as IDs are given. *)
LEMMA FlatDeleted ==
    ASSUME NEW d, DocInv(d), Linked(d), Flat(d), NEW ids, \A i \in ids : Resolves(d, i),
           NEW e, e = DeletePara(d, ids)
    PROVE  /\ Flat(e) /\ FreshIndex(e)
           /\ Len(e.dom) = Len(d.dom) - Cardinality(ids)
<1>1. PICK S : S = {d.manifest.byId[i] : i \in ids}
  OBVIOUS
<1>2. /\ e.dom = Without(d.dom, Subtrees(d, S)) /\ e.host = d.host /\ e.fresh = d.fresh
      /\ ~e.cached
  BY <1>1, DeletedFields
<1>3. S \in SUBSET Elems(d.dom)
  BY <1>1 DEF Resolves, InTree
<1>4. Subtrees(d, S) = S
  BY <1>3, FlatBoxed
<1>5. d.fresh \in Nat \ {0} /\ d.dom \in Seq(1..(d.fresh - 1)) /\ Sound(d.manifest)
  BY DEF DocInv, TreeOK, ManifestOK
<1>6. Elems(e.dom) = (Elems(d.dom) \cup d.fresh..(d.fresh + 0 - 1)) \ S
  <2>1. Elems(e.dom) = Elems(d.dom) \ S
    BY <1>2, <1>4, <1>5, WithoutProperties
  <2>2. d.fresh..(d.fresh + 0 - 1) = {}
    BY <1>5
  <2> QED BY <2>1, <2>2
<1>7. DocInv(e)
  BY DeleteStep DEF Step
<1>8. /\ Len(e.dom) = Len(d.dom) + 0 - Cardinality(S)
      /\ Len(d.dom) \in Nat /\ Cardinality(S) \in Nat
  BY <1>3, <1>6, <1>7, GrownLength
<1>9. Cardinality(ids) = Cardinality(S)
  <2>1. PICK f : f = [i \in ids |-> d.manifest.byId[i]]
    OBVIOUS
  <2>2. \A i \in ids : i \in Ids(d.manifest)
    BY DEF Resolves
  <2>3. f \in Injection(ids, S)
    <3>1. \A i, j \in ids : d.manifest.byId[i] = d.manifest.byId[j] => i = j
      BY <1>5, <2>2 DEF Sound
    <3>2. f \in [ids -> S] /\ \A i, j \in ids : f[i] = f[j] => i = j
      BY <1>1, <2>1, <3>1
    <3> QED BY <3>2 DEF Injection, IsInjective
  <2>4. f \in Surjection(ids, S)
    BY <1>1, <2>1 DEF Surjection
  <2>5. IsFiniteSet(S)
    <3>1. IsFiniteSet(Elems(d.dom))
      BY LenIsCardinality DEF DocInv, TreeOK
    <3> QED BY <3>1, <1>3, FS_Subset
  <2> QED BY <2>3, <2>4, <2>5, FS_Injection
<1> QED BY <1>2, <1>8, <1>9 DEF Flat, FreshIndex

(* A text edit reaches no other paragraph, so that the index, which it      *)
(* keeps, stays true.                                                       *)
LEMMA FlatEdited ==
    ASSUME NEW d, DocInv(d), Flat(d), FreshIndex(d), NEW id, Resolves(d, id), NEW by,
           NEW t, t = d.manifest.byId[id],
           NEW hit \in SUBSET Boxed(d, t), NEW gone \in SUBSET Boxed(d, t),
           NEW e, e = TextEdit(d, id, by, hit, gone)
    PROVE  hit = {} /\ Flat(e) /\ FreshIndex(e) /\ e.dom = d.dom
<1>1. hit = {} /\ gone = {}
  BY FlatBoxed DEF Resolves, InTree
<1>2. /\ e.dom = Without(d.dom, gone) /\ SameRest(e, d)
      /\ MarkedBodies(e, d, {t} \cup hit, by)
  BY EditedFields
<1>3. d.dom \in Seq(1..(d.fresh - 1)) /\ Elems(d.dom) \cap gone = {}
  BY <1>1 DEF DocInv, TreeOK
<1>4. e.dom = d.dom
  BY <1>2, <1>3, WithoutNothing
<1> QED BY <1>1, <1>2, <1>4 DEF Flat, FreshIndex, ListsTree, SameRest

(* The index, built or kept, lists every paragraph. *)
LEMMA FlatEnsured ==
    ASSUME NEW d, DocInv(d), Linked(d), Flat(d), FreshIndex(d), NEW e, e = EnsureIndex(d)
    PROVE  /\ Flat(e) /\ FreshIndex(e)
           /\ Len(e.records) = Len(d.dom)
<1>1. e.dom = d.dom /\ e.host = d.host /\ e.fresh = d.fresh
  BY EnsuredTree
<1>2. ListsTree(e)
  BY BuiltFields DEF EnsureIndex, FreshIndex
<1>3. Len(d.dom) \in Nat
  BY LenProperties DEF DocInv, TreeOK
<1>4. Len(e.records) = Len(d.dom)
  BY <1>1, <1>2, <1>3 DEF ListsTree
<1> QED BY <1>1, <1>2, <1>4 DEF Flat, FreshIndex
-----------------------------------------------------------------------------
(* The index of a document that never has a text box. *)

(* Neither the document nor what is inserted has a text box. *)
NoBoxes == FlatShape(InitialShape) /\ \A shape \in NewShapes : FlatShape(shape)

(* There is no index yet when a document is opened. *)
LEMMA OpenedFlat ==
    ASSUME FlatShape(InitialShape) PROVE Flat(Opened) /\ FreshIndex(Opened)
<1>1. PICK e : /\ DocInv(e) /\ Opened = BuildIndex(e)
               /\ e.fresh = Len(InitialShape) + 1
               /\ \A k \in 1..Len(InitialShape) : ~InitialShape[k] => e.host[k] = NoHost
  BY OpenedUnindexed
<1>2. PICK o : o = Opened
  OBVIOUS
<1>3. Len(InitialShape) \in Nat
  BY ShapeAssumption, LenProperties DEF IsShape
<1>4. Flat(e)
  BY <1>1, <1>3 DEF Flat, FlatShape
<1>5. o.host = e.host /\ o.fresh = e.fresh /\ ListsTree(o)
  BY <1>1, <1>2, BuiltFields
<1> QED BY <1>2, <1>4, <1>5 DEF Flat, FreshIndex

(* Every call preserves the freshness of the index. *)
LEMMA NextFlat ==
    ASSUME NoBoxes, DocInv(doc), Linked(doc), Flat(doc), FreshIndex(doc), Next
    PROVE  Flat(doc') /\ FreshIndex(doc')
<1>1. /\ \A shape \in NewShapes : IsShape(shape) /\ FlatShape(shape)
      /\ \A id \in Targets : Resolves(doc, id)
      /\ Fluent \in Nat
  BY ShapeAssumption DEF Targets, Fluent, NoBoxes
<1>2. CASE Insert
  <2>1. PICK id \in Targets, shape \in NewShapes :
           \/ doc' = InsertParaBefore(doc, id, shape, Fluent)
           \/ doc' = InsertParaAfter(doc, id, shape, Fluent)
    BY <1>2 DEF Insert
  <2> QED BY <2>1, <1>1, FlatInserted
<1>3. CASE Replace
  <2>1. PICK id \in Targets, shape \in NewShapes : doc' = ReplacePara(doc, id, shape, Fluent)
    BY <1>3 DEF Replace
  <2> QED BY <2>1, <1>1, FlatReplaced
<1>4. CASE Delete
  <2>1. PICK ids \in SUBSET Targets : doc' = DeletePara(doc, ids)
    BY <1>4 DEF Delete
  <2> QED BY <2>1, <1>1, FlatDeleted
<1>5. CASE EditText
  <2>1. PICK id \in Targets :
          \E hit \in SUBSET Boxed(doc, doc.manifest.byId[id]),
             gone \in SUBSET Boxed(doc, doc.manifest.byId[id]) :
            doc' = TextEdit(doc, id, Fluent, hit, gone)
    BY <1>5 DEF EditText
  <2> QED BY <2>1, <1>1, FlatEdited
<1>6. CASE Read
  BY <1>6, FlatEnsured DEF Read
<1> QED BY <1>2, <1>3, <1>4, <1>5, <1>6 DEF Next

(* In a document without text boxes no write leaves a stale index behind,   *)
(* although text edits keep the cached one: each write that changes the     *)
(* paragraphs drops it, and a read builds it from the tree as it is.        *)
THEOREM IndexStaysFresh ==
    ASSUME NoBoxes
    PROVE  Spec => []IndexFresh
<1> DEFINE Inv == DocInv(doc) /\ Linked(doc) /\ Flat(doc) /\ FreshIndex(doc)
<1>1. Init => Inv
  BY OpenedOK, OpenedLinked, OpenedFlat DEF Init, NoBoxes
<1>2. Inv /\ [Next]_doc => Inv'
  <2>1. ASSUME Inv, Next PROVE Inv'
    <3>1. DocInv(doc')
      BY <2>1, NextIsStep DEF Step
    <3>2. Linked(doc')
      BY <2>1, NextLinked
    <3>3. Flat(doc') /\ FreshIndex(doc')
      BY <2>1, NextFlat
    <3> QED BY <3>1, <3>2, <3>3
  <2>2. ASSUME Inv, UNCHANGED doc PROVE Inv'
    BY <2>2
  <2> QED BY <2>1, <2>2
<1>3. Inv => IndexFresh
  BY DEF FreshIndex, ListsTree, IndexFresh
<1> HIDE DEF Inv
<1> QED BY <1>1, <1>2, <1>3, PTL DEF Spec
=============================================================================
