--------------------------- MODULE SequenceLemmas ---------------------------
(***************************************************************************)
(* What the proofs need of numbers, of recursion and of FlattenSeq.        *)
(*                                                                         *)
(* Induction is by the smallest counterexample in a set of numbers, for a  *)
(* rule that takes a predicate cannot be applied to one.                   *)
(***************************************************************************)
EXTENDS Selections, SequenceTheorems, WellFoundedInduction, TLAPS

(* A set of numbers that is not empty has a smallest. *)
LEMMA SmallestExists ==
    ASSUME NEW S \in SUBSET Nat, S # {}
    PROVE  \E x \in S : \A y \in S : x <= y
<1>1. PICK R : R = OpToRel(<, Nat)
  OBVIOUS
<1>2. IsWellFoundedOn(R, Nat)
  BY <1>1, NatLessThanWellFounded
<1>3. \E x \in S : \A y \in S : ~(<<y, x>> \in R)
  BY <1>2, WFMin
<1>4. \A x, y \in Nat : x < y => <<x, y>> \in R
  BY <1>1 DEF OpToRel
<1>5. PICK x \in S : \A y \in S : ~(<<y, x>> \in R)
  BY <1>3
<1>6. ASSUME NEW y \in S PROVE x <= y
  <2>1. ~(y < x)
    BY <1>4, <1>5
  <2> QED BY <2>1
<1> QED BY <1>5, <1>6

(* Min of a set of numbers is in it, and nothing in it is smaller. *)
LEMMA MinIs ==
    ASSUME NEW S \in SUBSET Nat, S # {}
    PROVE  Min(S) \in S /\ \A y \in S : Min(S) <= y
  BY SmallestExists DEF Min

(* So is Max of a set of numbers up to n, and nothing in it is larger. *)
LEMMA MaxIs ==
    ASSUME NEW n \in Nat, NEW S \in SUBSET (0..n), S # {}
    PROVE  Max(S) \in S /\ \A y \in S : y <= Max(S)
<1>1. PICK T : T = {n - k : k \in S}
  OBVIOUS
<1>2. T \in SUBSET Nat /\ T # {}
  <2>1. ASSUME NEW k \in S PROVE n - k \in Nat
    BY <2>1
  <2> QED BY <1>1, <2>1
<1>3. PICK t \in T : \A y \in T : t <= y
  BY <1>2, SmallestExists
<1>4. PICK x \in S : t = n - x
  BY <1>1, <1>3
<1>5. ASSUME NEW y \in S PROVE y <= x
  <2>1. n - y \in T
    BY <1>1
  <2>2. n - x <= n - y
    BY <1>3, <1>4, <2>1
  <2> QED BY <2>2
<1>6. \E z \in S : \A y \in S : z >= y
  BY <1>4, <1>5
<1>7. Max(S) \in S /\ \A y \in S : Max(S) >= y
  BY <1>6 DEF Max
<1> QED BY <1>7

(* A set of numbers that has 0, and has k + 1 if it has k, has them all. *)
LEMMA UpFromZero ==
    ASSUME NEW n \in Nat, NEW G, 0 \in G,
           \A k \in 0..(n - 1) : k \in G => k + 1 \in G
    PROVE  n \in G /\ \A k \in 0..n : k \in G
<1>0. n \in 0..n
  OBVIOUS
<1> SUFFICES ASSUME NEW b \in 0..n, b \notin G
             PROVE  FALSE
  BY <1>0
<1>1. PICK B : B = {k \in 0..n : k \notin G}
  OBVIOUS
<1>2. B \in SUBSET Nat /\ B # {}
  BY <1>1
<1>3. PICK m \in B : \A k \in B : m <= k
  BY <1>2, SmallestExists
<1>4. m \in 0..n /\ m \notin G /\ m # 0
  BY <1>1, <1>3
<1>5. m - 1 \in 0..(n - 1) /\ (m - 1) + 1 = m /\ ~(m <= m - 1)
  BY <1>4
<1>6. m - 1 \in G
  BY <1>1, <1>3, <1>5
<1> QED BY <1>4, <1>5, <1>6
-----------------------------------------------------------------------------
(* Recursion: a value for 0, and one for k given that for k - 1. *)

Computes(g, n, S, base, step) ==
    /\ g \in [0..n -> S]
    /\ g[0] = base
    /\ \A k \in 1..n : g[k] = step[<<k, g[k - 1]>>]

(* There is a function that takes every step. *)
LEMMA Recursion ==
    ASSUME NEW S, NEW base \in S, NEW n \in Nat, NEW step \in [(1..n) \X S -> S]
    PROVE  \E g : Computes(g, n, S, base, step)
<1>1. PICK G : G = {k \in 0..n : \E g : Computes(g, k, S, base, step)}
  OBVIOUS
<1>2. 0 \in G
  <2>1. PICK g : g = [k \in 0..0 |-> base]
    OBVIOUS
  <2>2. Computes(g, 0, S, base, step)
    BY <2>1 DEF Computes
  <2> QED BY <1>1, <2>2
<1>3. ASSUME NEW k \in 0..(n - 1), k \in G PROVE k + 1 \in G
  <2>1. PICK g : Computes(g, k, S, base, step)
    BY <1>1, <1>3
  <2>2. k + 1 \in 1..n /\ k + 1 \in 0..n /\ k \in Nat
    OBVIOUS
  <2>3. g \in [0..k -> S] /\ g[k] \in S /\ g[0] = base
    BY <2>1 DEF Computes
  <2>4. PICK x : x = step[<<k + 1, g[k]>>]
    OBVIOUS
  <2>5. x \in S
    BY <2>2, <2>3, <2>4
  <2>6. PICK h : h = [i \in 0..(k + 1) |-> IF i = k + 1 THEN x ELSE g[i]]
    OBVIOUS
  <2>7. h \in [0..(k + 1) -> S] /\ h[0] = base
    BY <2>2, <2>3, <2>5, <2>6
  <2>8. ASSUME NEW i \in 1..(k + 1) PROVE h[i] = step[<<i, h[i - 1]>>]
    <3>1. i - 1 \in 0..k /\ i - 1 # k + 1 /\ h[i - 1] = g[i - 1]
      BY <2>2, <2>6
    <3>2. CASE i = k + 1
      <4>1. i - 1 = k
        BY <3>2, <2>2
      <4>2. h[i] = x
        BY <2>6, <3>2
      <4>3. h[i - 1] = g[k]
        BY <3>1, <4>1
      <4> QED BY <2>4, <3>2, <4>2, <4>3
    <3>3. CASE i # k + 1
      <4>1. i \in 1..k
        BY <3>3, <2>2
      <4>2. h[i] = g[i]
        BY <2>6, <3>3
      <4> QED BY <2>1, <3>1, <4>1, <4>2 DEF Computes
    <3> QED BY <3>2, <3>3
  <2>9. Computes(h, k + 1, S, base, step)
    BY <2>7, <2>8 DEF Computes
  <2> QED BY <1>1, <2>2, <2>9
<1>4. n \in G
  BY <1>2, <1>3, UpFromZero
<1> QED BY <1>1, <1>4

(* Two computations that agree at 0, and wherever they agreed before. *)
LEMMA SameRun ==
    ASSUME NEW n \in Nat, NEW f, NEW h, f[0] = h[0],
           \A k \in 1..n : f[k - 1] = h[k - 1] => f[k] = h[k]
    PROVE  f[n] = h[n]
<1>1. PICK G : G = {k \in 0..n : f[k] = h[k]}
  OBVIOUS
<1>2. 0 \in G
  BY <1>1
<1>3. ASSUME NEW k \in 0..(n - 1), k \in G PROVE k + 1 \in G
  <2>1. k + 1 \in 1..n /\ k + 1 \in 0..n /\ (k + 1) - 1 = k
    OBVIOUS
  <2>2. f[k + 1] = h[k + 1]
    BY <1>1, <1>3, <2>1
  <2> QED BY <1>1, <2>1, <2>2
<1>4. n \in G
  BY <1>2, <1>3, UpFromZero
<1> QED BY <1>1, <1>4
-----------------------------------------------------------------------------
(* FlattenSeq, by the sequences that the first k pieces make. *)

Upto(ss, k) == FlattenSeq(SubSeq(ss, 1, k))

Flattens(g, ss, T) ==
    /\ g \in [0..Len(ss) -> Seq(T)]
    /\ g[0] = <<>>
    /\ \A k \in 1..Len(ss) : g[k] = g[k - 1] \o ss[k]

Associates(s, t, u) == (s \o t) \o u = s \o (t \o u)

(* Putting one behind the other is associative. *)
LEMMA AllAssociate ==
    ASSUME NEW T, NEW s \in Seq(T), NEW t \in Seq(T), NEW u \in Seq(T)
    PROVE  Associates(s, t, u)
  BY ConcatAssociative DEF Associates

(* What FlattenSeq computes. *)
LEMMA FlattenIs ==
    ASSUME NEW T, NEW ss \in Seq(Seq(T))
    PROVE  \E g : Flattens(g, ss, T) /\ FlattenSeq(ss) = g[Len(ss)]
<1>1. PICK n \in Nat : n = Len(ss)
  OBVIOUS
<1>2. \A k \in 1..n : ss[k] \in Seq(T)
  BY <1>1
<1>3. PICK step : step = [p \in (1..n) \X Seq(T) |-> p[2] \o ss[p[1]]]
  OBVIOUS
<1>4. ASSUME NEW p \in (1..n) \X Seq(T) PROVE step[p] \in Seq(T)
  BY <1>2, <1>3
<1>5. step \in [(1..n) \X Seq(T) -> Seq(T)]
  BY <1>3, <1>4
<1>6. <<>> \in Seq(T)
  OBVIOUS
<1>7. PICK g : Computes(g, n, Seq(T), <<>>, step)
  BY <1>5, <1>6, Recursion
<1>8. g \in [0..n -> Seq(T)] /\ g[0] = <<>> /\ \A k \in 1..n : g[k] = step[<<k, g[k - 1]>>]
  BY <1>7 DEF Computes
<1>9. ASSUME NEW k \in 1..n PROVE g[k] = g[k - 1] \o ss[k]
  <2>1. k - 1 \in 0..n
    OBVIOUS
  <2>2. PICK p : p = <<k, g[k - 1]>>
    OBVIOUS
  <2>3. p \in (1..n) \X Seq(T) /\ p[1] = k /\ p[2] = g[k - 1]
    BY <1>8, <2>1, <2>2
  <2> QED BY <1>3, <1>8, <2>2, <2>3
<1>10. Flattens(g, ss, T)
  BY <1>1, <1>8, <1>9 DEF Flattens
<1>11. CASE n = 0
  <2>1. ss = <<>>
    BY <1>1, <1>11, EmptySeq
  <2>2. FlattenSeq(ss) = ss
    BY <1>1, <1>11 DEF FlattenSeq
  <2> QED BY <1>1, <1>8, <1>10, <1>11, <2>1, <2>2
<1>12. CASE n # 0
  <2> DEFINE P(h) == h = [i \in 1..n |-> IF i = 1 THEN ss[i] ELSE h[i - 1] \o ss[i]]
  <2>1. PICK f : f = [i \in 1..n |-> g[i]]
    OBVIOUS
  <2>2. ASSUME NEW i \in 1..n
        PROVE  f[i] = IF i = 1 THEN ss[i] ELSE f[i - 1] \o ss[i]
    <3>1. CASE i = 1
      <4>1. 1 \in 1..n /\ 1 - 1 = 0
        BY <3>1
      <4>4. g[1] = g[0] \o ss[1]
        BY <1>9, <4>1
      <4>2. ss[1] \in Seq(T)
        BY <1>2, <3>1
      <4>3. <<>> \o ss[1] = ss[1]
        BY <4>2
      <4> QED BY <1>8, <2>1, <3>1, <4>3, <4>4
    <3>2. CASE i # 1
      <4>1. i - 1 \in 1..n
        BY <3>2
      <4> QED BY <1>9, <2>1, <3>2, <4>1
    <3> QED BY <3>1, <3>2
  <2>3. P(f)
    BY <2>1, <2>2
  <2>4. PICK h : h = CHOOSE u : P(u)
    OBVIOUS
  <2>5. P(h)
    BY <2>3, <2>4
  <2>6. FlattenSeq(ss) = h[n]
    BY <1>1, <1>12, <2>4 DEF FlattenSeq
  <2>7. PICK G : G = {k \in 0..n : k = 0 \/ h[k] = f[k]}
    OBVIOUS
  <2>8. 0 \in G
    BY <2>7
  <2>9. ASSUME NEW k \in 0..(n - 1), k \in G PROVE k + 1 \in G
    <3>1. k + 1 \in 1..n /\ k + 1 \in 0..n /\ (k + 1) - 1 = k
      OBVIOUS
    <3>2. h[k + 1] = IF k + 1 = 1 THEN ss[k + 1] ELSE h[k] \o ss[k + 1]
      BY <2>5, <3>1
    <3>3. f[k + 1] = IF k + 1 = 1 THEN ss[k + 1] ELSE f[k] \o ss[k + 1]
      BY <2>2, <3>1
    <3>4. k + 1 = 1 \/ h[k] = f[k]
      BY <2>7, <2>9
    <3>5. h[k + 1] = f[k + 1]
      BY <3>2, <3>3, <3>4
    <3> QED BY <2>7, <3>1, <3>5
  <2>10. n \in G
    BY <2>8, <2>9, UpFromZero
  <2>11. n \in 1..n
    BY <1>12
  <2>12. h[n] = g[n]
    BY <1>12, <2>1, <2>7, <2>10, <2>11
  <2> QED BY <1>1, <1>10, <2>6, <2>12
<1> QED BY <1>11, <1>12

(* The first k pieces are flattened on the way. *)
LEMMA FlattensOnTheWay ==
    ASSUME NEW T, NEW ss \in Seq(Seq(T)), NEW g, Flattens(g, ss, T), NEW k \in 0..Len(ss)
    PROVE  Upto(ss, k) = g[k]
<1>1. PICK tt : tt = SubSeq(ss, 1, k)
  OBVIOUS
<1>2. tt \in Seq(Seq(T)) /\ Len(tt) = k /\ \A i \in 1..k : tt[i] = ss[i]
  BY <1>1
<1>3. PICK f : Flattens(f, tt, T) /\ FlattenSeq(tt) = f[k]
  BY <1>2, FlattenIs
<1>4. PICK G : G = {i \in 0..k : f[i] = g[i]}
  OBVIOUS
<1>5. 0 \in G
  BY <1>3, <1>4 DEF Flattens
<1>6. ASSUME NEW i \in 0..(k - 1), i \in G PROVE i + 1 \in G
  <2>1. i + 1 \in 1..k /\ i + 1 \in 0..k /\ i + 1 \in 1..Len(ss) /\ (i + 1) - 1 = i
    OBVIOUS
  <2>2. f[i + 1] = f[i] \o tt[i + 1]
    BY <1>2, <1>3, <2>1 DEF Flattens
  <2>3. g[i + 1] = g[i] \o ss[i + 1]
    BY <2>1 DEF Flattens
  <2> QED BY <1>2, <1>4, <1>6, <2>1, <2>2, <2>3
<1>7. k \in Nat
  OBVIOUS
<1>8. k \in G
  BY <1>5, <1>6, <1>7, UpFromZero
<1> QED BY <1>1, <1>3, <1>4, <1>8 DEF Upto

(* The pieces are put one behind the other. *)
Built(ss, T) ==
    /\ Upto(ss, 0) = <<>>
    /\ \A k \in 0..Len(ss) : Upto(ss, k) \in Seq(T)
    /\ \A k \in 1..Len(ss) : Upto(ss, k) = Upto(ss, k - 1) \o ss[k]
    /\ Upto(ss, Len(ss)) = FlattenSeq(ss)

(* So it is: by induction over the number of pieces. *)
LEMMA UptoSteps ==
    ASSUME NEW T, NEW ss \in Seq(Seq(T))
    PROVE  Built(ss, T)
<1>1. PICK g : Flattens(g, ss, T) /\ FlattenSeq(ss) = g[Len(ss)]
  BY FlattenIs
<1>2. \A k \in 0..Len(ss) : Upto(ss, k) = g[k]
  BY <1>1, FlattensOnTheWay
<1>3. Len(ss) \in Nat
  OBVIOUS
<1>4. 0 \in 0..Len(ss) /\ Len(ss) \in 0..Len(ss)
  BY <1>3
<1>5. ASSUME NEW k \in 1..Len(ss) PROVE Upto(ss, k) = Upto(ss, k - 1) \o ss[k]
  <2>1. k \in 0..Len(ss) /\ k - 1 \in 0..Len(ss)
    BY <1>3
  <2> QED BY <1>1, <1>2, <2>1 DEF Flattens
<1> QED BY <1>1, <1>2, <1>4, <1>5 DEF Flattens, Built

(* f begins with q. *)
BeginsWith(f, q) == Len(q) <= Len(f) /\ \A i \in 1..Len(q) : f[i] = q[i]

(* What the first pieces make stays as it is when more are put behind it. *)
LEMMA UptoGrows ==
    ASSUME NEW T, NEW ss \in Seq(Seq(T)), NEW k \in 0..Len(ss), NEW m \in k..Len(ss)
    PROVE  BeginsWith(Upto(ss, m), Upto(ss, k))
<1>0. Built(ss, T)
  BY UptoSteps
<1> DEFINE Stays(n) == /\ Len(Upto(ss, k)) <= Len(Upto(ss, n))
                       /\ \A i \in 1..Len(Upto(ss, k)) : Upto(ss, n)[i] = Upto(ss, k)[i]
<1>1. PICK d \in Nat : m = k + d
  <2>1. m - k \in Nat /\ m = k + (m - k)
    OBVIOUS
  <2> QED BY <2>1
<1>2. PICK G : G = {j \in 0..d : Stays(k + j)}
  OBVIOUS
<1>3. \A j \in 0..d : k + j \in 0..Len(ss)
  BY <1>1
<1>4. 0 \in G
  <2>1. k + 0 = k /\ 0 \in 0..d
    OBVIOUS
  <2>2. Upto(ss, k) \in Seq(T)
    BY <1>0 DEF Built
  <2>3. Stays(k)
    BY <2>2
  <2> QED BY <1>2, <2>1, <2>3
<1>5. ASSUME NEW j \in 0..(d - 1), j \in G PROVE j + 1 \in G
  <2>1. k + j \in 0..Len(ss) /\ k + (j + 1) \in 1..Len(ss) /\ k + (j + 1) - 1 = k + j
    BY <1>1
  <2>2. PICK p, q, a, b : /\ p = Upto(ss, k + j) /\ q = Upto(ss, k + (j + 1))
                          /\ a = ss[k + (j + 1)] /\ b = Upto(ss, k)
    OBVIOUS
  <2>11. a \in Seq(T)
    <3>1. k + (j + 1) \in 1..Len(ss)
      BY <2>1
    <3> QED BY <2>2, <3>1
  <2>12. q = p \o a
    <3>1. PICK e : e = k + (j + 1)
      OBVIOUS
    <3>2. e \in 1..Len(ss) /\ e - 1 = k + j
      BY <2>1, <3>1
    <3>3. Upto(ss, e) = Upto(ss, e - 1) \o ss[e]
      BY <3>2, <1>0 DEF Built
    <3> QED BY <2>2, <3>1, <3>2, <3>3
  <2>13. p \in Seq(T) /\ b \in Seq(T)
    BY <2>1, <2>2, <1>0 DEF Built
  <2>3. p \in Seq(T) /\ a \in Seq(T) /\ b \in Seq(T) /\ q = p \o a
    BY <2>11, <2>12, <2>13
  <2>4. Len(q) = Len(p) + Len(a) /\ \A i \in 1..Len(p) : q[i] = p[i]
    BY <2>3
  <2>5. Stays(k + j)
    BY <1>2, <1>5
  <2>6. Len(b) <= Len(p) /\ \A i \in 1..Len(b) : p[i] = b[i]
    BY <2>2, <2>5
  <2>7. Len(b) <= Len(q)
    BY <2>3, <2>4, <2>6
  <2>8. ASSUME NEW i \in 1..Len(b) PROVE q[i] = b[i]
    <3>1. i \in 1..Len(p)
      BY <2>3, <2>6
    <3> QED BY <2>4, <2>6, <3>1
  <2>9. Stays(k + (j + 1))
    BY <2>2, <2>7, <2>8
  <2>10. j + 1 \in 0..d
    BY <1>1
  <2> QED BY <1>2, <2>9, <2>10
<1>6. d \in G
  BY <1>4, <1>5, UpFromZero
<1>7. Stays(k + d)
  BY <1>2, <1>6
<1> QED BY <1>1, <1>7 DEF BeginsWith

(* Each element of a piece is in the whole, behind the pieces before it. *)
LEMMA PieceIsAt ==
    ASSUME NEW T, NEW ss \in Seq(Seq(T)), NEW k \in 1..Len(ss), NEW j \in 1..Len(ss[k])
    PROVE  /\ Len(Upto(ss, k - 1)) + j \in 1..Len(FlattenSeq(ss))
           /\ FlattenSeq(ss)[Len(Upto(ss, k - 1)) + j] = ss[k][j]
<1>0. Built(ss, T)
  BY UptoSteps
<1>1. k \in 0..Len(ss) /\ k - 1 \in 0..Len(ss) /\ Len(ss) \in k..Len(ss)
  OBVIOUS
<1>2. PICK p, q, a, f : /\ p = Upto(ss, k - 1) /\ q = Upto(ss, k)
                        /\ a = ss[k] /\ f = FlattenSeq(ss)
  OBVIOUS
<1>9. a \in Seq(T)
  BY <1>2
<1>10. p \in Seq(T) /\ q = p \o a /\ f = Upto(ss, Len(ss))
  BY <1>1, <1>2, <1>0 DEF Built
<1>3. p \in Seq(T) /\ a \in Seq(T) /\ q = p \o a /\ f = Upto(ss, Len(ss))
  BY <1>9, <1>10
<1>4. Len(ss) \in 0..Len(ss)
  OBVIOUS
<1>5. f \in Seq(T)
  BY <1>3, <1>4, <1>0 DEF Built
<1>6. Len(q) <= Len(f) /\ \A i \in 1..Len(q) : f[i] = q[i]
  <2>1. BeginsWith(Upto(ss, Len(ss)), Upto(ss, k))
    BY <1>1, UptoGrows
  <2> QED BY <1>2, <1>3, <2>1 DEF BeginsWith
<1>7. Len(p) + j \in 1..Len(q) /\ q[Len(p) + j] = a[j]
  BY <1>2, <1>3
<1>8. Len(p) + j \in 1..Len(f) /\ f[Len(p) + j] = a[j]
  <2>1. Len(q) \in Nat /\ Len(f) \in Nat
    BY <1>3, <1>5
  <2> QED BY <1>6, <1>7, <2>1
<1> QED BY <1>2, <1>8

(* Each element of the whole is from one of the pieces. *)
LEMMA PieceOfIndex ==
    ASSUME NEW T, NEW ss \in Seq(Seq(T)), NEW i \in 1..Len(FlattenSeq(ss))
    PROVE  \E k \in 1..Len(ss) : \E j \in 1..Len(ss[k]) :
             /\ i = Len(Upto(ss, k - 1)) + j
             /\ FlattenSeq(ss)[i] = ss[k][j]
<1>0. Built(ss, T)
  BY UptoSteps
<1>1. PICK n \in Nat : n = Len(ss)
  OBVIOUS
<1>2. PICK K : K = {k \in 0..n : i <= Len(Upto(ss, k))}
  OBVIOUS
<1>3. n \in K
  <2>1. n \in 0..n /\ Upto(ss, n) = FlattenSeq(ss) /\ Upto(ss, n) \in Seq(T)
    BY <1>1, <1>0 DEF Built
  <2>2. i <= Len(Upto(ss, n))
    BY <2>1
  <2> QED BY <1>2, <2>1, <2>2
<1>4. K \in SUBSET Nat
  BY <1>2
<1>5. PICK k \in K : \A m \in K : k <= m
  BY <1>3, <1>4, SmallestExists
<1>6. k # 0
  <2>1. Len(Upto(ss, 0)) = 0
    BY <1>0 DEF Built
  <2>2. i \in Nat /\ i # 0
    <3>1. FlattenSeq(ss) \in Seq(T)
      BY <1>1, <1>0 DEF Built
    <3> QED BY <3>1
  <2> QED BY <1>2, <2>1, <2>2
<1>7. k \in 1..Len(ss) /\ k - 1 \in 0..Len(ss) /\ ~(k <= k - 1)
  BY <1>1, <1>2, <1>6
<1>8. ~(i <= Len(Upto(ss, k - 1)))
  BY <1>1, <1>2, <1>5, <1>7
<1>9. PICK p, q, a : p = Upto(ss, k - 1) /\ q = Upto(ss, k) /\ a = ss[k]
  OBVIOUS
<1>17. a \in Seq(T)
  BY <1>7, <1>9
<1>18. p \in Seq(T) /\ q = p \o a
  BY <1>7, <1>9, <1>0 DEF Built
<1>10. p \in Seq(T) /\ a \in Seq(T) /\ q = p \o a
  BY <1>17, <1>18
<1>11. PICK j : j = i - Len(p)
  OBVIOUS
<1>12. FlattenSeq(ss) \in Seq(T)
  BY <1>1, <1>0 DEF Built
<1>13. i <= Len(q) /\ ~(i <= Len(p)) /\ Len(q) = Len(p) + Len(a)
  <2>1. i <= Len(Upto(ss, k))
    BY <1>2
  <2>2. Len(q) = Len(p) + Len(a)
    BY <1>10
  <2> QED BY <1>8, <1>9, <2>1, <2>2
<1>14. j \in 1..Len(a) /\ i = Len(p) + j
  <2>1. Len(p) \in Nat /\ Len(a) \in Nat /\ i \in Int
    BY <1>10, <1>12
  <2> QED BY <1>11, <1>13, <2>1
<1>15. j \in 1..Len(ss[k]) /\ i = Len(Upto(ss, k - 1)) + j
  BY <1>9, <1>14
<1>16. FlattenSeq(ss)[i] = ss[k][j]
  BY <1>7, <1>15, PieceIsAt
<1> QED BY <1>7, <1>15, <1>16

(* Flattening pieces of type T is a sequence of that type. *)
LEMMA FlattenType ==
    ASSUME NEW T, NEW ss \in Seq(Seq(T))
    PROVE  FlattenSeq(ss) \in Seq(T)
<1>1. Built(ss, T)
  BY UptoSteps
<1>2. Len(ss) \in 0..Len(ss)
  OBVIOUS
<1> QED BY <1>1, <1>2 DEF Built

(* No piece, no element. *)
LEMMA FlattenEmpty ==
    ASSUME NEW ss, Len(ss) = 0
    PROVE  FlattenSeq(ss) = ss
  BY DEF FlattenSeq

(* One more piece goes to the end. *)
LEMMA FlattenMore ==
    ASSUME NEW T, NEW ss \in Seq(Seq(T)), NEW s \in Seq(T)
    PROVE  FlattenSeq(Append(ss, s)) = FlattenSeq(ss) \o s
<1>1. PICK tt, n : tt = Append(ss, s) /\ n = Len(ss)
  OBVIOUS
<1>2. tt \in Seq(Seq(T)) /\ Len(tt) = n + 1 /\ tt[n + 1] = s /\ n \in Nat
      /\ \A i \in 1..n : tt[i] = ss[i]
  BY <1>1
<1>3. Built(tt, T) /\ Built(ss, T)
  BY <1>2, UptoSteps
<1>4. SubSeq(tt, 1, n) = ss
  <2>1. SubSeq(tt, 1, n) \in Seq(Seq(T)) /\ Len(SubSeq(tt, 1, n)) = n
        /\ \A i \in 1..n : SubSeq(tt, 1, n)[i] = tt[i]
    BY <1>2
  <2> QED BY <1>1, <1>2, <2>1, SeqEqual
<1>5. Upto(tt, n) = FlattenSeq(ss)
  BY <1>4 DEF Upto
<1>6. n + 1 \in 1..Len(tt) /\ (n + 1) - 1 = n
  BY <1>2
<1>7. Upto(tt, n + 1) = Upto(tt, n) \o s
  BY <1>2, <1>3, <1>6 DEF Built
<1>8. Upto(tt, n + 1) = FlattenSeq(tt)
  BY <1>2, <1>3 DEF Built
<1> QED BY <1>1, <1>5, <1>7, <1>8

(* Pieces behind pieces make what they make behind what those make. *)
LEMMA FlattenConcat ==
    ASSUME NEW T, NEW ss \in Seq(Seq(T)), NEW tt \in Seq(Seq(T))
    PROVE  FlattenSeq(ss \o tt) = FlattenSeq(ss) \o FlattenSeq(tt)
<1>1. PICK n \in Nat : n = Len(tt)
  OBVIOUS
<1> DEFINE Joins(k) == FlattenSeq(ss \o SubSeq(tt, 1, k)) = FlattenSeq(ss) \o Upto(tt, k)
<1>2. PICK G : G = {k \in 0..n : Joins(k)}
  OBVIOUS
<1>3. Built(tt, T)
  BY UptoSteps
<1>4. FlattenSeq(ss) \in Seq(T)
  BY FlattenType
<1>5. 0 \in G
  <2>1. SubSeq(tt, 1, 0) = <<>>
    BY SubSeqEmpty
  <2>2. ss \o <<>> = ss /\ FlattenSeq(ss) \o <<>> = FlattenSeq(ss)
    BY <1>4
  <2>3. Upto(tt, 0) = <<>>
    BY <1>3 DEF Built
  <2>4. Joins(0)
    BY <2>1, <2>2, <2>3
  <2>5. 0 \in 0..n
    OBVIOUS
  <2> QED BY <1>2, <2>4, <2>5
<1>6. ASSUME NEW k \in 0..(n - 1), k \in G PROVE k + 1 \in G
  <2>1. PICK e, s, p, q : e = k + 1 /\ s = tt[e] /\ p = SubSeq(tt, 1, k) /\ q = SubSeq(tt, 1, e)
    OBVIOUS
  <2>2. e \in 1..Len(tt) /\ e - 1 = k /\ e \in 0..n
    BY <1>1, <2>1
  <2>3. s \in Seq(T)
    BY <2>1, <2>2
  <2>4. p \in Seq(Seq(T)) /\ Len(p) = k /\ \A i \in 1..k : p[i] = tt[i]
    BY <2>1, <1>1
  <2>5. q \in Seq(Seq(T)) /\ Len(q) = e /\ \A i \in 1..e : q[i] = tt[i]
    BY <2>1, <2>2
  <2>6. PICK r : r = Append(p, s)
    OBVIOUS
  <2>7. r \in Seq(Seq(T)) /\ Len(r) = e /\ r[e] = s /\ \A i \in 1..k : r[i] = p[i]
    BY <2>1, <2>3, <2>4, <2>6
  <2>8. ASSUME NEW i \in 1..e PROVE r[i] = q[i]
    <3>1. CASE i = e
      BY <3>1, <2>1, <2>5, <2>7
    <3>2. CASE i # e
      <4>1. i \in 1..k
        BY <3>2, <2>1
      <4> QED BY <4>1, <2>4, <2>5, <2>7
    <3> QED BY <3>1, <3>2
  <2>9. r = q
    BY <2>5, <2>7, <2>8, SeqEqual
  <2>10. PICK a, b, f : a = ss \o p /\ b = ss \o q /\ f = FlattenSeq(ss)
    OBVIOUS
  <2>11. a \in Seq(Seq(T)) /\ b = Append(a, s)
    <3>1. a \in Seq(Seq(T))
      BY <2>4, <2>10
    <3>2. PICK W : W = Seq(T)
      OBVIOUS
    <3>3. ss \in Seq(W) /\ p \in Seq(W) /\ s \in W
      BY <2>3, <2>4, <3>2
    <3>4. ss \o Append(p, s) = Append(ss \o p, s)
      BY <3>3
    <3> QED BY <2>6, <2>9, <2>10, <3>1, <3>4
  <2>12. FlattenSeq(b) = FlattenSeq(a) \o s
    BY <2>3, <2>11, FlattenMore
  <2>13. FlattenSeq(a) = f \o Upto(tt, k)
    BY <1>2, <1>6, <2>1, <2>10
  <2>14. Upto(tt, e) = Upto(tt, k) \o s
    BY <1>3, <2>1, <2>2 DEF Built
  <2>15. k \in 0..Len(tt)
    BY <1>1
  <2>16. Upto(tt, k) \in Seq(T)
    BY <1>3, <2>15 DEF Built
  <2>17. (f \o Upto(tt, k)) \o s = f \o (Upto(tt, k) \o s)
    <3>1. PICK u : u = Upto(tt, k)
      OBVIOUS
    <3>2. f \in Seq(T) /\ u \in Seq(T) /\ s \in Seq(T)
      BY <1>4, <2>3, <2>10, <2>16, <3>1
    <3>3. Associates(f, u, s)
      BY <3>2, AllAssociate
    <3> QED BY <3>1, <3>3 DEF Associates
  <2>18. FlattenSeq(b) = f \o Upto(tt, e)
    BY <2>12, <2>13, <2>14, <2>17
  <2>19. Joins(e)
    BY <2>1, <2>10, <2>18
  <2> QED BY <1>2, <2>1, <2>2, <2>19
<1>7. n \in G
  BY <1>5, <1>6, UpFromZero
<1>8. Joins(n)
  BY <1>2, <1>7
<1>9. SubSeq(tt, 1, n) = tt
  BY <1>1, SubSeqFull
<1> QED BY <1>8, <1>9 DEF Upto

(* What the whole holds is what the pieces hold. *)
LEMMA FlattenElements ==
    ASSUME NEW T, NEW ss \in Seq(Seq(T))
    PROVE  \A x : x \in ToSet(FlattenSeq(ss)) <=> \E k \in 1..Len(ss) : x \in ToSet(ss[k])
<1>1. FlattenSeq(ss) \in Seq(T)
  BY FlattenType
<1>2. ASSUME NEW x, x \in ToSet(FlattenSeq(ss))
      PROVE  \E k \in 1..Len(ss) : x \in ToSet(ss[k])
  <2>1. PICK i \in 1..Len(FlattenSeq(ss)) : x = FlattenSeq(ss)[i]
    BY <1>1, <1>2 DEF ToSet
  <2>2. PICK k \in 1..Len(ss) : \E j \in 1..Len(ss[k]) : FlattenSeq(ss)[i] = ss[k][j]
    BY PieceOfIndex
  <2>3. ss[k] \in Seq(T)
    OBVIOUS
  <2>4. x \in ToSet(ss[k])
    BY <2>1, <2>2, <2>3 DEF ToSet
  <2> QED BY <2>4
<1>3. ASSUME NEW x, NEW k \in 1..Len(ss), x \in ToSet(ss[k])
      PROVE  x \in ToSet(FlattenSeq(ss))
  <2>1. ss[k] \in Seq(T)
    OBVIOUS
  <2>2. PICK j \in 1..Len(ss[k]) : x = ss[k][j]
    BY <1>3, <2>1 DEF ToSet
  <2>3. PICK i : i = Len(Upto(ss, k - 1)) + j
    OBVIOUS
  <2>4. i \in 1..Len(FlattenSeq(ss)) /\ FlattenSeq(ss)[i] = ss[k][j]
    BY <2>3, PieceIsAt
  <2> QED BY <1>1, <2>2, <2>4 DEF ToSet
<1> QED BY <1>2, <1>3

(* The first pieces, and those behind them. *)
LEMMA UptoBehind ==
    ASSUME NEW T, NEW ss \in Seq(Seq(T)), NEW n \in 0..Len(ss), NEW m \in n..Len(ss)
    PROVE  Upto(ss, n) \o FlattenSeq(SubSeq(ss, n + 1, m)) = Upto(ss, m)
<1>1. PICK a, b, c : a = SubSeq(ss, 1, n) /\ b = SubSeq(ss, n + 1, m) /\ c = SubSeq(ss, 1, m)
  OBVIOUS
<1>2. PICK P : P = Seq(T)
  OBVIOUS
<1>3. /\ ss \in Seq(P) /\ 1 \in 1..(Len(ss) + 1) /\ n \in (1 - 1)..Len(ss) /\ m \in n..Len(ss)
      /\ n + 1 \in Int /\ m \in Int
  BY <1>2
<1>4. a \o b = c
  BY <1>1, <1>3, ConcatAdjacentSubSeq
<1>5. a \in Seq(P)
  <2>1. \A i \in 1..n : ss[i] \in P
    BY <1>3
  <2> QED BY <1>1, <1>3, <2>1, SubSeqProperties
<1>6. b \in Seq(P)
  <2>1. \A i \in (n + 1)..m : ss[i] \in P
    BY <1>3
  <2> QED BY <1>1, <1>3, <2>1, SubSeqProperties
<1>7. FlattenSeq(a \o b) = FlattenSeq(a) \o FlattenSeq(b)
  BY <1>2, <1>5, <1>6, FlattenConcat
<1> QED BY <1>1, <1>4, <1>7 DEF Upto

(* Which of the first pieces an element is in. *)
LEMMA PieceReached ==
    ASSUME NEW T, NEW ss \in Seq(Seq(T)), NEW n \in 0..Len(ss),
           NEW k \in 1..Len(ss), NEW j \in 1..Len(ss[k]),
           NEW i, i = Len(Upto(ss, k - 1)) + j
    PROVE  i <= Len(Upto(ss, n)) <=> k <= n
<1>1. Built(ss, T)
  BY UptoSteps
<1>2. k - 1 \in 0..Len(ss) /\ k \in 0..Len(ss)
  OBVIOUS
<1>3. PICK p, q, r, a : /\ p = Upto(ss, k - 1) /\ q = Upto(ss, k) /\ r = Upto(ss, n)
                        /\ a = ss[k]
  OBVIOUS
<1>4. a \in Seq(T)
  BY <1>3
<1>5. p \in Seq(T) /\ q \in Seq(T) /\ r \in Seq(T) /\ q = p \o a
  BY <1>1, <1>2, <1>3 DEF Built
<1>6. i = Len(p) + j /\ j \in Nat /\ 1 <= j /\ j <= Len(a) /\ Len(q) = Len(p) + Len(a)
      /\ Len(p) \in Nat /\ Len(a) \in Nat /\ Len(r) \in Nat
  BY <1>3, <1>4, <1>5
<1>7. CASE k <= n
  <2>1. n \in k..Len(ss)
    BY <1>7
  <2>2. Len(q) <= Len(r)
    BY <1>2, <1>3, <2>1, UptoGrows DEF BeginsWith
  <2>3. i <= Len(r)
    BY <1>6, <2>2
  <2> QED BY <1>3, <1>7, <2>3
<1>8. CASE ~(k <= n)
  <2>1. k - 1 \in n..Len(ss)
    BY <1>8
  <2>2. Len(r) <= Len(p)
    BY <1>3, <2>1, UptoGrows DEF BeginsWith
  <2>3. ~(i <= Len(r))
    BY <1>6, <2>2
  <2> QED BY <1>3, <1>8, <2>3
<1> QED BY <1>7, <1>8
-----------------------------------------------------------------------------
(* Spread: each element of a sequence makes way for the sequence that a    *)
(* function assigns to it.                                                 *)

Images(s, G) == [k \in 1..Len(s) |-> G[s[k]]]
Spread(s, G) == FlattenSeq(Images(s, G))

IsSpread(s, G, U) ==
    /\ Images(s, G) \in Seq(Seq(U)) /\ Len(Images(s, G)) = Len(s)
    /\ Spread(s, G) \in Seq(U)

(* A spread is a sequence, and its pieces are. *)
LEMMA SpreadIs ==
    ASSUME NEW T, NEW U, NEW s \in Seq(T), NEW G \in [T -> Seq(U)]
    PROVE  IsSpread(s, G, U)
<1>1. PICK n, W : n = Len(s) /\ W = Seq(U)
  OBVIOUS
<1>2. n \in Nat /\ \A k \in 1..n : s[k] \in T
  BY <1>1
<1>3. \A x \in T : G[x] \in W
  BY <1>1
<1>4. Images(s, G) \in [1..n -> W]
  BY <1>1, <1>2, <1>3 DEF Images
<1>5. Images(s, G) \in Seq(W) /\ Len(Images(s, G)) = n
  BY <1>2, <1>4
<1>6. FlattenSeq(Images(s, G)) \in Seq(U)
  BY <1>1, <1>5, FlattenType
<1> QED BY <1>1, <1>5, <1>6 DEF Spread, IsSpread

(* Spreading a sequence put behind another one. *)
LEMMA SpreadConcat ==
    ASSUME NEW T, NEW U, NEW s \in Seq(T), NEW t \in Seq(T), NEW G \in [T -> Seq(U)]
    PROVE  Spread(s \o t, G) = Spread(s, G) \o Spread(t, G)
<1>1. PICK u : u = s \o t
  OBVIOUS
<1>2. u \in Seq(T) /\ Len(u) = Len(s) + Len(t)
      /\ \A i \in 1..Len(u) : u[i] = IF i <= Len(s) THEN s[i] ELSE t[i - Len(s)]
  BY <1>1
<1>3. PICK p, q, r : p = Images(s, G) /\ q = Images(t, G) /\ r = Images(u, G)
  OBVIOUS
<1>4. /\ p \in Seq(Seq(U)) /\ Len(p) = Len(s)
      /\ q \in Seq(Seq(U)) /\ Len(q) = Len(t)
      /\ r \in Seq(Seq(U)) /\ Len(r) = Len(u)
  <2>1. ASSUME NEW a \in Seq(T)
        PROVE  Images(a, G) \in Seq(Seq(U)) /\ Len(Images(a, G)) = Len(a)
    <3>1. IsSpread(a, G, U)
      BY SpreadIs
    <3> QED BY <3>1 DEF IsSpread
  <2> QED BY <1>2, <1>3, <2>1
<1>5. PICK m, n \in Nat : m = Len(s) /\ n = Len(t)
  OBVIOUS
<1>6. ASSUME NEW i \in 1..(m + n) PROVE r[i] = (p \o q)[i]
  <2>1. r[i] = G[u[i]]
    BY <1>2, <1>3, <1>5 DEF Images
  <2>2. CASE i <= m
    <3>1. i \in 1..m
      BY <2>2
    <3>2. u[i] = s[i]
      BY <1>2, <1>5, <2>2
    <3>3. p[i] = G[s[i]]
      BY <1>3, <1>5, <3>1 DEF Images
    <3>4. (p \o q)[i] = p[i]
      BY <1>4, <1>5, <3>1
    <3> QED BY <2>1, <3>2, <3>3, <3>4
  <2>3. CASE ~(i <= m)
    <3>1. i - m \in 1..n
      BY <2>3
    <3>2. u[i] = t[i - m]
      BY <1>2, <1>5, <2>3
    <3>3. q[i - m] = G[t[i - m]]
      BY <1>3, <1>5, <3>1 DEF Images
    <3>4. (p \o q)[i] = q[i - m]
      <4>1. PICK W : W = Seq(U)
        OBVIOUS
      <4>2. p \in Seq(W) /\ q \in Seq(W) /\ Len(p) = m /\ Len(q) = n
        BY <1>4, <1>5, <4>1
      <4>3. i \in 1..(Len(p) + Len(q)) /\ ~(i <= Len(p))
        BY <2>3, <4>2
      <4>4. (p \o q)[i] = q[i - Len(p)]
        BY <4>2, <4>3, ConcatProperties
      <4> QED BY <4>2, <4>4
    <3> QED BY <2>1, <3>2, <3>3, <3>4
  <2> QED BY <2>2, <2>3
<1>7. r = p \o q
  <2>1. PICK W : W = Seq(U)
    OBVIOUS
  <2>2. p \in Seq(W) /\ q \in Seq(W) /\ r \in Seq(W)
    BY <1>4, <2>1
  <2>3. Len(p) = m /\ Len(q) = n
    BY <1>4, <1>5
  <2>4. p \o q \in Seq(W) /\ Len(p \o q) = Len(p) + Len(q)
    BY <2>2, ConcatProperties
  <2>5. p \o q \in Seq(W) /\ Len(p \o q) = m + n
    BY <2>3, <2>4
  <2>6. Len(r) = m + n
    BY <1>2, <1>4, <1>5
  <2> QED BY <1>6, <2>2, <2>5, <2>6, SeqEqual
<1>8. FlattenSeq(r) = FlattenSeq(p) \o FlattenSeq(q)
  BY <1>4, <1>7, FlattenConcat
<1> QED BY <1>1, <1>3, <1>8 DEF Spread

(* Spreading a sequence of one element. *)
LEMMA SpreadOfOne ==
    ASSUME NEW T, NEW U, NEW x \in T, NEW G \in [T -> Seq(U)]
    PROVE  Spread(<<x>>, G) = G[x]
<1>1. PICK s, y : s = <<x>> /\ y = G[x]
  OBVIOUS
<1>2. s \in Seq(T) /\ Len(s) = 1 /\ s[1] = x /\ y \in Seq(U)
  BY <1>1
<1>3. PICK p : p = Images(s, G)
  OBVIOUS
<1>4. p \in Seq(Seq(U)) /\ Len(p) = 1
  <2>1. ASSUME NEW a \in Seq(T)
        PROVE  Images(a, G) \in Seq(Seq(U)) /\ Len(Images(a, G)) = Len(a)
    <3>1. IsSpread(a, G, U)
      BY SpreadIs
    <3> QED BY <3>1 DEF IsSpread
  <2> QED BY <1>2, <1>3, <2>1
<1>5. p[1] = y
  BY <1>1, <1>2, <1>3 DEF Images
<1>6. Built(p, U)
  BY <1>4, UptoSteps
<1>7. Upto(p, 1) = Upto(p, 1 - 1) \o p[1] /\ Upto(p, 0) = <<>> /\ Upto(p, 1) = FlattenSeq(p)
  BY <1>4, <1>6 DEF Built
<1>8. FlattenSeq(p) = <<>> \o y
  <2>1. 1 - 1 = 0
    OBVIOUS
  <2> QED BY <1>5, <1>7, <2>1
<1>9. <<>> \o y = y
  BY <1>2
<1> QED BY <1>1, <1>3, <1>8, <1>9 DEF Spread

(* Spreading nothing. *)
LEMMA SpreadOfNone ==
    ASSUME NEW G
    PROVE  Spread(<<>>, G) = <<>>
<1>1. PICK e, p : e = <<>> /\ p = Images(e, G)
  OBVIOUS
<1>2. Len(e) = 0
  BY <1>1
<1>3. p \in [1..0 -> {}]
  BY <1>1, <1>2 DEF Images
<1>4. p \in Seq({}) /\ Len(p) = 0
  BY <1>3
<1>5. p = <<>>
  BY <1>4, EmptySeq
<1>6. FlattenSeq(p) = p
  BY <1>4, FlattenEmpty
<1> QED BY <1>1, <1>5, <1>6 DEF Spread

(* Spreading what several pieces make is spreading the pieces. *)
LEMMA SpreadOfFlatten ==
    ASSUME NEW T, NEW U, NEW ss \in Seq(Seq(T)), NEW G \in [T -> Seq(U)]
    PROVE  /\ [k \in 1..Len(ss) |-> Spread(ss[k], G)] \in Seq(Seq(U))
           /\ Spread(FlattenSeq(ss), G) = FlattenSeq([k \in 1..Len(ss) |-> Spread(ss[k], G)])
<1>1. PICK n \in Nat : n = Len(ss)
  OBVIOUS
<1>2. PICK tt : tt = [k \in 1..n |-> Spread(ss[k], G)]
  OBVIOUS
<1>3. \A k \in 1..n : ss[k] \in Seq(T)
  BY <1>1
<1>4. ASSUME NEW k \in 1..n PROVE Spread(ss[k], G) \in Seq(U)
  <2>1. IsSpread(ss[k], G, U)
    BY <1>3, SpreadIs
  <2> QED BY <2>1 DEF IsSpread
<1>5. tt \in Seq(Seq(U)) /\ Len(tt) = n
  <2>1. PICK W : W = Seq(U)
    OBVIOUS
  <2>2. tt \in [1..n -> W]
    BY <1>2, <1>4, <2>1
  <2> QED BY <2>1, <2>2
<1>6. Built(ss, T) /\ Built(tt, U)
  BY <1>5, UptoSteps
<1>7. PICK I : I = {k \in 0..n : Spread(Upto(ss, k), G) = Upto(tt, k)}
  OBVIOUS
<1>8. 0 \in I
  <2>1. Upto(ss, 0) = <<>> /\ Upto(tt, 0) = <<>>
    BY <1>6 DEF Built
  <2> QED BY <1>7, <2>1, SpreadOfNone
<1>9. ASSUME NEW k \in 0..(n - 1), k \in I PROVE k + 1 \in I
  <2>1. PICK e : e = k + 1
    OBVIOUS
  <2>2. e \in 1..n /\ e - 1 = k /\ e \in 0..n /\ k \in 0..n
    BY <2>1
  <2>3. Upto(ss, e) = Upto(ss, k) \o ss[e] /\ Upto(ss, k) \in Seq(T)
    BY <1>1, <1>6, <2>2 DEF Built
  <2>4. Upto(tt, e) = Upto(tt, k) \o tt[e]
    BY <1>5, <1>6, <2>2 DEF Built
  <2>5. ss[e] \in Seq(T) /\ tt[e] = Spread(ss[e], G)
    BY <1>2, <1>3, <2>2
  <2>6. Spread(Upto(ss, e), G) = Spread(Upto(ss, k), G) \o Spread(ss[e], G)
    <3>1. PICK a, b : a = Upto(ss, k) /\ b = ss[e]
      OBVIOUS
    <3>2. a \in Seq(T) /\ b \in Seq(T)
      BY <2>3, <2>5, <3>1
    <3>3. Spread(a \o b, G) = Spread(a, G) \o Spread(b, G)
      BY <3>2, SpreadConcat
    <3> QED BY <2>3, <3>1, <3>3
  <2>7. Spread(Upto(ss, k), G) = Upto(tt, k)
    BY <1>7, <1>9
  <2> QED BY <1>7, <2>1, <2>2, <2>4, <2>5, <2>6, <2>7
<1>10. n \in I
  BY <1>8, <1>9, UpFromZero
<1>11. Upto(ss, n) = FlattenSeq(ss) /\ Upto(tt, n) = FlattenSeq(tt)
  BY <1>1, <1>5, <1>6 DEF Built
<1> QED BY <1>1, <1>2, <1>5, <1>7, <1>10, <1>11

(* Where each piece is one element, the elements are put in a row. *)
LEMMA FlattenOnes ==
    ASSUME NEW T, NEW p \in Seq(Seq(T)), NEW s \in Seq(T), Len(p) = Len(s),
           \A k \in 1..Len(s) : p[k] = <<s[k]>>
    PROVE  FlattenSeq(p) = s
<1>1. PICK n \in Nat : n = Len(s)
  OBVIOUS
<1>2. Len(p) = n
  BY <1>1
<1>3. \A k \in 1..n : p[k] = <<s[k]>> /\ s[k] \in T
  BY <1>1
<1>4. Built(p, T)
  BY <1>2, UptoSteps
<1>5. PICK G : G = {k \in 0..n : Len(Upto(p, k)) = k}
  OBVIOUS
<1>6. 0 \in G
  <2>1. Upto(p, 0) = <<>>
    BY <1>4 DEF Built
  <2>2. PICK e : e = Upto(p, 0)
    OBVIOUS
  <2>3. Len(e) = 0
    BY <2>1, <2>2
  <2> QED BY <1>2, <1>5, <2>2, <2>3
<1>7. ASSUME NEW k \in 0..(n - 1), k \in G PROVE k + 1 \in G
  <2>1. k + 1 \in 1..n /\ (k + 1) - 1 = k /\ k + 1 \in 0..n
    BY <1>2
  <2>2. PICK a, b, c : a = Upto(p, k) /\ b = Upto(p, k + 1) /\ c = p[k + 1]
    OBVIOUS
  <2>3. b = a \o c /\ a \in Seq(T)
    <3>1. k + 1 \in 1..Len(p) /\ k \in 0..Len(p)
      BY <1>2, <2>1
    <3>2. Upto(p, k + 1) = Upto(p, (k + 1) - 1) \o p[k + 1]
      BY <1>4, <3>1 DEF Built
    <3>3. Upto(p, k) \in Seq(T)
      BY <1>4, <3>1 DEF Built
    <3>4. Upto(p, (k + 1) - 1) = a
      BY <2>1, <2>2
    <3> QED BY <2>2, <3>2, <3>3, <3>4
  <2>4. c \in Seq(T) /\ Len(c) = 1
    <3>1. PICK x : x = s[k + 1]
      OBVIOUS
    <3>2. c = <<x>> /\ x \in T
      BY <1>3, <2>1, <2>2, <3>1
    <3> QED BY <3>2
  <2>5. Len(a) = k
    BY <1>5, <1>7, <2>2
  <2>6. Len(b) = k + 1
    <3>1. PICK u, v : u = a /\ v = c
      OBVIOUS
    <3>2. u \in Seq(T) /\ v \in Seq(T)
      BY <2>3, <2>4, <3>1
    <3>3. Len(u \o v) = Len(u) + Len(v)
      BY <3>2, ConcatProperties
    <3> QED BY <2>3, <2>4, <2>5, <3>1, <3>3
  <2> QED BY <1>5, <2>1, <2>2, <2>6
<1>8. \A k \in 0..n : k \in G
  BY <1>2, <1>6, <1>7, UpFromZero
<1>9. PICK f : f = FlattenSeq(p)
  OBVIOUS
<1>10. f \in Seq(T) /\ Len(f) = n
  <2>1. f \in Seq(T)
    BY <1>2, <1>9, FlattenType
  <2>2. Upto(p, n) = f
    BY <1>2, <1>4, <1>9 DEF Built
  <2>3. n \in G
    BY <1>2, <1>8
  <2> QED BY <1>5, <2>1, <2>2, <2>3
<1>11. ASSUME NEW k \in 1..n PROVE f[k] = s[k]
  <2>1. PICK x, c : x = s[k] /\ c = p[k]
    OBVIOUS
  <2>2. c = <<x>> /\ x \in T
    BY <1>3, <2>1
  <2>3. Len(c) = 1 /\ c[1] = x /\ 1 \in 1..Len(c)
    BY <2>2
  <2>4. FlattenSeq(p)[Len(Upto(p, k - 1)) + 1] = c[1]
    <3>1. k \in 1..Len(p) /\ 1 \in 1..Len(p[k])
      BY <1>2, <2>1, <2>3
    <3>2. FlattenSeq(p)[Len(Upto(p, k - 1)) + 1] = p[k][1]
      BY <3>1, PieceIsAt
    <3> QED BY <2>1, <3>2
  <2>5. k - 1 \in 0..n
    BY <1>2
  <2>6. Len(Upto(p, k - 1)) + 1 = k
    BY <1>5, <1>8, <2>5
  <2> QED BY <1>9, <2>1, <2>3, <2>4, <2>6
<1>12. f = s
  <2>1. f = [k \in 1..n |-> f[k]]
    BY <1>10
  <2>2. s = [k \in 1..n |-> s[k]]
    BY <1>1, <1>2
  <2> QED BY <1>11, <2>1, <2>2
<1> QED BY <1>9, <1>12
-----------------------------------------------------------------------------
(* Those: what of a sequence is in a set. *)

(* The pieces that Those flattens. *)
Picks(s, K) == [k \in 1..Len(s) |-> IF s[k] \in K THEN <<s[k]>> ELSE <<>>]

(* Those are the picks, put one behind the other. *)
LEMMA PicksAre ==
    ASSUME NEW T, NEW s \in Seq(T), NEW K
    PROVE  /\ Picks(s, K) \in Seq(Seq(T)) /\ Len(Picks(s, K)) = Len(s)
           /\ Those(s, K) = FlattenSeq(Picks(s, K)) /\ Those(s, K) \in Seq(T)
<1>1. PICK n \in Nat : n = Len(s)
  OBVIOUS
<1>2. \A k \in 1..n : s[k] \in T
  BY <1>1
<1>3. ASSUME NEW k \in 1..n PROVE (IF s[k] \in K THEN <<s[k]>> ELSE <<>>) \in Seq(T)
  <2>1. s[k] \in T
    BY <1>2
  <2>2. <<s[k]>> \in Seq(T) /\ <<>> \in Seq(T)
    BY <2>1
  <2> QED BY <2>2
<1>4. PICK W : W = Seq(T)
  OBVIOUS
<1>5. Picks(s, K) \in [1..n -> W]
  BY <1>1, <1>3, <1>4 DEF Picks
<1>6. Picks(s, K) \in Seq(W) /\ Len(Picks(s, K)) = n
  BY <1>5
<1>7. Those(s, K) = FlattenSeq(Picks(s, K))
  BY DEF Those, Picks
<1>8. FlattenSeq(Picks(s, K)) \in Seq(T)
  BY <1>4, <1>6, FlattenType
<1> QED BY <1>1, <1>4, <1>6, <1>7, <1>8

(* Those of a sequence are what it spreads to. *)
Chosen(T, K) == [x \in T |-> IF x \in K THEN <<x>> ELSE <<>>]

(* So they are a spread. *)
LEMMA ThoseIsSpread ==
    ASSUME NEW T, NEW s \in Seq(T), NEW K
    PROVE  Chosen(T, K) \in [T -> Seq(T)] /\ Those(s, K) = Spread(s, Chosen(T, K))
<1>1. Chosen(T, K) \in [T -> Seq(T)]
  <2>1. ASSUME NEW x \in T PROVE (IF x \in K THEN <<x>> ELSE <<>>) \in Seq(T)
    <3>1. <<x>> \in Seq(T) /\ <<>> \in Seq(T)
      OBVIOUS
    <3> QED BY <3>1
  <2> QED BY <2>1 DEF Chosen
<1>2. PICK n \in Nat : n = Len(s)
  OBVIOUS
<1>3. \A k \in 1..n : Chosen(T, K)[s[k]] = IF s[k] \in K THEN <<s[k]>> ELSE <<>>
  BY <1>2 DEF Chosen
<1>4. Images(s, Chosen(T, K)) = Picks(s, K)
  BY <1>2, <1>3 DEF Images, Picks
<1>5. Those(s, K) = FlattenSeq(Picks(s, K))
  BY PicksAre
<1> QED BY <1>1, <1>4, <1>5 DEF Spread

(* Those of a sequence put behind another one. *)
LEMMA ThoseConcat ==
    ASSUME NEW T, NEW s \in Seq(T), NEW t \in Seq(T), NEW K
    PROVE  Those(s \o t, K) = Those(s, K) \o Those(t, K)
<1>1. PICK u : u = s \o t
  OBVIOUS
<1>2. u \in Seq(T)
  BY <1>1
<1>3. PICK G : G = Chosen(T, K)
  OBVIOUS
<1>4. G \in [T -> Seq(T)] /\ Those(s, K) = Spread(s, G) /\ Those(t, K) = Spread(t, G)
      /\ Those(u, K) = Spread(u, G)
  BY <1>2, <1>3, ThoseIsSpread
<1>5. Spread(s \o t, G) = Spread(s, G) \o Spread(t, G)
  BY <1>4, SpreadConcat
<1> QED BY <1>1, <1>4, <1>5

(* Those of a sequence of one element. *)
LEMMA ThoseOfOne ==
    ASSUME NEW T, NEW x \in T, NEW K
    PROVE  Those(<<x>>, K) = IF x \in K THEN <<x>> ELSE <<>>
<1>1. PICK s, G : s = <<x>> /\ G = Chosen(T, K)
  OBVIOUS
<1>2. s \in Seq(T)
  BY <1>1
<1>3. G \in [T -> Seq(T)] /\ Those(s, K) = Spread(s, G)
  BY <1>1, <1>2, ThoseIsSpread
<1>4. Spread(<<x>>, G) = G[x]
  BY <1>3, SpreadOfOne
<1> QED BY <1>1, <1>3, <1>4 DEF Chosen

(* All of a sequence. *)
LEMMA ThoseAll ==
    ASSUME NEW T, NEW s \in Seq(T)
    PROVE  Those(s, T) = s
<1>1. PICK p : p = Picks(s, T)
  OBVIOUS
<1>2. p \in Seq(Seq(T)) /\ Len(p) = Len(s) /\ Those(s, T) = FlattenSeq(p)
  BY <1>1, PicksAre
<1>3. \A k \in 1..Len(s) : p[k] = <<s[k]>>
  BY <1>1 DEF Picks
<1>4. FlattenSeq(p) = s
  BY <1>2, <1>3, FlattenOnes
<1> QED BY <1>2, <1>4

(* Those of nothing. *)
LEMMA ThoseOfNone ==
    ASSUME NEW K
    PROVE  Those(<<>>, K) = <<>>
<1>1. <<>> \in Seq({})
  OBVIOUS
<1>2. PICK p : p = Picks(<<>>, K)
  OBVIOUS
<1>3. p \in Seq(Seq({})) /\ Len(p) = 0 /\ Those(<<>>, K) = FlattenSeq(p)
  BY <1>1, <1>2, PicksAre
<1>4. p = <<>>
  BY <1>3, EmptySeq
<1> QED BY <1>3, <1>4, FlattenEmpty

(* Those are the elements that are in the set. *)
LEMMA ThoseElements ==
    ASSUME NEW T, NEW s \in Seq(T), NEW K
    PROVE  ToSet(Those(s, K)) = ToSet(s) \cap K
<1>1. PICK p : p = Picks(s, K)
  OBVIOUS
<1>2. p \in Seq(Seq(T)) /\ Len(p) = Len(s) /\ Those(s, K) = FlattenSeq(p)
  BY <1>1, PicksAre
<1>3. PICK n \in Nat : n = Len(s)
  OBVIOUS
<1>4. ASSUME NEW k \in 1..n
      PROVE  \A x : x \in ToSet(p[k]) <=> x = s[k] /\ s[k] \in K
  <2>1. p[k] = IF s[k] \in K THEN <<s[k]>> ELSE <<>>
    BY <1>1, <1>3 DEF Picks
  <2> QED BY <2>1 DEF ToSet
<1>5. \A x : x \in ToSet(Those(s, K)) <=> \E k \in 1..n : x \in ToSet(p[k])
  BY <1>2, <1>3, FlattenElements
<1>6. \A x : x \in ToSet(s) <=> \E k \in 1..n : x = s[k]
  BY <1>3 DEF ToSet
<1>7. ASSUME NEW x, x \in ToSet(Those(s, K)) PROVE x \in ToSet(s) /\ x \in K
  <2>1. PICK k \in 1..n : x \in ToSet(p[k])
    BY <1>5, <1>7
  <2>2. x = s[k] /\ s[k] \in K
    BY <1>4, <2>1
  <2> QED BY <1>6, <2>2
<1>8. ASSUME NEW x, x \in ToSet(s), x \in K PROVE x \in ToSet(Those(s, K))
  <2>1. PICK k \in 1..n : x = s[k]
    BY <1>6, <1>8
  <2>2. x \in ToSet(p[k])
    BY <1>4, <1>8, <2>1
  <2> QED BY <1>5, <2>2
<1> QED BY <1>7, <1>8

(* Nothing of a sequence is in the set. *)
LEMMA ThoseNone ==
    ASSUME NEW T, NEW s \in Seq(T), NEW K, \A i \in 1..Len(s) : s[i] \notin K
    PROVE  Those(s, K) = <<>>
<1>1. PICK t : t = Those(s, K)
  OBVIOUS
<1>2. t \in Seq(T) /\ ToSet(t) = ToSet(s) \cap K
  BY <1>1, PicksAre, ThoseElements
<1>3. ToSet(s) \cap K = {}
  BY DEF ToSet
<1>4. Len(t) = 0
  <2>1. \A i \in 1..Len(t) : t[i] \in ToSet(t)
    BY <1>2 DEF ToSet
  <2>2. ~(1 \in 1..Len(t))
    BY <1>2, <1>3, <2>1
  <2> QED BY <1>2, <2>2
<1> QED BY <1>1, <1>2, <1>4, EmptySeq

(* Those of flattened pieces are the flattened Those of the pieces. *)
LEMMA ThoseOfFlatten ==
    ASSUME NEW T, NEW ss \in Seq(Seq(T)), NEW K
    PROVE  Those(FlattenSeq(ss), K) = FlattenSeq([k \in 1..Len(ss) |-> Those(ss[k], K)])
<1>1. PICK G, f : G = Chosen(T, K) /\ f = FlattenSeq(ss)
  OBVIOUS
<1>2. f \in Seq(T)
  BY <1>1, FlattenType
<1>3. G \in [T -> Seq(T)] /\ Those(f, K) = Spread(f, G)
  BY <1>1, <1>2, ThoseIsSpread
<1>4. PICK W, n : W = Seq(T) /\ n = Len(ss)
  OBVIOUS
<1>5. \A k \in 1..n : ss[k] \in Seq(T)
  BY <1>4
<1>6. \A k \in 1..n : Those(ss[k], K) = Spread(ss[k], G)
  BY <1>1, <1>5, ThoseIsSpread
<1>7. Spread(f, G) = FlattenSeq([k \in 1..n |-> Spread(ss[k], G)])
  BY <1>1, <1>3, <1>4, SpreadOfFlatten
<1>8. [k \in 1..n |-> Spread(ss[k], G)] = [k \in 1..n |-> Those(ss[k], K)]
  BY <1>6
<1> QED BY <1>1, <1>3, <1>4, <1>7, <1>8

(* Those of those. *)
LEMMA ThoseOfThose ==
    ASSUME NEW T, NEW s \in Seq(T), NEW K, NEW L
    PROVE  Those(Those(s, K), L) = Those(s, K \cap L)
<1>1. PICK p, n : p = Picks(s, K) /\ n = Len(s)
  OBVIOUS
<1>2. p \in Seq(Seq(T)) /\ Len(p) = n /\ Those(s, K) = FlattenSeq(p) /\ n \in Nat
  BY <1>1, PicksAre
<1>3. Those(FlattenSeq(p), L) = FlattenSeq([k \in 1..Len(p) |-> Those(p[k], L)])
  BY <1>2, ThoseOfFlatten
<1>4. ASSUME NEW k \in 1..n
      PROVE  Those(p[k], L) = IF s[k] \in K \cap L THEN <<s[k]>> ELSE <<>>
  <2>1. PICK x : x = s[k]
    OBVIOUS
  <2>2. x \in T /\ p[k] = IF x \in K THEN <<x>> ELSE <<>>
    BY <1>1, <1>2, <2>1 DEF Picks
  <2>3. CASE x \in K
    <3>1. Those(<<x>>, L) = IF x \in L THEN <<x>> ELSE <<>>
      BY <2>2, ThoseOfOne
    <3> QED BY <2>1, <2>2, <2>3, <3>1
  <2>4. CASE x \notin K
    BY <2>1, <2>2, <2>4, ThoseOfNone
  <2> QED BY <2>3, <2>4
<1>5. [k \in 1..n |-> Those(p[k], L)] = Picks(s, K \cap L)
  BY <1>1, <1>4 DEF Picks
<1>6. Those(s, K \cap L) = FlattenSeq(Picks(s, K \cap L))
  BY PicksAre
<1> QED BY <1>2, <1>3, <1>5, <1>6

(* What a function makes of those of a sequence is a spreading, too. *)
ChosenAs(T, K, f) == [x \in T |-> IF x \in K THEN <<f[x]>> ELSE <<>>]
MappedBy(s, f) == [i \in 1..Len(s) |-> f[s[i]]]
MapsInto(T, U, f) == \A x \in T : f[x] \in U
Maps(s, K, f, T, U) ==
    /\ ChosenAs(T, K, f) \in [T -> Seq(U)]
    /\ MappedBy(Those(s, K), f) = Spread(s, ChosenAs(T, K, f))

(* The images of those are a spread, too. *)
LEMMA ThoseMapped ==
    ASSUME NEW T, NEW U, NEW s \in Seq(T), NEW K, NEW f, MapsInto(T, U, f)
    PROVE  Maps(s, K, f, T, U)
<1>0. \A x \in T : f[x] \in U
  BY DEF MapsInto
<1>1. PICK G : G = ChosenAs(T, K, f)
  OBVIOUS
<1>2. G \in [T -> Seq(U)]
  <2>1. ASSUME NEW x \in T PROVE (IF x \in K THEN <<f[x]>> ELSE <<>>) \in Seq(U)
    <3>1. <<f[x]>> \in Seq(U) /\ <<>> \in Seq(U)
      BY <1>0
    <3> QED BY <3>1
  <2> QED BY <1>1, <2>1 DEF ChosenAs
<1>3. ASSUME NEW x \in T PROVE <<f[x]>> \in Seq(U)
  BY <1>0
<1>4. PICK H \in [T -> Seq(U)] : H = [x \in T |-> <<f[x]>>]
  BY <1>3
<1>5. PICK p, n, a : p = Picks(s, K) /\ n = Len(s) /\ a = Those(s, K)
  OBVIOUS
<1>6. p \in Seq(Seq(T)) /\ Len(p) = n /\ a = FlattenSeq(p) /\ n \in Nat /\ a \in Seq(T)
  BY <1>5, PicksAre
<1>7. Spread(FlattenSeq(p), H) = FlattenSeq([k \in 1..Len(p) |-> Spread(p[k], H)])
  <2>1. ASSUME NEW ss \in Seq(Seq(T))
        PROVE  Spread(FlattenSeq(ss), H) = FlattenSeq([k \in 1..Len(ss) |-> Spread(ss[k], H)])
    BY SpreadOfFlatten
  <2> QED BY <1>6, <2>1
<1>8. ASSUME NEW k \in 1..n PROVE Spread(p[k], H) = G[s[k]]
  <2>1. PICK x : x = s[k]
    OBVIOUS
  <2>2. x \in T /\ p[k] = IF x \in K THEN <<x>> ELSE <<>>
    BY <1>5, <1>6, <2>1 DEF Picks
  <2>3. G[x] = IF x \in K THEN <<f[x]>> ELSE <<>>
    BY <1>1, <2>2 DEF ChosenAs
  <2>4. CASE x \in K
    <3>1. Spread(<<x>>, H) = H[x]
      BY <2>2, SpreadOfOne
    <3> QED BY <1>4, <2>1, <2>2, <2>3, <2>4, <3>1
  <2>5. CASE x \notin K
    BY <2>1, <2>2, <2>3, <2>5, SpreadOfNone
  <2> QED BY <2>4, <2>5
<1>9. [k \in 1..n |-> Spread(p[k], H)] = Images(s, G)
  BY <1>5, <1>8 DEF Images
<1>10. Spread(a, H) = Spread(s, G)
  BY <1>6, <1>7, <1>9 DEF Spread
<1>11. PICK m, r, q : m = Len(a) /\ r = [i \in 1..m |-> f[a[i]]] /\ q = Images(a, H)
  OBVIOUS
<1>12. m \in Nat /\ \A i \in 1..m : a[i] \in T
  BY <1>6, <1>11
<1>13. r \in Seq(U) /\ Len(r) = m
  <2>1. r \in [1..m -> U]
    BY <1>0, <1>11, <1>12
  <2> QED BY <1>12, <2>1
<1>14. q \in Seq(Seq(U)) /\ Len(q) = m
  <2>1. ASSUME NEW b \in Seq(T)
        PROVE  Images(b, H) \in Seq(Seq(U)) /\ Len(Images(b, H)) = Len(b)
    <3>1. IsSpread(b, H, U)
      BY SpreadIs
    <3> QED BY <3>1 DEF IsSpread
  <2> QED BY <1>6, <1>11, <2>1
<1>15. \A i \in 1..m : q[i] = <<r[i]>>
  BY <1>4, <1>11, <1>12 DEF Images
<1>16. FlattenSeq(q) = r
  BY <1>13, <1>14, <1>15, FlattenOnes
<1> QED BY <1>1, <1>2, <1>5, <1>10, <1>11, <1>16 DEF Spread, Maps, MappedBy

(* Where every element makes way for nothing. *)
LEMMA SpreadToNone ==
    ASSUME NEW T, NEW s \in Seq(T), NEW G, \A i \in 1..Len(s) : G[s[i]] = <<>>
    PROVE  Spread(s, G) = <<>>
<1>1. PICK n : n = Len(s)
  OBVIOUS
<1>2. Images(s, G) = [k \in 1..n |-> <<>>]
  BY <1>1 DEF Images
<1>3. Picks(s, {}) = [k \in 1..n |-> <<>>]
  BY <1>1 DEF Picks
<1>4. Those(s, {}) = FlattenSeq(Picks(s, {}))
  BY PicksAre
<1>5. Those(s, {}) = <<>>
  BY ThoseNone
<1> QED BY <1>2, <1>3, <1>4, <1>5 DEF Spread

(* x is the last element of s. *)
EndsWith(s, x) == Len(s) >= 1 /\ s[Len(s)] = x

(* The last element of a sequence that is in the set is the last of those. *)
LEMMA LastOfThose ==
    ASSUME NEW T, NEW s \in Seq(T), NEW K, NEW m \in 1..Len(s), s[m] \in K,
           \A i \in (m + 1)..Len(s) : s[i] \notin K
    PROVE  EndsWith(Those(s, K), s[m])
<1>1. PICK p, n, x : p = Picks(s, K) /\ n = Len(s) /\ x = s[m]
  OBVIOUS
<1>2. p \in Seq(Seq(T)) /\ Len(p) = n /\ Those(s, K) = FlattenSeq(p) /\ n \in Nat
  BY <1>1, PicksAre
<1>3. x \in T /\ p[m] = <<x>> /\ m \in 1..n
  BY <1>1, <1>2 DEF Picks
<1>4. \A i \in (m + 1)..n : p[i] = <<>>
  BY <1>1, <1>2 DEF Picks
<1>5. Built(p, T)
  BY <1>2, UptoSteps
<1>6. PICK a, b : a = Upto(p, m - 1) /\ b = Upto(p, m)
  OBVIOUS
<1>7. a \in Seq(T) /\ b = a \o <<x>>
  <2>1. m \in 1..Len(p) /\ m - 1 \in 0..Len(p)
    BY <1>2, <1>3
  <2> QED BY <1>3, <1>5, <1>6, <2>1 DEF Built
<1>8. b \in Seq(T) /\ EndsWith(b, x)
  <2>1. PICK c : c = <<x>>
    OBVIOUS
  <2>2. c \in Seq(T) /\ Len(c) = 1 /\ c[1] = x
    BY <1>3, <2>1
  <2>3. b \in Seq(T) /\ Len(b) = Len(a) + Len(c)
    BY <1>7, <2>1, <2>2, ConcatProperties
  <2>4. PICK l \in Nat : l = Len(a)
    BY <1>7
  <2>5. l + 1 \in 1..(Len(a) + Len(c)) /\ ~(l + 1 <= Len(a)) /\ (l + 1) - Len(a) = 1
    BY <2>2, <2>4
  <2>6. b[l + 1] = c[1]
    BY <1>7, <2>1, <2>2, <2>5, ConcatProperties
  <2> QED BY <2>2, <2>3, <2>4, <2>6 DEF EndsWith
<1>9. PICK G : G = {k \in 0..(n - m) : Upto(p, m + k) = b}
  OBVIOUS
<1>10. 0 \in G
  <2>1. m + 0 = m /\ 0 \in 0..(n - m)
    BY <1>2, <1>3
  <2> QED BY <1>6, <1>9, <2>1
<1>11. ASSUME NEW k \in 0..((n - m) - 1), k \in G PROVE k + 1 \in G
  <2>1. PICK e : e = m + k + 1
    OBVIOUS
  <2>2. /\ e \in (m + 1)..n /\ e - 1 = m + k /\ m + (k + 1) = e /\ k + 1 \in 0..(n - m)
        /\ e \in 1..Len(p)
    BY <1>2, <1>3, <2>1
  <2>3. Upto(p, e) = Upto(p, e - 1) \o p[e]
    BY <1>5, <2>2 DEF Built
  <2>4. p[e] = <<>>
    BY <1>4, <2>2
  <2>5. Upto(p, e - 1) = b
    BY <1>9, <1>11, <2>2
  <2>6. b \o <<>> = b
    BY <1>8
  <2> QED BY <1>9, <2>2, <2>3, <2>4, <2>5, <2>6
<1>12. n - m \in G
  <2>1. n - m \in Nat
    BY <1>2, <1>3
  <2> QED BY <1>10, <1>11, <2>1, UpFromZero
<1>13. Upto(p, n) = b
  <2>1. m + (n - m) = n
    BY <1>2, <1>3
  <2> QED BY <1>9, <1>12, <2>1
<1>14. FlattenSeq(p) = b
  BY <1>2, <1>5, <1>13 DEF Built
<1> QED BY <1>1, <1>2, <1>8, <1>14

(* The images of those of a list of pieces, piece by piece. *)
Pieced(ss, G) == Spread(FlattenSeq(ss), G) = FlattenSeq([k \in 1..Len(ss) |-> Spread(ss[k], G)])

(* A spread goes piece by piece. *)
LEMMA PiecedIs ==
    ASSUME NEW T, NEW U, NEW ss \in Seq(Seq(T)), NEW G \in [T -> Seq(U)]
    PROVE  Pieced(ss, G)
BY SpreadOfFlatten DEF Pieced

MapsPieces(ss, K, f, T) ==
    MappedBy(Those(FlattenSeq(ss), K), f)
        = FlattenSeq([k \in 1..Len(ss) |-> Spread(ss[k], ChosenAs(T, K, f))])

(* So do the images of those. *)
LEMMA MappedPieces ==
    ASSUME NEW T, NEW U, NEW ss \in Seq(Seq(T)), NEW K, NEW f, MapsInto(T, U, f)
    PROVE  MapsPieces(ss, K, f, T)
<1>1. PICK b \in Seq(T) : b = FlattenSeq(ss)
  BY FlattenType
<1>2. Maps(b, K, f, T, U)
  BY ThoseMapped
<1>3. PICK H \in [T -> Seq(U)] : H = ChosenAs(T, K, f)
  BY <1>2 DEF Maps
<1>4. Pieced(ss, H)
  BY PiecedIs
<1> QED BY <1>1, <1>2, <1>3, <1>4 DEF Maps, Pieced, MapsPieces
=============================================================================
