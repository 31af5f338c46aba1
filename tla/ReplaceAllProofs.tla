-------------------------- MODULE ReplaceAllProofs --------------------------
(***************************************************************************)
(* What replace_all changes, counts and leaves, whatever the words of the  *)
(* pattern and the wrappers of the text.                                   *)
(***************************************************************************)
EXTENDS ReplaceAll, SequenceLemmas

-----------------------------------------------------------------------------
(* The matchers. *)

Spans == [from : Nat, to : Nat]

(* Fits, character by character. *)
FitsAt(text, i, word) ==
    /\ i + Len(word) - 1 <= Len(text)
    /\ \A j \in 1..Len(word) : text[i + j - 1] = word[j]

(* The two say the same. *)
LEMMA FitsIs ==
    ASSUME NEW C, NEW text \in Seq(C), NEW word \in Seq(C), word # <<>>, NEW i \in Nat \ {0}
    PROVE  Fits(text, i, word) <=> FitsAt(text, i, word)
<1>1. PICK n \in Nat, m \in Nat, e \in Int : n = Len(text) /\ m = Len(word) /\ e = i + m - 1
  OBVIOUS
<1>2. CASE ~(e <= n)
  BY <1>1, <1>2 DEF Fits, FitsAt
<1>3. CASE e <= n
  <2>1. m >= 1
    BY <1>1
  <2>2. PICK s : s = SubSeq(text, i, e)
    OBVIOUS
  <2>3. s \in Seq(C) /\ Len(s) = m /\ \A j \in 1..m : s[j] = text[i + j - 1]
    <3>1. \A k \in i..e : text[k] \in C
      BY <1>1, <1>3
    <3>2. i \in Int /\ i <= e /\ e - i + 1 = m
      BY <1>1, <2>1
    <3> QED BY <2>2, <3>1, <3>2, SubSeqProperties
  <2>4. s = word <=> \A j \in 1..m : s[j] = word[j]
    BY <1>1, <2>3, SeqEqual
  <2>5. Fits(text, i, word) <=> s = word
    BY <1>1, <1>3, <2>2 DEF Fits
  <2>6. FitsAt(text, i, word) <=> \A j \in 1..m : text[i + j - 1] = word[j]
    BY <1>1, <1>3 DEF FitsAt
  <2> QED BY <2>3, <2>4, <2>5, <2>6
<1> QED BY <1>2, <1>3

Words(C) == Seq(Seq(C) \ {<<>>})

(* Word w is the first that fits at i. *)
FirstThere(text, words, i, w) ==
    /\ w \in 1..Len(words) /\ FitsAt(text, i, words[w])
    /\ \A v \in 1..(w - 1) : ~FitsAt(text, i, words[v])

NoneThere(text, words, i) == \A w \in 1..Len(words) : ~FitsAt(text, i, words[w])

NoMore(text, words, d) == \A i \in (d + 1)..Len(text) : NoneThere(text, words, i)

(* Match h is the next behind d. *)
IsNext(text, words, d, h) ==
    /\ h \in Spans /\ d < h.from /\ h.from <= h.to /\ h.to <= Len(text)
    /\ \E w \in 1..Len(words) :
         FirstThere(text, words, h.from, w) /\ h.to = h.from + Len(words[w]) - 1
    /\ \A i \in (d + 1)..(h.from - 1) : NoneThere(text, words, i)

(* What the loops look for. *)
LEMMA FittingIs ==
    ASSUME NEW C, NEW text \in Seq(C), NEW words \in Words(C), NEW i \in Nat \ {0}
    PROVE  /\ Fitting(text, i, words) \in SUBSET (1..Len(words))
           /\ \A w \in 1..Len(words) : w \in Fitting(text, i, words) <=> FitsAt(text, i, words[w])
<1>1. ASSUME NEW w \in 1..Len(words)
      PROVE  Fits(text, i, words[w]) <=> FitsAt(text, i, words[w])
  <2>1. words[w] \in Seq(C) /\ words[w] # <<>>
    BY DEF Words
  <2> QED BY <2>1, FitsIs
<1>2. DOMAIN words = 1..Len(words)
  BY DEF Words
<1> QED BY <1>1, <1>2 DEF Fitting

Turned(text, words, ms, next) ==
    \/ NoMore(text, words, Behind(ms)) /\ next = ms
    \/ \E h : IsNext(text, words, Behind(ms), h) /\ next = Append(ms, h)

(* A turn of the loop finds the next match, or there is none. *)
LEMMA TurnIs ==
    ASSUME NEW C, NEW text \in Seq(C), NEW words \in Words(C), NEW ms, Behind(ms) \in Nat
    PROVE  Turned(text, words, ms, Turn(text, words, ms))
<1>1. PICK d \in Nat, n \in Nat : d = Behind(ms) /\ n = Len(text)
  OBVIOUS
<1>2. PICK S : S = {i \in (d + 1)..n : Fitting(text, i, words) # {}}
  OBVIOUS
<1>3. S \in SUBSET Nat
  BY <1>2
<1>4. ASSUME NEW i \in (d + 1)..n PROVE i \in S <=> ~NoneThere(text, words, i)
  <2>1. i \in Nat \ {0}
    OBVIOUS
  <2>2. Fitting(text, i, words) # {} <=> \E w \in 1..Len(words) : FitsAt(text, i, words[w])
    BY <2>1, FittingIs
  <2> QED BY <1>2, <2>2 DEF NoneThere
<1>5. CASE S = {}
  <2>1. NoMore(text, words, d)
    BY <1>1, <1>4, <1>5 DEF NoMore
  <2>2. Turn(text, words, ms) = ms
    BY <1>1, <1>2, <1>5 DEF Turn
  <2> QED BY <1>1, <2>1, <2>2 DEF Turned
<1>6. CASE S # {}
  <2>1. PICK i : i = Min(S)
    OBVIOUS
  <2>2. i \in S /\ \A k \in S : i <= k
    BY <1>3, <1>6, <2>1, MinIs
  <2>3. i \in (d + 1)..n /\ i \in Nat \ {0} /\ d < i
    BY <1>2, <2>2
  <2>4. PICK F : F = Fitting(text, i, words)
    OBVIOUS
  <2>5. F \in SUBSET (1..Len(words)) /\ F # {}
        /\ \A w \in 1..Len(words) : w \in F <=> FitsAt(text, i, words[w])
    BY <1>2, <2>2, <2>3, <2>4, FittingIs
  <2>6. PICK w : w = Min(F)
    OBVIOUS
  <2>7. w \in F /\ \A v \in F : w <= v
    BY <2>5, <2>6, MinIs
  <2>8. w \in 1..Len(words)
    BY <2>5, <2>7
  <2>9. FirstThere(text, words, i, w)
    <3>1. Len(words) \in Nat
      BY DEF Words
    <3>2. ASSUME NEW v \in 1..(w - 1) PROVE ~FitsAt(text, i, words[v])
      BY <2>5, <2>7, <2>8, <3>1
    <3> QED BY <2>5, <2>7, <2>8, <3>2 DEF FirstThere
  <2>10. PICK m \in Nat : m = Len(words[w]) /\ m >= 1
    <3>1. words[w] \in Seq(C) /\ words[w] # <<>>
      BY <2>8 DEF Words
    <3> QED BY <3>1
  <2>11. i + m - 1 <= n
    BY <1>1, <2>5, <2>7, <2>8, <2>10 DEF FitsAt
  <2>12. PICK h : h = [from |-> i, to |-> i + m - 1]
    OBVIOUS
  <2>13. i + m - 1 \in Nat /\ i <= i + m - 1
    BY <2>3, <2>10
  <2>14. h \in Spans /\ h.from = i /\ h.to = i + m - 1
    BY <2>3, <2>12, <2>13 DEF Spans
  <2>15. ASSUME NEW k \in (d + 1)..(i - 1) PROVE NoneThere(text, words, k)
    <3>1. k \in (d + 1)..n /\ ~(i <= k)
      BY <2>3
    <3> QED BY <1>4, <2>2, <3>1
  <2>16. IsNext(text, words, d, h)
    BY <1>1, <2>3, <2>8, <2>9, <2>10, <2>11, <2>13, <2>14, <2>15 DEF IsNext
  <2>17. MatchAt(text, i, words) = h
    BY <2>4, <2>6, <2>10, <2>12 DEF MatchAt
  <2>18. Turn(text, words, ms) = Append(ms, h)
    BY <1>1, <1>2, <1>6, <2>1, <2>17 DEF Turn
  <2> QED BY <1>1, <2>16, <2>18 DEF Turned
<1> QED BY <1>5, <1>6

(* Only the empty sequence has no length. *)
LEMMA LenIs ==
    ASSUME NEW S, NEW s \in Seq(S)
    PROVE  Len(s) \in Nat /\ (s = <<>> <=> Len(s) = 0)
<1>1. Len(s) \in Nat
  OBVIOUS
<1>2. ASSUME Len(s) = 0 PROVE s = <<>>
  <2>1. <<>> \in Seq(S) /\ Len(<<>>) = 0
    BY EmptySeq
  <2>2. \A i \in 1..Len(s) : s[i] = <<>>[i]
    BY <1>2
  <2> QED BY <1>2, <2>1, <2>2, SeqEqual
<1> QED BY <1>1, <1>2, EmptySeq

Done(ms, k) == IF k = 1 THEN 0 ELSE ms[k - 1].to

(* Each match is the next behind the one before. *)
Scan(text, words, ms) ==
    ms \in Seq(Spans) /\ \A k \in 1..Len(ms) : IsNext(text, words, Done(ms, k), ms[k])

(* One more. *)
LEMMA ScanGrows ==
    ASSUME NEW text, NEW words, NEW ms, Scan(text, words, ms), NEW h,
           IsNext(text, words, Behind(ms), h)
    PROVE  /\ Scan(text, words, Append(ms, h)) /\ Behind(Append(ms, h)) = h.to
           /\ Len(Append(ms, h)) = Len(ms) + 1
<1>0. ms \in Seq(Spans)
  BY DEF Scan
<1>1. PICK m, a : m = Len(ms) /\ a = Append(ms, h) /\ m \in Nat
  <2>1. Len(ms) \in Nat
    BY <1>0, LenIs
  <2> QED BY <2>1
<1>2. h \in Spans /\ ms \in Seq(Spans)
  BY DEF IsNext, Scan
<1>3. a \in Seq(Spans) /\ Len(a) = m + 1 /\ a[m + 1] = h /\ \A k \in 1..m : a[k] = ms[k]
  BY <1>1, <1>2, AppendProperties
<1>4. a # <<>>
  BY <1>1, <1>3
<1>5. Behind(a) = h.to
  BY <1>3, <1>4 DEF Behind
<1>6. ASSUME NEW k \in 1..(m + 1) PROVE IsNext(text, words, Done(a, k), a[k])
  <2>1. CASE k = m + 1
    <3>1. Done(a, k) = Behind(ms)
      <4>1. CASE m = 0
        <5>1. ms = <<>>
          BY <1>1, <1>2, <4>1, LenIs
        <5> QED BY <2>1, <4>1, <5>1 DEF Done, Behind
      <4>2. CASE m # 0
        <5>1. ms # <<>> /\ k # 1 /\ k - 1 = m /\ m \in 1..m
          BY <1>1, <2>1, <4>2, LenIs
        <5> QED BY <1>1, <1>3, <5>1 DEF Done, Behind
      <4> QED BY <4>1, <4>2
    <3> QED BY <1>3, <2>1, <3>1
  <2>2. CASE k \in 1..m
    <3>1. Done(a, k) = Done(ms, k)
      <4>1. CASE k = 1
        BY <4>1 DEF Done
      <4>2. CASE k # 1
        <5>1. k - 1 \in 1..m
          BY <1>1, <2>2, <4>2
        <5> QED BY <1>3, <4>2, <5>1 DEF Done
      <4> QED BY <4>1, <4>2
    <3> QED BY <1>1, <1>3, <2>2, <3>1 DEF Scan
  <2> QED BY <1>1, <2>1, <2>2
<1> QED BY <1>1, <1>3, <1>5, <1>6 DEF Scan

Shrunk(text, words, ms, less) ==
    /\ Scan(text, words, less) /\ Len(less) = Len(ms) - 1
    /\ Behind(less) = Done(ms, Len(ms))
    /\ \A k \in 1..(Len(ms) - 1) : less[k] = ms[k] /\ Done(less, k) = Done(ms, k)

(* One less. *)
LEMMA ScanShrinks ==
    ASSUME NEW text, NEW words, NEW ms, Scan(text, words, ms), Len(ms) >= 1,
           NEW less, less = SubSeq(ms, 1, Len(ms) - 1)
    PROVE  Shrunk(text, words, ms, less)
<1>1. PICK m \in Nat : m = Len(ms)
  BY DEF Scan
<1>2. ms \in Seq(Spans) /\ \A k \in 1..m : ms[k] \in Spans
  BY <1>1 DEF Scan
<1>3. less \in Seq(Spans) /\ Len(less) = m - 1 /\ \A k \in 1..(m - 1) : less[k] = ms[k]
  <2>1. \A k \in 1..(m - 1) : ms[k] \in Spans
    BY <1>2
  <2>2. m - 1 \in Int /\ 1 \in Int
    OBVIOUS
  <2>3. less = SubSeq(ms, 1, m - 1)
    BY <1>1
  <2>4. /\ less \in Seq(Spans) /\ Len(less) = IF 1 <= m - 1 THEN m - 1 - 1 + 1 ELSE 0
        /\ \A k \in 1..(m - 1 - 1 + 1) : less[k] = ms[1 + k - 1]
    BY <2>1, <2>2, <2>3, SubSeqProperties
  <2> QED BY <1>1, <2>4
<1>4. ASSUME NEW k \in 1..(m - 1) PROVE Done(less, k) = Done(ms, k)
  <2>1. CASE k = 1
    BY <2>1 DEF Done
  <2>2. CASE k # 1
    <3>1. k - 1 \in 1..(m - 1)
      BY <2>2
    <3> QED BY <1>3, <2>2, <3>1 DEF Done
  <2> QED BY <2>1, <2>2
<1>5. Behind(less) = Done(ms, m)
  <2>1. CASE m = 1
    <3>1. less = <<>>
      <4>1. Len(less) = 0
        BY <1>3, <2>1
      <4> QED BY <1>3, <4>1, LenIs
    <3> QED BY <2>1, <3>1 DEF Done, Behind
  <2>2. CASE m # 1
    <3>1. m - 1 \in 1..(m - 1) /\ less # <<>>
      <4>1. m - 1 \in 1..(m - 1) /\ Len(less) # 0
        BY <1>1, <1>3, <2>2
      <4> QED BY <1>3, <4>1, LenIs
    <3> QED BY <1>3, <2>2, <3>1 DEF Done, Behind
  <2> QED BY <2>1, <2>2
<1>6. ASSUME NEW k \in 1..(m - 1) PROVE IsNext(text, words, Done(less, k), less[k])
  <2>1. k \in 1..m
    OBVIOUS
  <2> QED BY <1>1, <1>3, <1>4, <2>1 DEF Scan
<1> QED BY <1>1, <1>3, <1>4, <1>5, <1>6 DEF Scan, Shrunk

(* After k turns: a scan, and it has k matches or there are no more. *)
Scanned(text, words, k, ms) ==
    /\ Scan(text, words, ms) /\ Behind(ms) \in 0..Len(text)
    /\ k <= Behind(ms) \/ NoMore(text, words, Behind(ms))

(* A turn more. *)
LEMMA TurnScans ==
    ASSUME NEW C, NEW text \in Seq(C), NEW words \in Words(C), NEW k \in Nat,
           NEW ms, Scanned(text, words, k, ms), NEW next, next = Turn(text, words, ms)
    PROVE  Scanned(text, words, k + 1, next)
<1>1. PICK n \in Nat, d \in Nat : n = Len(text) /\ d = Behind(ms) /\ d <= n
  BY DEF Scanned
<1>2. Turned(text, words, ms, next)
  BY <1>1, TurnIs
<1>3. CASE NoMore(text, words, d) /\ next = ms
  BY <1>1, <1>3 DEF Scanned
<1>4. ASSUME NEW h, IsNext(text, words, d, h), next = Append(ms, h)
      PROVE  Scanned(text, words, k + 1, next)
  <2>1. Scan(text, words, next) /\ Behind(next) = h.to
    BY <1>1, <1>4, ScanGrows DEF Scanned
  <2>2. h.from \in Nat /\ h.to \in Nat /\ d < h.from /\ h.from <= h.to /\ h.to <= n
    BY <1>1, <1>4 DEF IsNext, Spans
  <2>3. CASE k <= d
    BY <1>1, <2>1, <2>2, <2>3 DEF Scanned
  <2>4. CASE NoMore(text, words, d)
    <3>1. PICK w \in 1..Len(words) : FirstThere(text, words, h.from, w)
      BY <1>4 DEF IsNext
    <3>2. h.from \in (d + 1)..n
      BY <2>2
    <3>3. NoneThere(text, words, h.from)
      BY <1>1, <2>4, <3>2 DEF NoMore
    <3> QED BY <3>1, <3>3 DEF FirstThere, NoneThere
  <2> QED BY <1>1, <2>3, <2>4 DEF Scanned
<1> QED BY <1>1, <1>2, <1>3, <1>4 DEF Turned

(* All that there are. *)
Complete(text, words, ms) ==
    Scan(text, words, ms) /\ Behind(ms) \in 0..Len(text) /\ NoMore(text, words, Behind(ms))

(* That is what a matcher returns. *)
LEMMA MatchesAreComplete ==
    ASSUME NEW C, NEW text \in Seq(C), NEW words \in Words(C)
    PROVE  Complete(text, words, Matches(text, words))
<1>1. PICK n \in Nat : n = Len(text)
  OBVIOUS
<1>2. PICK S : S = {ms \in Seq(Spans) : \E k \in Nat : Scanned(text, words, k, ms)}
  OBVIOUS
<1>3. Scanned(text, words, 0, <<>>)
  <2>1. <<>> \in Seq(Spans) /\ Len(<<>>) = 0 /\ Behind(<<>>) = 0
    BY DEF Behind
  <2> QED BY <1>1, <2>1 DEF Scanned, Scan
<1>4. <<>> \in S
  BY <1>2, <1>3 DEF Scanned, Scan
<1>5. PICK step : step = [p \in (1..n) \X S |-> Turn(text, words, p[2])]
  OBVIOUS
<1>6. ASSUME NEW ms \in S PROVE Turn(text, words, ms) \in S
  <2>1. PICK k \in Nat : Scanned(text, words, k, ms)
    BY <1>2
  <2>2. PICK next : next = Turn(text, words, ms)
    OBVIOUS
  <2>3. Scanned(text, words, k + 1, next)
    BY <2>1, <2>2, TurnScans
  <2>4. k + 1 \in Nat
    OBVIOUS
  <2>5. next \in Seq(Spans)
    BY <2>3 DEF Scanned, Scan
  <2> QED BY <1>2, <2>2, <2>3, <2>4, <2>5
<1>7. step \in [(1..n) \X S -> S]
  BY <1>5, <1>6
<1>8. PICK f : Computes(f, n, S, <<>>, step)
  BY <1>4, <1>7, Recursion
<1> DEFINE P(g) == g = [k \in 0..n |-> IF k = 0 THEN <<>> ELSE Turn(text, words, g[k - 1])]
<1>9. ASSUME NEW k \in 1..n PROVE f[k] = Turn(text, words, f[k - 1])
  <2>1. k - 1 \in 0..n
    OBVIOUS
  <2>2. PICK l : l = f[k - 1]
    OBVIOUS
  <2>3. l \in S /\ f[k] = step[<<k, l>>]
    BY <1>8, <2>1, <2>2 DEF Computes
  <2>4. step[<<k, l>>] = Turn(text, words, l)
    BY <1>5, <2>3
  <2> QED BY <2>2, <2>3, <2>4
<1>10. P(f)
  <2>1. ASSUME NEW k \in 0..n
        PROVE  f[k] = IF k = 0 THEN <<>> ELSE Turn(text, words, f[k - 1])
    <3>1. k = 0 \/ k \in 1..n
      OBVIOUS
    <3> QED BY <1>8, <1>9, <3>1 DEF Computes
  <2>2. f = [k \in 0..n |-> f[k]]
    BY <1>8 DEF Computes
  <2> QED BY <2>1, <2>2, Zenon
<1>11. PICK g : g = CHOOSE u : P(u)
  OBVIOUS
<1>12. P(g)
  BY <1>10, <1>11
<1>13. Matches(text, words) = g[n]
  BY <1>1, <1>11 DEF Matches
<1>14. PICK G : G = {k \in Nat : k \in 0..n => Scanned(text, words, k, g[k])}
  OBVIOUS
<1>15. 0 \in G
  <2>1. 0 \in 0..n
    OBVIOUS
  <2>2. g[0] = <<>>
    BY <1>12, <2>1
  <2> QED BY <1>3, <1>14, <2>2
<1>16. ASSUME NEW k \in G PROVE k + 1 \in G
  <2>1. k \in Nat /\ (k \in 0..n => Scanned(text, words, k, g[k]))
    BY <1>14
  <2>2. ASSUME k + 1 \in 0..n PROVE Scanned(text, words, k + 1, g[k + 1])
    <3>1. k \in 0..n /\ (k + 1) - 1 = k /\ k + 1 # 0
      BY <2>1, <2>2
    <3>2. g[k + 1] = Turn(text, words, g[k])
      BY <1>12, <2>2, <3>1
    <3> QED BY <2>1, <3>1, <3>2, TurnScans
  <2> QED BY <1>14, <2>1, <2>2
<1>17. n \in G
  BY <1>14, <1>15, <1>16, UpFromZero
<1>18. PICK ms : ms = g[n]
  OBVIOUS
<1>19. Scanned(text, words, n, ms)
  <2>1. n \in 0..n
    OBVIOUS
  <2> QED BY <1>14, <1>17, <1>18, <2>1
<1>20. NoMore(text, words, Behind(ms))
  <2>1. CASE n <= Behind(ms)
    <3>1. ~\E i : i \in (Behind(ms) + 1)..n
      BY <1>1, <1>19, <2>1 DEF Scanned
    <3> QED BY <1>1, <3>1 DEF NoMore
  <2> QED BY <1>19, <2>1 DEF Scanned
<1> QED BY <1>13, <1>18, <1>19, <1>20 DEF Scanned, Complete

(* There is one next match at most. *)
LEMMA NextIsOne ==
    ASSUME NEW text, NEW words, NEW d \in Nat, NEW g, NEW h,
           IsNext(text, words, d, g), IsNext(text, words, d, h)
    PROVE  g = h
<1>1. /\ g \in Spans /\ h \in Spans /\ g.from \in Nat /\ h.from \in Nat
      /\ d < g.from /\ d < h.from
  BY DEF IsNext, Spans
<1>2. PICK v \in 1..Len(words) :
        FirstThere(text, words, g.from, v) /\ g.to = g.from + Len(words[v]) - 1
  BY DEF IsNext
<1>3. PICK w \in 1..Len(words) :
        FirstThere(text, words, h.from, w) /\ h.to = h.from + Len(words[w]) - 1
  BY DEF IsNext
<1>4. ~(g.from < h.from)
  <2> SUFFICES ASSUME g.from < h.from PROVE FALSE
    OBVIOUS
  <2>1. g.from \in (d + 1)..(h.from - 1)
    BY <1>1
  <2>2. NoneThere(text, words, g.from)
    BY <2>1 DEF IsNext
  <2> QED BY <1>2, <2>2 DEF NoneThere, FirstThere
<1>5. ~(h.from < g.from)
  <2> SUFFICES ASSUME h.from < g.from PROVE FALSE
    OBVIOUS
  <2>1. h.from \in (d + 1)..(g.from - 1)
    BY <1>1
  <2>2. NoneThere(text, words, h.from)
    BY <2>1 DEF IsNext
  <2> QED BY <1>3, <2>2 DEF NoneThere, FirstThere
<1>6. g.from = h.from
  BY <1>1, <1>4, <1>5
<1>7. v = w
  <2>1. ~(v < w)
    <3> SUFFICES ASSUME v < w PROVE FALSE
      OBVIOUS
    <3>1. v \in 1..(w - 1)
      OBVIOUS
    <3> QED BY <1>2, <1>3, <1>6, <3>1 DEF FirstThere
  <2>2. ~(w < v)
    <3> SUFFICES ASSUME w < v PROVE FALSE
      OBVIOUS
    <3>1. w \in 1..(v - 1)
      OBVIOUS
    <3> QED BY <1>2, <1>3, <1>6, <3>1 DEF FirstThere
  <2> QED BY <2>1, <2>2
<1>8. g = [from |-> g.from, to |-> g.to] /\ h = [from |-> h.from, to |-> h.to]
  BY <1>1 DEF Spans
<1> QED BY <1>2, <1>3, <1>6, <1>7, <1>8

(* What lies before a match of a scan. *)
LEMMA DoneIs ==
    ASSUME NEW text, NEW words, NEW ms, Scan(text, words, ms), NEW k \in 1..Len(ms)
    PROVE  Done(ms, k) \in Nat
<1>1. CASE k = 1
  BY <1>1 DEF Done
<1>2. CASE k # 1
  <2>1. Len(ms) \in Nat
    BY LenIs DEF Scan
  <2>2. k - 1 \in 1..Len(ms)
    BY <1>2, <2>1
  <2>3. ms[k - 1] \in Spans
    BY <2>2 DEF Scan, IsNext
  <2> QED BY <1>2, <2>3 DEF Done, Spans
<1> QED BY <1>1, <1>2

(* Two scans agree as far as both go. *)
LEMMA ScansAgree ==
    ASSUME NEW text, NEW words, NEW ms, NEW ns, Scan(text, words, ms), Scan(text, words, ns),
           NEW n \in Nat, n <= Len(ms), n <= Len(ns)
    PROVE  \A k \in 1..n : ms[k] = ns[k]
<1>0. Len(ms) \in Nat /\ Len(ns) \in Nat
  BY LenIs DEF Scan
<1>1. PICK G : G = {k \in Nat : \A j \in 1..k : j <= n => ms[j] = ns[j]}
  OBVIOUS
<1>2. 0 \in G
  BY <1>1
<1>3. ASSUME NEW k \in G PROVE k + 1 \in G
  <2>1. k \in Nat /\ \A j \in 1..k : j <= n => ms[j] = ns[j]
    BY <1>1
  <2>2. ASSUME k + 1 <= n PROVE ms[k + 1] = ns[k + 1]
    <3>1. k + 1 \in 1..Len(ms) /\ k + 1 \in 1..Len(ns)
      BY <1>0, <2>1, <2>2
    <3>2. Done(ms, k + 1) = Done(ns, k + 1)
      <4>1. CASE k = 0
        BY <4>1 DEF Done
      <4>2. CASE k # 0
        <5>1. k \in 1..k /\ k <= n /\ k + 1 # 1 /\ (k + 1) - 1 = k
          BY <2>1, <2>2, <4>2
        <5> QED BY <2>1, <5>1 DEF Done
      <4> QED BY <4>1, <4>2
    <3>3. PICK d \in Nat : d = Done(ms, k + 1)
      BY <3>1, DoneIs
    <3>4. IsNext(text, words, d, ms[k + 1]) /\ IsNext(text, words, d, ns[k + 1])
      BY <3>1, <3>2, <3>3 DEF Scan
    <3> QED BY <3>4, NextIsOne
  <2>3. ASSUME NEW j \in 1..(k + 1), j <= n PROVE ms[j] = ns[j]
    <3>1. j \in 1..k \/ j = k + 1
      BY <2>1
    <3> QED BY <2>1, <2>2, <2>3, <3>1
  <2>4. k + 1 \in Nat
    BY <2>1
  <2> QED BY <1>1, <2>3, <2>4
<1>4. n \in G
  BY <1>2, <1>3, UpFromZero
<1> QED BY <1>1, <1>4

(* Two that are complete are of the same length. *)
LEMMA NoLonger ==
    ASSUME NEW text, NEW words, NEW ms, NEW ns,
           Complete(text, words, ms), Scan(text, words, ns)
    PROVE  Len(ns) <= Len(ms)
<1>0. Len(ms) \in Nat /\ Len(ns) \in Nat /\ Scan(text, words, ms) /\ ms \in Seq(Spans)
  BY LenIs DEF Scan, Complete
<1> SUFFICES ASSUME Len(ms) < Len(ns) PROVE FALSE
  BY <1>0
<1>1. PICK m \in Nat : m = Len(ms)
  BY <1>0
<1>2. \A k \in 1..m : ms[k] = ns[k]
  BY <1>0, <1>1, ScansAgree
<1>3. m + 1 \in 1..Len(ns)
  BY <1>0, <1>1
<1>4. PICK h : h = ns[m + 1]
  OBVIOUS
<1>5. Done(ns, m + 1) = Behind(ms)
  <2>1. CASE m = 0
    <3>1. ms = <<>>
      BY <1>0, <1>1, <2>1, LenIs
    <3> QED BY <2>1, <3>1 DEF Done, Behind
  <2>2. CASE m # 0
    <3>1. ms # <<>> /\ m \in 1..m /\ m + 1 # 1 /\ (m + 1) - 1 = m
      BY <1>0, <1>1, <2>2, LenIs
    <3> QED BY <1>1, <1>2, <3>1 DEF Done, Behind
  <2> QED BY <2>1, <2>2
<1>6. IsNext(text, words, Behind(ms), h)
  BY <1>3, <1>4, <1>5 DEF Scan
<1>7. PICK w \in 1..Len(words) : FirstThere(text, words, h.from, w)
  BY <1>6 DEF IsNext
<1>8. Behind(ms) \in Nat /\ Len(text) \in Int
  BY DEF Complete
<1>9. h.from \in (Behind(ms) + 1)..Len(text)
  BY <1>6, <1>8 DEF IsNext, Spans
<1>10. NoneThere(text, words, h.from)
  BY <1>9 DEF Complete, NoMore
<1> QED BY <1>7, <1>10 DEF FirstThere, NoneThere

(* So a complete scan is what a matcher returns. *)
LEMMA CompleteIsMatches ==
    ASSUME NEW C, NEW text \in Seq(C), NEW words \in Words(C), NEW ms, Complete(text, words, ms)
    PROVE  Matches(text, words) = ms
<1>1. PICK ns : ns = Matches(text, words)
  OBVIOUS
<1>2. Complete(text, words, ns)
  BY <1>1, MatchesAreComplete
<1>3. ms \in Seq(Spans) /\ ns \in Seq(Spans) /\ Scan(text, words, ms) /\ Scan(text, words, ns)
  BY <1>2 DEF Complete, Scan
<1>4. Len(ms) \in Nat /\ Len(ns) \in Nat
  BY <1>3, LenIs
<1>5. Len(ms) = Len(ns)
  BY <1>2, <1>3, <1>4, NoLonger
<1>6. \A k \in 1..Len(ms) : ms[k] = ns[k]
  BY <1>3, <1>4, <1>5, ScansAgree
<1> QED BY <1>1, <1>3, <1>5, <1>6, SeqEqual
-----------------------------------------------------------------------------
(* A replacement that shows nothing of what is looked for. *)

(* A text is three pieces, one behind the other. *)
IsThree(text, A, M, B) ==
    /\ Len(text) = Len(A) + Len(M) + Len(B)
    /\ \A i \in 1..Len(A) : text[i] = A[i]
    /\ \A i \in 1..Len(M) : text[Len(A) + i] = M[i]
    /\ \A i \in 1..Len(B) : text[Len(A) + Len(M) + i] = B[i]

(* It is if it is put together so. *)
LEMMA ThreeIs ==
    ASSUME NEW C, NEW A \in Seq(C), NEW M \in Seq(C), NEW B \in Seq(C)
    PROVE  (A \o M) \o B \in Seq(C) /\ IsThree((A \o M) \o B, A, M, B)
<1>1. PICK a \in Nat, m \in Nat, b \in Nat : a = Len(A) /\ m = Len(M) /\ b = Len(B)
  OBVIOUS
<1>2. PICK s \in Seq(C) : s = A \o M
  <2>1. A \o M \in Seq(C)
    BY ConcatProperties
  <2> QED BY <2>1
<1>3. Len(s) = a + m /\ \A i \in 1..(a + m) : s[i] = IF i <= a THEN A[i] ELSE M[i - a]
  BY <1>1, <1>2, ConcatProperties
<1>4. PICK t \in Seq(C) : t = s \o B
  <2>1. s \o B \in Seq(C)
    BY ConcatProperties
  <2> QED BY <2>1
<1>5. /\ Len(t) = a + m + b
      /\ \A i \in 1..(a + m + b) : t[i] = IF i <= a + m THEN s[i] ELSE B[i - (a + m)]
  BY <1>1, <1>3, <1>4, ConcatProperties
<1>6. ASSUME NEW i \in 1..a PROVE t[i] = A[i]
  <2>1. i \in 1..(a + m + b) /\ i \in 1..(a + m) /\ i <= a + m /\ i <= a
    OBVIOUS
  <2> QED BY <1>3, <1>5, <2>1
<1>7. ASSUME NEW i \in 1..m PROVE t[a + i] = M[i]
  <2>1. /\ a + i \in 1..(a + m + b) /\ a + i \in 1..(a + m) /\ a + i <= a + m
        /\ ~(a + i <= a) /\ (a + i) - a = i
    OBVIOUS
  <2> QED BY <1>3, <1>5, <2>1
<1>8. ASSUME NEW i \in 1..b PROVE t[a + m + i] = B[i]
  <2>1. /\ a + m + i \in 1..(a + m + b) /\ ~(a + m + i <= a + m) /\ (a + m + i) - (a + m) = i
    OBVIOUS
  <2> QED BY <1>5, <2>1
<1> QED BY <1>1, <1>2, <1>4, <1>5, <1>6, <1>7, <1>8 DEF IsThree

Apart(word, N) == \A j \in 1..Len(word) : \A i \in 1..Len(N) : word[j] # N[i]

(* A word that shares no character with the new text fits before or behind  *)
(* it only, and where it fits it fitted before.                             *)
LEMMA FitsMoved ==
    ASSUME NEW C, NEW A \in Seq(C), NEW M \in Seq(C), NEW B \in Seq(C), NEW N \in Seq(C),
           NEW text, IsThree(text, A, M, B), NEW next, IsThree(next, A, N, B), N # <<>>,
           NEW word \in Seq(C) \ {<<>>}, Apart(word, N), NEW i \in Nat \ {0},
           FitsAt(next, i, word)
    PROVE  \/ i <= Len(A) /\ FitsAt(text, i, word)
           \/ /\ i > Len(A) + Len(N)
              /\ FitsAt(text, i - Len(N) + Len(M), word)
<1>1. PICK a \in Nat, m \in Nat, b \in Nat, n \in Nat, l \in Nat :
        a = Len(A) /\ m = Len(M) /\ b = Len(B) /\ n = Len(N) /\ l = Len(word)
  OBVIOUS
<1>2. n >= 1 /\ l >= 1
  BY <1>1, LenIs
<1>3. i + l - 1 <= a + n + b /\ \A j \in 1..l : next[i + j - 1] = word[j]
  BY <1>1 DEF FitsAt, IsThree
<1>4. ASSUME NEW j \in 1..l PROVE i + j - 1 \notin (a + 1)..(a + n)
  <2> SUFFICES ASSUME i + j - 1 \in (a + 1)..(a + n) PROVE FALSE
    OBVIOUS
  <2>1. PICK k \in 1..n : i + j - 1 = a + k
    <3>1. i + j - 1 - a \in 1..n /\ i + j - 1 = a + (i + j - 1 - a)
      OBVIOUS
    <3> QED BY <3>1
  <2>2. next[a + k] = N[k]
    BY <1>1 DEF IsThree
  <2> QED BY <1>1, <1>3, <2>1, <2>2 DEF Apart
<1>5. CASE i <= a
  <2>1. i + l - 1 <= a
    <3> SUFFICES ASSUME i + l - 1 > a PROVE FALSE
      OBVIOUS
    <3>1. PICK j \in Int : j = a + 2 - i
      OBVIOUS
    <3>2. j \in 1..l /\ i + j - 1 = a + 1
      BY <1>5, <3>1
    <3>3. i + j - 1 \in (a + 1)..(a + n)
      BY <1>2, <3>2
    <3> QED BY <1>4, <3>2, <3>3
  <2>2. ASSUME NEW j \in 1..l PROVE text[i + j - 1] = word[j]
    <3>1. i + j - 1 \in 1..a
      BY <2>1
    <3>2. text[i + j - 1] = A[i + j - 1] /\ next[i + j - 1] = A[i + j - 1]
      BY <1>1, <3>1 DEF IsThree
    <3> QED BY <1>3, <3>2
  <2>3. i + l - 1 <= Len(text)
    BY <1>1, <2>1 DEF IsThree
  <2> QED BY <1>1, <1>5, <2>2, <2>3 DEF FitsAt
<1>6. CASE i > a
  <2>1. i > a + n
    <3>1. 1 \in 1..l /\ i + 1 - 1 = i
      BY <1>2
    <3>2. i \notin (a + 1)..(a + n)
      BY <1>4, <3>1
    <3> QED BY <1>6, <3>2
  <2>2. PICK p \in Nat : p = i - n + m
    <3>1. i - n + m \in Nat
      BY <2>1
    <3> QED BY <3>1
  <2>3. ASSUME NEW j \in 1..l PROVE text[p + j - 1] = word[j]
    <3>1. PICK k \in Int : k = i + j - 1 - (a + n)
      OBVIOUS
    <3>2. k \in 1..b /\ i + j - 1 = a + n + k /\ p + j - 1 = a + m + k
      BY <1>3, <2>1, <2>2, <3>1
    <3>3. text[a + m + k] = B[k] /\ next[a + n + k] = B[k]
      BY <1>1, <3>2 DEF IsThree
    <3> QED BY <1>3, <3>2, <3>3
  <2>4. p + l - 1 <= Len(text)
    BY <1>1, <1>3, <2>2 DEF IsThree
  <2>5. FitsAt(text, p, word)
    BY <1>1, <2>3, <2>4 DEF FitsAt
  <2> QED BY <1>1, <2>1, <2>2, <2>5
<1> QED BY <1>5, <1>6

(* What fits before the replacement fits on. *)
LEMMA FitsOn ==
    ASSUME NEW C, NEW A \in Seq(C), NEW M \in Seq(C), NEW B \in Seq(C), NEW N \in Seq(C),
           NEW text, IsThree(text, A, M, B), NEW next, IsThree(next, A, N, B),
           NEW word \in Seq(C), NEW i \in Nat \ {0}, FitsAt(text, i, word),
           i + Len(word) - 1 <= Len(A)
    PROVE  FitsAt(next, i, word)
<1>1. PICK a \in Nat, b \in Nat, n \in Nat, l \in Nat :
        a = Len(A) /\ b = Len(B) /\ n = Len(N) /\ l = Len(word)
  OBVIOUS
<1>2. i + l - 1 <= a /\ \A j \in 1..l : text[i + j - 1] = word[j]
  BY <1>1 DEF FitsAt
<1>3. ASSUME NEW j \in 1..l PROVE next[i + j - 1] = word[j]
  <2>1. i + j - 1 \in 1..a
    BY <1>2
  <2>2. text[i + j - 1] = A[i + j - 1] /\ next[i + j - 1] = A[i + j - 1]
    BY <1>1, <2>1 DEF IsThree
  <2> QED BY <1>2, <2>2
<1>4. i + l - 1 <= Len(next)
  BY <1>1, <1>2 DEF IsThree
<1> QED BY <1>1, <1>3, <1>4 DEF FitsAt

(* The matches of a scan come one behind the other. *)
LEMMA ScanRises ==
    ASSUME NEW text, NEW words, NEW ms, Scan(text, words, ms), NEW j \in 1..Len(ms)
    PROVE  \A k \in 1..(j - 1) : ms[k].to < ms[j].from
<1>0. PICK m \in Nat : m = Len(ms)
  BY LenIs DEF Scan
<1>1. ASSUME NEW k \in 1..m
      PROVE  /\ ms[k].from \in Nat /\ ms[k].to \in Nat /\ ms[k].from <= ms[k].to
             /\ Done(ms, k) < ms[k].from
  BY <1>0, <1>1 DEF Scan, IsNext, Spans
<1>2. PICK G : G = {n \in Nat : \A j_ \in 1..n : j_ <= m =>
                        \A k \in 1..(j_ - 1) : ms[k].to < ms[j_].from}
  OBVIOUS
<1>3. 0 \in G
  BY <1>2
<1>4. ASSUME NEW n \in G PROVE n + 1 \in G
  <2>1. n \in Nat /\ \A i \in 1..n : i <= m => \A k \in 1..(i - 1) : ms[k].to < ms[i].from
    BY <1>2
  <2>2. ASSUME n + 1 <= m, NEW k \in 1..n PROVE ms[k].to < ms[n + 1].from
    <3>1. n \in 1..n /\ n \in 1..m /\ n + 1 \in 1..m /\ n + 1 # 1 /\ (n + 1) - 1 = n /\ k \in 1..m
      BY <1>0, <2>1, <2>2
    <3>2. Done(ms, n + 1) = ms[n].to
      BY <3>1 DEF Done
    <3>3. ms[n].to < ms[n + 1].from
      BY <1>1, <3>1, <3>2
    <3>4. CASE k = n
      BY <3>3, <3>4
    <3>5. CASE k # n
      <4>1. k \in 1..(n - 1) /\ n <= m
        BY <2>1, <3>1, <3>5
      <4>2. ms[k].to < ms[n].from
        BY <2>1, <3>1, <4>1
      <4> QED BY <1>1, <3>1, <3>3, <4>2
    <3> QED BY <3>4, <3>5
  <2>3. ASSUME NEW i \in 1..(n + 1), i <= m, NEW k \in 1..(i - 1)
        PROVE  ms[k].to < ms[i].from
    <3>1. i \in 1..n \/ (i = n + 1 /\ k \in 1..n /\ n + 1 <= m)
      BY <2>1, <2>3
    <3> QED BY <2>1, <2>2, <2>3, <3>1
  <2>4. n + 1 \in Nat
    BY <2>1
  <2> QED BY <1>2, <2>3, <2>4
<1>5. j \in Nat /\ j <= m /\ j \in 1..j
  BY <1>0
<1>6. j \in G
  BY <1>3, <1>4, <1>5, UpFromZero
<1> QED BY <1>2, <1>5, <1>6

(* M, between A and B, makes way for N, which shares nothing with a word. *)
Swapped(C, words, text, next, A, M, N, B) ==
    /\ words \in Words(C) /\ text \in Seq(C) /\ next \in Seq(C)
    /\ A \in Seq(C) /\ M \in Seq(C) /\ N \in Seq(C) /\ B \in Seq(C)
    /\ N # <<>> /\ \A w \in 1..Len(words) : Apart(words[w], N)
    /\ IsThree(text, A, M, B) /\ IsThree(next, A, N, B)

(* Where no word fitted, none fits now. *)
LEMMA NoneMoved ==
    ASSUME NEW C, NEW words, NEW text, NEW next, NEW A, NEW M, NEW N, NEW B,
           Swapped(C, words, text, next, A, M, N, B), NEW i \in Nat \ {0},
           i <= Len(A) => NoneThere(text, words, i),
           i > Len(A) + Len(N) => NoneThere(text, words, i - Len(N) + Len(M))
    PROVE  NoneThere(next, words, i)
<1> SUFFICES ASSUME NEW w \in 1..Len(words), FitsAt(next, i, words[w]) PROVE FALSE
  BY DEF NoneThere
<1>1. /\ A \in Seq(C) /\ M \in Seq(C) /\ N \in Seq(C) /\ B \in Seq(C) /\ N # <<>>
      /\ IsThree(text, A, M, B) /\ IsThree(next, A, N, B)
      /\ words[w] \in Seq(C) \ {<<>>} /\ Apart(words[w], N)
  BY DEF Swapped, Words
<1>2. \/ i <= Len(A) /\ FitsAt(text, i, words[w])
      \/ /\ i > Len(A) + Len(N)
         /\ FitsAt(text, i - Len(N) + Len(M), words[w])
  BY <1>1, FitsMoved
<1> QED BY <1>2 DEF NoneThere

(* A match before the replacement is the next as before. *)
LEMMA NextMoved ==
    ASSUME NEW C, NEW words, NEW text, NEW next, NEW A, NEW M, NEW N, NEW B,
           Swapped(C, words, text, next, A, M, N, B), NEW d \in Nat, NEW h,
           IsNext(text, words, d, h), h.to <= Len(A)
    PROVE  IsNext(next, words, d, h)
<1>1. PICK a \in Nat, n \in Nat, b \in Nat : a = Len(A) /\ n = Len(N) /\ b = Len(B)
  BY LenIs DEF Swapped
<1>2. PICK from \in Nat, to \in Nat : from = h.from /\ to = h.to
  BY DEF IsNext, Spans
<1>3. d < from /\ from <= to /\ to <= a /\ h \in Spans /\ from \in Nat \ {0}
  BY <1>1, <1>2 DEF IsNext
<1>4. Len(next) = a + n + b
  BY <1>1 DEF Swapped, IsThree
<1>5. PICK w \in 1..Len(words) :
        FirstThere(text, words, from, w) /\ to = from + Len(words[w]) - 1
  BY <1>2 DEF IsNext
<1>6. /\ A \in Seq(C) /\ M \in Seq(C) /\ N \in Seq(C) /\ B \in Seq(C) /\ N # <<>>
      /\ IsThree(text, A, M, B) /\ IsThree(next, A, N, B) /\ Len(words) \in Nat
      /\ \A v \in 1..Len(words) : words[v] \in Seq(C) \ {<<>>} /\ Apart(words[v], N)
  BY DEF Swapped, Words
<1>7. FitsAt(next, from, words[w])
  <2>1. FitsAt(text, from, words[w]) /\ from + Len(words[w]) - 1 <= Len(A)
    BY <1>1, <1>3, <1>5 DEF FirstThere
  <2>2. words[w] \in Seq(C)
    BY <1>6
  <2> QED BY <1>3, <1>6, <2>1, <2>2, FitsOn
<1>8. ASSUME NEW v \in 1..(w - 1) PROVE ~FitsAt(next, from, words[v])
  <2> SUFFICES ASSUME FitsAt(next, from, words[v]) PROVE FALSE
    OBVIOUS
  <2>1. v \in 1..Len(words)
    BY <1>6
  <2>2. words[v] \in Seq(C) \ {<<>>} /\ Apart(words[v], N)
    BY <1>6, <2>1
  <2>3. \/ from <= Len(A) /\ FitsAt(text, from, words[v])
        \/ /\ from > Len(A) + Len(N)
           /\ FitsAt(text, from - Len(N) + Len(M), words[v])
    BY <1>3, <1>6, <2>2, FitsMoved
  <2>4. ~(from > Len(A) + Len(N))
    BY <1>1, <1>3
  <2> QED BY <1>5, <2>3, <2>4 DEF FirstThere
<1>9. ASSUME NEW i \in (d + 1)..(from - 1) PROVE NoneThere(next, words, i)
  <2>1. i \in Nat \ {0} /\ ~(i > Len(A) + Len(N))
    BY <1>1, <1>3
  <2>2. NoneThere(text, words, i)
    BY <1>2 DEF IsNext
  <2> QED BY <2>1, <2>2, NoneMoved
<1>10. FirstThere(next, words, from, w)
  BY <1>7, <1>8 DEF FirstThere
<1>11. to <= Len(next)
  BY <1>3, <1>4
<1> QED BY <1>2, <1>3, <1>5, <1>9, <1>10, <1>11 DEF IsNext

(* The last of the matches lies between A and B; less are the others. *)
LastBetween(ms, m, less, A, M) ==
    /\ m = Len(ms) /\ less = SubSeq(ms, 1, m - 1)
    /\ ms[m].from = Len(A) + 1 /\ ms[m].to = Len(A) + Len(M)

(* So when the last match is replaced, the others are the matches there are. *)
LEMMA Rescan ==
    ASSUME NEW C, NEW words, NEW text, NEW next, NEW A, NEW M, NEW N, NEW B,
           Swapped(C, words, text, next, A, M, N, B), NEW ms, Complete(text, words, ms),
           NEW m \in Nat \ {0}, NEW less, LastBetween(ms, m, less, A, M)
    PROVE  Complete(next, words, less)
<1>0. /\ m = Len(ms) /\ less = SubSeq(ms, 1, m - 1)
      /\ ms[m].from = Len(A) + 1 /\ ms[m].to = Len(A) + Len(M)
  BY DEF LastBetween
<1>1. PICK a \in Nat, n \in Nat, b \in Nat, l \in Nat :
        a = Len(A) /\ n = Len(N) /\ b = Len(B) /\ l = Len(M)
  BY LenIs DEF Swapped
<1>2. Len(next) = a + n + b /\ Len(text) = a + l + b
  BY <1>1 DEF Swapped, IsThree
<1>3. Scan(text, words, ms) /\ ms \in Seq(Spans)
  BY DEF Complete, Scan
<1>4. /\ Scan(text, words, less) /\ Len(less) = m - 1 /\ Behind(less) = Done(ms, m)
      /\ \A k \in 1..(m - 1) : less[k] = ms[k] /\ Done(less, k) = Done(ms, k)
  <2>1. Len(ms) >= 1 /\ less = SubSeq(ms, 1, Len(ms) - 1)
    BY <1>0
  <2>2. Shrunk(text, words, ms, less)
    BY <1>3, <2>1, ScanShrinks
  <2> QED BY <1>0, <2>2 DEF Shrunk
<1>5. less \in Seq(Spans)
  BY <1>4 DEF Scan
<1>6. m \in 1..m /\ m \in 1..Len(ms)
  BY <1>0
<1>7. PICK d \in Nat : d = Done(ms, m)
  BY <1>3, <1>6, DoneIs
<1>8. IsNext(text, words, d, ms[m])
  BY <1>3, <1>6, <1>7 DEF Scan
<1>9. d <= a
  BY <1>0, <1>1, <1>7, <1>8 DEF IsNext
<1>10. ASSUME NEW k \in 1..(m - 1) PROVE IsNext(next, words, Done(less, k), less[k])
  <2>1. k \in 1..Len(less)
    BY <1>4
  <2>2. IsNext(text, words, Done(less, k), less[k])
    BY <1>4, <2>1 DEF Scan
  <2>3. Done(less, k) \in Nat
    BY <1>4, <2>1, DoneIs
  <2>4. ms[k].to < ms[m].from
    BY <1>3, <1>6, ScanRises
  <2>5. less[k].to <= Len(A)
    <3>1. PICK t \in Nat : t = less[k].to
      BY <2>2 DEF IsNext, Spans
    <3>2. t < a + 1
      BY <1>0, <1>1, <1>4, <2>4, <3>1
    <3> QED BY <1>1, <3>1, <3>2
  <2> QED BY <2>2, <2>3, <2>5, NextMoved
<1>11. Scan(next, words, less)
  BY <1>4, <1>5, <1>10 DEF Scan
<1>12. ASSUME NEW i \in (d + 1)..Len(next) PROVE NoneThere(next, words, i)
  <2>1. i \in Nat \ {0}
    OBVIOUS
  <2>2. ASSUME i <= a PROVE NoneThere(text, words, i)
    <3>1. i \in (d + 1)..(ms[m].from - 1)
      BY <1>0, <1>1, <2>2
    <3> QED BY <1>8, <3>1 DEF IsNext
  <2>3. ASSUME i > a + n PROVE NoneThere(text, words, i - n + l)
    <3>1. Behind(ms) = a + l
      <4>1. ms # <<>>
        BY <1>0, <1>3, LenIs
      <4> QED BY <1>0, <1>1, <4>1 DEF Behind
    <3>2. i - n + l \in (a + l + 1)..Len(text)
      BY <1>2, <2>3
    <3> QED BY <3>1, <3>2 DEF Complete, NoMore
  <2> QED BY <1>1, <2>1, <2>2, <2>3, NoneMoved
<1>13. Behind(less) \in 0..Len(next)
  BY <1>2, <1>4, <1>7, <1>9
<1> QED BY <1>4, <1>7, <1>11, <1>12, <1>13 DEF Complete, NoMore
-----------------------------------------------------------------------------
(* The text map. *)

(* The characters of the texts. *)
Signs == STRING \cup {"[", "T", "]", "\t"}

Shows == [c \in Cell |-> Literal(c)]

Pieces(para) == [k \in 1..Len(para) |-> Literal(para[k])]

(* A sequence of three. *)
LEMMA ThreeLong ==
    ASSUME NEW S, NEW x \in S, NEW y \in S, NEW z \in S
    PROVE  <<x, y, z>> \in Seq(S)
OBVIOUS

(* What a cell shows is characters. *)
LEMMA ShowsIs == Shows \in [Cell -> Seq(Signs)]
<1>1. ASSUME NEW c \in Cell PROVE Literal(c) \in Seq(Signs)
  <2>1. c.is \in Signs
    BY DEF Cell, Signs
  <2>2. <<>> \in Seq(Signs) /\ <<"[", "T", "]">> \in Seq(Signs) /\ <<c.is>> \in Seq(Signs)
    <3>1. "[" \in Signs /\ "T" \in Signs /\ "]" \in Signs
      BY DEF Signs
    <3>2. <<"[", "T", "]">> \in Seq(Signs)
      BY <3>1, ThreeLong
    <3>3. <<>> \in Seq(Signs) /\ <<c.is>> \in Seq(Signs)
      BY <2>1
    <3> QED BY <3>2, <3>3
  <2> QED BY <2>2 DEF Literal
<1> QED BY <1>1 DEF Shows

MapIsText(para) ==
    /\ Pieces(para) \in Seq(Seq(Signs)) /\ Len(Pieces(para)) = Len(para)
    /\ \A k \in 1..Len(para) : Pieces(para)[k] = Literal(para[k])
    /\ MapText(para) = FlattenSeq(Pieces(para)) /\ MapText(para) \in Seq(Signs)
    /\ MapText(para) = Spread(para, Shows)

(* The map shows the cells one after the other. *)
LEMMA MapIs ==
    ASSUME NEW para \in Seq(Cell)
    PROVE  MapIsText(para)
<1>1. PICK n \in Nat : n = Len(para)
  OBVIOUS
<1>2. ASSUME NEW k \in 1..n PROVE Literal(para[k]) = Shows[para[k]]
  <2>1. para[k] \in Cell
    BY <1>1
  <2> QED BY <2>1 DEF Shows
<1>3. Pieces(para) = Images(para, Shows)
  BY <1>1, <1>2 DEF Pieces, Images
<1>4. IsSpread(para, Shows, Signs)
  BY ShowsIs, SpreadIs
<1>5. MapText(para) = FlattenSeq(Pieces(para))
  BY DEF MapText, Pieces
<1>6. \A k \in 1..n : Pieces(para)[k] = Literal(para[k])
  BY <1>1 DEF Pieces
<1> QED BY <1>1, <1>3, <1>4, <1>5, <1>6 DEF IsSpread, Spread, MapIsText

(* It shows what is put together as it shows the parts. *)
LEMMA MapConcat ==
    ASSUME NEW s \in Seq(Cell), NEW t \in Seq(Cell)
    PROVE  MapText(s \o t) = MapText(s) \o MapText(t)
<1>1. s \o t \in Seq(Cell)
  BY ConcatProperties
<1>2. Spread(s \o t, Shows) = Spread(s, Shows) \o Spread(t, Shows)
  BY ShowsIs, SpreadConcat
<1>3. MapIsText(s) /\ MapIsText(t) /\ MapIsText(s \o t)
  BY <1>1, MapIs
<1> QED BY <1>2, <1>3 DEF MapIsText

(* The characters that the first k cells show. *)
Before(para, k) == Len(MapText(SubSeq(para, 1, k)))

(* They are the first pieces. *)
LEMMA BeforeIs ==
    ASSUME NEW para \in Seq(Cell), NEW k \in 0..Len(para)
    PROVE  /\ Before(para, k) = Len(Upto(Pieces(para), k))
           /\ Before(para, k) \in Nat /\ SubSeq(para, 1, k) \in Seq(Cell)
<1>1. PICK n \in Nat : n = Len(para) /\ k \in Nat /\ k <= n
  OBVIOUS
<1>2. PICK s : s = SubSeq(para, 1, k)
  OBVIOUS
<1>3. PICK p \in Seq(Seq(Signs)) : p = Pieces(para) /\ Len(p) = n
  BY <1>1, MapIs DEF MapIsText
<1>4. s \in Seq(Cell) /\ Len(s) = k /\ \A i \in 1..k : s[i] = para[i]
  <2>1. \A i \in 1..k : para[i] \in Cell
    BY <1>1
  <2>2. 1 \in Int /\ k \in Int /\ k - 1 + 1 = k
    BY <1>1
  <2>3. /\ s \in Seq(Cell) /\ Len(s) = (IF 1 <= k THEN k - 1 + 1 ELSE 0)
        /\ \A i \in 1..(k - 1 + 1) : s[i] = para[1 + i - 1]
    BY <1>2, <2>1, <2>2, SubSeqProperties
  <2>4. \A i \in 1..k : 1 + i - 1 = i
    OBVIOUS
  <2> QED BY <1>1, <2>2, <2>3, <2>4
<1>5. PICK q : q = SubSeq(p, 1, k)
  OBVIOUS
<1>6. q \in Seq(Seq(Signs)) /\ Len(q) = k /\ \A i \in 1..k : q[i] = p[i]
  <2>1. \A i \in 1..k : p[i] \in Seq(Signs)
    BY <1>1, <1>3
  <2>2. 1 \in Int /\ k \in Int /\ k - 1 + 1 = k
    BY <1>1
  <2>3. /\ q \in Seq(Seq(Signs)) /\ Len(q) = (IF 1 <= k THEN k - 1 + 1 ELSE 0)
        /\ \A i \in 1..(k - 1 + 1) : q[i] = p[1 + i - 1]
    BY <1>5, <2>1, <2>2, SubSeqProperties
  <2>4. \A i \in 1..k : 1 + i - 1 = i
    OBVIOUS
  <2> QED BY <1>1, <2>2, <2>3, <2>4
<1>7. MapIsText(s)
  BY <1>4, MapIs
<1>8. Pieces(s) = q
  <2>1. ASSUME NEW i \in 1..k PROVE Pieces(s)[i] = q[i]
    <3>1. i \in 1..n /\ i \in 1..Len(s) /\ i \in 1..Len(para)
      BY <1>1, <1>4
    <3>2. p[i] = Literal(para[i])
      BY <1>3, <3>1 DEF Pieces
    <3>3. Pieces(s)[i] = Literal(s[i])
      BY <3>1 DEF Pieces
    <3> QED BY <1>4, <1>6, <3>2, <3>3
  <2>2. Pieces(s) \in Seq(Seq(Signs)) /\ Len(Pieces(s)) = k
    BY <1>4, <1>7 DEF MapIsText
  <2> QED BY <1>6, <2>1, <2>2, SeqEqual
<1>9. MapText(s) = Upto(p, k) /\ MapText(s) \in Seq(Signs)
  BY <1>5, <1>7, <1>8 DEF MapIsText, Upto
<1> QED BY <1>2, <1>3, <1>4, <1>9 DEF Before

IsOwner(para, n, o) ==
    /\ o \in 1..Len(para) /\ Literal(para[o]) # <<>>
    /\ n <= Before(para, o) /\ \A k \in 1..Len(para) : n <= Before(para, k) => o <= k

(* The cell that shows a character. *)
LEMMA OwnerIs ==
    ASSUME NEW para \in Seq(Cell), NEW n \in 1..Len(MapText(para))
    PROVE  IsOwner(para, n, Owner(para, n))
<1>1. PICK m \in Nat : m = Len(para)
  OBVIOUS
<1>2. PICK p \in Seq(Seq(Signs)) : p = Pieces(para) /\ Len(p) = m /\ MapText(para) = FlattenSeq(p)
  BY <1>1, MapIs DEF MapIsText
<1>3. PICK o \in 1..Len(p) : \E j \in 1..Len(p[o]) : n = Len(Upto(p, o - 1)) + j
  <2>1. n \in 1..Len(FlattenSeq(p))
    BY <1>2
  <2>2. \E q \in 1..Len(p) : \E j \in 1..Len(p[q]) :
          /\ n = Len(Upto(p, q - 1)) + j
          /\ FlattenSeq(p)[n] = p[q][j]
    BY <2>1, PieceOfIndex
  <2> QED BY <2>2, Zenon
<1>4. PICK j \in 1..Len(p[o]) : n = Len(Upto(p, o - 1)) + j
  BY <1>3
<1>5. o \in 1..m /\ p[o] = Literal(para[o])
  BY <1>1, <1>2 DEF Pieces
<1>6. Literal(para[o]) # <<>>
  <2>1. p[o] \in Seq(Signs)
    BY <1>2
  <2>2. Len(p[o]) \in Nat /\ Len(p[o]) # 0
    BY <1>4, <2>1
  <2> QED BY <1>5, <2>1, <2>2, LenIs
<1>7. ASSUME NEW k \in 1..m PROVE n <= Before(para, k) <=> o <= k
  <2>1. k \in 0..Len(p) /\ k \in 0..Len(para)
    BY <1>1, <1>2
  <2>2. n <= Len(Upto(p, k)) <=> o <= k
    BY <1>4, <2>1, PieceReached
  <2>3. Before(para, k) = Len(Upto(p, k))
    BY <1>2, <2>1, BeforeIs
  <2> QED BY <2>2, <2>3
<1>8. PICK S : S = {k \in 1..m : n <= Before(para, k)}
  OBVIOUS
<1>9. S \in SUBSET Nat /\ o \in S
  BY <1>5, <1>7, <1>8
<1>10. Min(S) \in S /\ \A k \in S : Min(S) <= k
  BY <1>9, MinIs
<1>11. Min(S) = o
  <2>1. Min(S) \in 1..m /\ o <= Min(S) /\ Min(S) <= o
    BY <1>7, <1>8, <1>9, <1>10
  <2> QED BY <1>5, <2>1
<1>12. Owner(para, n) = o
  BY <1>1, <1>8, <1>11 DEF Owner, Before
<1> QED BY <1>1, <1>5, <1>6, <1>7, <1>12 DEF IsOwner

(* i to j are some of the cells, A those before them and B those behind. *)
IsSplit(para, i, j, A, M, B) ==
    /\ i \in 1..j /\ j \in 1..Len(para)
    /\ A = SubSeq(para, 1, i - 1) /\ M = SubSeq(para, i, j)
    /\ B = SubSeq(para, j + 1, Len(para))
    /\ A \in Seq(Cell) /\ M \in Seq(Cell) /\ B \in Seq(Cell)
    /\ SubSeq(para, 1, j) = A \o M /\ para = (A \o M) \o B

(* A part of a paragraph. *)
LEMMA PartIs ==
    ASSUME NEW para \in Seq(Cell), NEW i \in Nat \ {0}, NEW j \in 0..Len(para), i <= j + 1
    PROVE  /\ SubSeq(para, i, j) \in Seq(Cell) /\ Len(SubSeq(para, i, j)) = j - i + 1
           /\ \A k \in 1..(j - i + 1) : SubSeq(para, i, j)[k] = para[i + k - 1]
<1>1. \A k \in i..j : para[k] \in Cell
  <2>1. ASSUME NEW k \in i..j PROVE k \in 1..Len(para)
    OBVIOUS
  <2> QED BY <2>1
<1>2. i \in Int /\ j \in Int
  OBVIOUS
<1>3. PICK s : s = SubSeq(para, i, j)
  OBVIOUS
<1>4. /\ s \in Seq(Cell) /\ Len(s) = (IF i <= j THEN j - i + 1 ELSE 0)
      /\ \A k \in 1..(j - i + 1) : s[k] = para[i + k - 1]
  BY <1>1, <1>2, <1>3, SubSeqProperties
<1>5. (IF i <= j THEN j - i + 1 ELSE 0) = j - i + 1
  BY <1>2
<1> QED BY <1>3, <1>4, <1>5

(* A paragraph is its parts. *)
LEMMA SplitIs ==
    ASSUME NEW para \in Seq(Cell), NEW j \in 1..Len(para), NEW i \in 1..j
    PROVE  \E A, M, B : IsSplit(para, i, j, A, M, B)
<1>1. PICK n \in Nat : n = Len(para) /\ j <= n /\ 1 <= i /\ i <= j /\ i \in Nat /\ j \in Nat
  OBVIOUS
<1>2. PICK A, M, B, H : /\ A = SubSeq(para, 1, i - 1) /\ M = SubSeq(para, i, j)
                        /\ B = SubSeq(para, j + 1, n) /\ H = SubSeq(para, 1, j)
  OBVIOUS
<1>3. A \in Seq(Cell) /\ Len(A) = i - 1 /\ \A k \in 1..(i - 1) : A[k] = para[k]
  <2>1. 1 \in Nat \ {0} /\ i - 1 \in 0..Len(para) /\ 1 <= i - 1 + 1 /\ i - 1 - 1 + 1 = i - 1
    BY <1>1
  <2>2. /\ A \in Seq(Cell) /\ Len(A) = i - 1 - 1 + 1
        /\ \A k \in 1..(i - 1 - 1 + 1) : A[k] = para[1 + k - 1]
    BY <1>2, <2>1, PartIs
  <2>3. \A k \in 1..(i - 1) : 1 + k - 1 = k
    OBVIOUS
  <2> QED BY <2>1, <2>2, <2>3
<1>4. H \in Seq(Cell) /\ Len(H) = j /\ \A k \in 1..j : H[k] = para[k]
  <2>1. 1 \in Nat \ {0} /\ j \in 0..Len(para) /\ 1 <= j + 1 /\ j - 1 + 1 = j
    BY <1>1
  <2>2. /\ H \in Seq(Cell) /\ Len(H) = j - 1 + 1
        /\ \A k \in 1..(j - 1 + 1) : H[k] = para[1 + k - 1]
    BY <1>2, <2>1, PartIs
  <2>3. \A k \in 1..j : 1 + k - 1 = k
    OBVIOUS
  <2> QED BY <2>1, <2>2, <2>3
<1>5. M \in Seq(Cell) /\ Len(M) = j - i + 1 /\ \A k \in 1..(j - i + 1) : M[k] = para[i + k - 1]
  <2>1. i \in Nat \ {0} /\ j \in 0..Len(para) /\ i <= j + 1
    BY <1>1
  <2> QED BY <1>2, <2>1, PartIs
<1>6. B \in Seq(Cell) /\ Len(B) = n - j /\ \A k \in 1..(n - j) : B[k] = para[j + k]
  <2>1. j + 1 \in Nat \ {0} /\ n \in 0..Len(para) /\ j + 1 <= n + 1 /\ n - (j + 1) + 1 = n - j
    BY <1>1
  <2>2. /\ B \in Seq(Cell) /\ Len(B) = n - (j + 1) + 1
        /\ \A k \in 1..(n - (j + 1) + 1) : B[k] = para[(j + 1) + k - 1]
    BY <1>2, <2>1, PartIs
  <2>3. \A k \in 1..(n - j) : (j + 1) + k - 1 = j + k
    OBVIOUS
  <2> QED BY <2>1, <2>2, <2>3
<1>7. H = A \o M
  <2>1. PICK c : c = A \o M
    OBVIOUS
  <2>2. /\ c \in Seq(Cell) /\ Len(c) = Len(A) + Len(M)
        /\ \A k \in 1..(Len(A) + Len(M)) : c[k] = IF k <= Len(A) THEN A[k] ELSE M[k - Len(A)]
    BY <1>3, <1>5, <2>1, ConcatProperties
  <2>3. Len(A) + Len(M) = j
    BY <1>3, <1>5
  <2>4. ASSUME NEW k \in 1..j PROVE c[k] = H[k]
    <3>1. CASE k <= i - 1
      <4>1. k \in 1..(i - 1)
        BY <3>1
      <4> QED BY <1>3, <1>4, <2>2, <2>3, <3>1, <4>1
    <3>2. CASE ~(k <= i - 1)
      <4>1. k - (i - 1) \in 1..(j - i + 1) /\ i + (k - (i - 1)) - 1 = k
        BY <3>2
      <4>2. M[k - (i - 1)] = para[k]
        BY <1>5, <4>1
      <4> QED BY <1>3, <1>4, <2>2, <2>3, <3>2, <4>2
    <3> QED BY <3>1, <3>2
  <2> QED BY <1>4, <2>1, <2>2, <2>3, <2>4, SeqEqual
<1>8. para = H \o B
  <2>1. PICK c : c = H \o B
    OBVIOUS
  <2>2. /\ c \in Seq(Cell) /\ Len(c) = Len(H) + Len(B)
        /\ \A k \in 1..(Len(H) + Len(B)) : c[k] = IF k <= Len(H) THEN H[k] ELSE B[k - Len(H)]
    BY <1>4, <1>6, <2>1, ConcatProperties
  <2>3. Len(H) + Len(B) = n
    BY <1>1, <1>4, <1>6
  <2>4. ASSUME NEW k \in 1..n PROVE c[k] = para[k]
    <3>1. CASE k <= j
      <4>1. k \in 1..j
        BY <3>1
      <4> QED BY <1>4, <2>2, <2>3, <3>1, <4>1
    <3>2. CASE ~(k <= j)
      <4>1. k - j \in 1..(n - j) /\ j + (k - j) = k
        BY <1>1, <3>2
      <4>2. B[k - j] = para[k]
        BY <1>6, <4>1
      <4> QED BY <1>4, <2>2, <2>3, <3>2, <4>2
    <3> QED BY <3>1, <3>2
  <2> QED BY <1>1, <2>1, <2>2, <2>3, <2>4, SeqEqual
<1>9. i \in 1..j /\ j \in 1..Len(para)
  OBVIOUS
<1>10. IsSplit(para, i, j, A, M, B)
  BY <1>1, <1>2, <1>3, <1>5, <1>6, <1>7, <1>8, <1>9 DEF IsSplit
<1> QED BY <1>10

(* A piece in the middle of a paragraph shows in the middle of the text. *)
LEMMA MapThree ==
    ASSUME NEW A \in Seq(Cell), NEW M \in Seq(Cell), NEW B \in Seq(Cell)
    PROVE  /\ (A \o M) \o B \in Seq(Cell)
           /\ MapText(A) \in Seq(Signs) /\ MapText(M) \in Seq(Signs) /\ MapText(B) \in Seq(Signs)
           /\ MapText(A \o M) = MapText(A) \o MapText(M)
           /\ MapText((A \o M) \o B) \in Seq(Signs)
           /\ IsThree(MapText((A \o M) \o B), MapText(A), MapText(M), MapText(B))
<1>1. A \o M \in Seq(Cell) /\ (A \o M) \o B \in Seq(Cell)
  <2>1. A \o M \in Seq(Cell)
    BY ConcatProperties
  <2> QED BY <2>1, ConcatProperties
<1>2. /\ MapText(A) \in Seq(Signs) /\ MapText(M) \in Seq(Signs) /\ MapText(B) \in Seq(Signs)
      /\ MapText((A \o M) \o B) \in Seq(Signs)
  BY <1>1, MapIs DEF MapIsText
<1>3. MapText(A \o M) = MapText(A) \o MapText(M)
  BY MapConcat
<1>4. MapText((A \o M) \o B) = (MapText(A) \o MapText(M)) \o MapText(B)
  BY <1>1, <1>3, MapConcat
<1>5. IsThree((MapText(A) \o MapText(M)) \o MapText(B), MapText(A), MapText(M), MapText(B))
  BY <1>2, ThreeIs
<1> QED BY <1>1, <1>2, <1>3, <1>4, <1>5

(* The new text, and what it shows. *)
LEMMA WrittenIs ==
    ASSUME NEW new \in Seq(STRING)
    PROVE  /\ Written(new) \in Seq(Cell) /\ MapText(Written(new)) \in Seq(Signs)
           /\ new # <<>> => MapText(Written(new)) # <<>>
<1>1. PICK n \in Nat : n = Len(new)
  OBVIOUS
<1>2. PICK w : w = Written(new)
  OBVIOUS
<1>3. ASSUME NEW k \in 1..n
      PROVE  [is |-> new[k], wrap |-> "none"] \in Cell
  <2>1. new[k] \in STRING
    BY <1>1
  <2> QED BY <2>1 DEF Cell
<1>4. w \in Seq(Cell) /\ Len(w) = n
  <2>1. w \in [1..n -> Cell]
    BY <1>1, <1>2, <1>3 DEF Written
  <2> QED BY <2>1
<1>5. MapIsText(w)
  BY <1>4, MapIs
<1>6. ASSUME new # <<>> PROVE MapText(w) # <<>>
  <2>1. 1 \in 1..n
    <3>1. Len(new) # 0
      BY <1>6, LenIs
    <3> QED BY <1>1, <3>1
  <2>2. PICK p \in Seq(Seq(Signs)) :
          p = Pieces(w) /\ Len(p) = n /\ p[1] = Literal(w[1]) /\ MapText(w) = FlattenSeq(p)
    BY <1>4, <1>5, <2>1 DEF MapIsText
  <2>3. w[1] = [is |-> new[1], wrap |-> "none"]
    BY <1>1, <1>2, <2>1 DEF Written
  <2>4. w[1].wrap = "none"
    BY <2>3
  <2>5. Len(p[1]) >= 1
    BY <2>2, <2>4 DEF Literal
  <2>6. 1 \in 1..Len(p) /\ 1 \in 1..Len(p[1])
    <3>1. p[1] \in Seq(Signs)
      BY <2>1, <2>2
    <3> QED BY <2>1, <2>2, <2>5, <3>1
  <2>7. Len(Upto(p, 1 - 1)) + 1 \in 1..Len(FlattenSeq(p))
    BY <2>6, PieceIsAt
  <2>8. Len(MapText(w)) # 0
    BY <2>2, <2>7
  <2> QED BY <1>5, <2>8, LenIs DEF MapIsText
<1> QED BY <1>2, <1>4, <1>5, <1>6 DEF MapIsText

(* What a splice replaces: M, the cells i to j, by W. *)
IsSpliced(para, hit, new, i, j, A, M, B) ==
    /\ IsSplit(para, i, j, A, M, B)
    /\ Literal(para[i]) # <<>> /\ Literal(para[j]) # <<>>
    /\ \A k \in i..j : para[k].wrap # "link"
    /\ Spliced(para, hit, new) = (A \o Written(new)) \o B
    /\ hit.from = Len(MapText(A)) + 1 /\ hit.to = Len(MapText(A)) + Len(MapText(M))

(* A match that is not refused is cells of the paragraph, and nothing else  *)
(* is replaced.                                                             *)
LEMMA SplicedIs ==
    ASSUME NEW para \in Seq(Cell), NEW hit \in Spans, 1 <= hit.from, hit.from <= hit.to,
           hit.to <= Len(MapText(para)), ~Refused(para, hit), NEW new
    PROVE  \E i, j, A, M, B : IsSpliced(para, hit, new, i, j, A, M, B)
<1>1. PICK from \in Nat, to \in Nat, l \in Nat :
        from = hit.from /\ to = hit.to /\ l = Len(MapText(para))
  BY MapIs, LenIs DEF Spans, MapIsText
<1>2. from \in 1..l /\ to \in 1..l /\ from <= to
  BY <1>1
<1>3. PICK i, j : i = Owner(para, from) /\ j = Owner(para, to)
  OBVIOUS
<1>4. IsOwner(para, from, i) /\ IsOwner(para, to, j)
  BY <1>1, <1>2, <1>3, OwnerIs
<1>5. i \in 1..Len(para) /\ j \in 1..Len(para)
  BY <1>4 DEF IsOwner
<1>6. j \in 0..Len(para) /\ i - 1 \in 0..Len(para)
  BY <1>5
<1>7. Before(para, j) \in Nat /\ Before(para, i - 1) \in Nat
  BY <1>6, BeforeIs
<1>8. from <= Before(para, j)
  <2>1. to <= Before(para, j)
    BY <1>4 DEF IsOwner
  <2> QED BY <1>2, <1>7, <2>1
<1>9. i \in 1..j
  <2>1. i <= j
    BY <1>4, <1>5, <1>8 DEF IsOwner
  <2> QED BY <1>5, <2>1
<1>10. PICK A, M, B : IsSplit(para, i, j, A, M, B)
  BY <1>5, <1>9, SplitIs
<1>11. /\ \A k \in i..j : para[k].wrap # "link"
       /\ from = Before(para, i - 1) + 1 /\ to = Before(para, j)
  BY <1>1, <1>3 DEF Refused, Before
<1>12. Spliced(para, hit, new) = (A \o Written(new)) \o B
  BY <1>1, <1>3, <1>10 DEF Spliced, IsSplit
<1>13. to = Len(MapText(A)) + Len(MapText(M)) /\ from = Len(MapText(A)) + 1
  <2>1. A \in Seq(Cell) /\ M \in Seq(Cell) /\ SubSeq(para, 1, j) = A \o M
        /\ A = SubSeq(para, 1, i - 1)
    BY <1>10 DEF IsSplit
  <2>2. MapText(A \o M) = MapText(A) \o MapText(M)
    BY <2>1, MapConcat
  <2>3. MapText(A) \in Seq(Signs) /\ MapText(M) \in Seq(Signs)
    BY <2>1, MapIs DEF MapIsText
  <2>4. Len(MapText(A) \o MapText(M)) = Len(MapText(A)) + Len(MapText(M))
    BY <2>3, ConcatProperties
  <2> QED BY <1>11, <2>1, <2>2, <2>4 DEF Before
<1>14. IsSpliced(para, hit, new, i, j, A, M, B)
  BY <1>1, <1>4, <1>10, <1>11, <1>12, <1>13 DEF IsSpliced, IsOwner
<1> QED BY <1>14

SplitTexts(para, hit, new, next, A, M, B, N) ==
    /\ A \in Seq(Signs) /\ M \in Seq(Signs) /\ B \in Seq(Signs) /\ N = MapText(Written(new))
    /\ MapText(para) \in Seq(Signs) /\ next \in Seq(Cell) /\ MapText(next) \in Seq(Signs)
    /\ IsThree(MapText(para), A, M, B) /\ IsThree(MapText(next), A, N, B)
    /\ hit.from = Len(A) + 1 /\ hit.to = Len(A) + Len(M)

(* The texts, before and after. *)
LEMMA SplicedShows ==
    ASSUME NEW para \in Seq(Cell), NEW hit, NEW new \in Seq(STRING),
           NEW i, NEW j, NEW A, NEW M, NEW B, IsSpliced(para, hit, new, i, j, A, M, B),
           NEW next, next = Spliced(para, hit, new)
    PROVE  SplitTexts(para, hit, new, next, MapText(A), MapText(M), MapText(B),
                      MapText(Written(new)))
<1>1. IsSplit(para, i, j, A, M, B)
  BY DEF IsSpliced
<1>2. A \in Seq(Cell) /\ M \in Seq(Cell) /\ B \in Seq(Cell) /\ para = (A \o M) \o B
  BY <1>1 DEF IsSplit
<1>3. PICK W \in Seq(Cell) : W = Written(new)
  BY WrittenIs
<1>4. next = (A \o W) \o B
  BY <1>3 DEF IsSpliced
<1>5. /\ MapText(A) \in Seq(Signs) /\ MapText(M) \in Seq(Signs) /\ MapText(B) \in Seq(Signs)
      /\ MapText((A \o M) \o B) \in Seq(Signs)
      /\ IsThree(MapText((A \o M) \o B), MapText(A), MapText(M), MapText(B))
  BY <1>2, MapThree
<1>6. /\ (A \o W) \o B \in Seq(Cell) /\ MapText((A \o W) \o B) \in Seq(Signs)
      /\ IsThree(MapText((A \o W) \o B), MapText(A), MapText(W), MapText(B))
  BY <1>2, MapThree
<1>7. hit.from = Len(MapText(A)) + 1 /\ hit.to = Len(MapText(A)) + Len(MapText(M))
  BY DEF IsSpliced
<1> QED BY <1>2, <1>3, <1>4, <1>5, <1>6, <1>7 DEF SplitTexts
-----------------------------------------------------------------------------
(* One splice. *)

(* Word w is at match h. *)
IsWordAt(text, words, h, w) ==
    w \in 1..Len(words) /\ FitsAt(text, h.from, words[w]) /\ h.to = h.from + Len(words[w]) - 1

ShowsWord(text, words, h) ==
    /\ 1 <= h.from /\ h.from <= h.to /\ h.to <= Len(text)
    /\ \E w \in 1..Len(words) : IsWordAt(text, words, h, w)

(* Matches, one behind the other, that show a word, each. *)
Standing(text, words, hs) ==
    /\ hs \in Seq(Spans)
    /\ \A k \in 1..Len(hs) :
         ShowsWord(text, words, hs[k]) /\ \A j \in 1..(k - 1) : hs[j].to < hs[k].from

(* A scan is such. *)
LEMMA ScanStands ==
    ASSUME NEW text, NEW words, NEW ms, Scan(text, words, ms)
    PROVE  Standing(text, words, ms)
<1>1. ms \in Seq(Spans)
  BY DEF Scan
<1>2. ASSUME NEW k \in 1..Len(ms)
      PROVE  ShowsWord(text, words, ms[k]) /\ \A j \in 1..(k - 1) : ms[j].to < ms[k].from
  <2>1. PICK d \in Nat, h \in {ms[k]} : d = Done(ms, k) /\ h = ms[k]
    BY DoneIs
  <2>2. IsNext(text, words, d, h)
    BY <2>1 DEF Scan
  <2>3. PICK w \in 1..Len(words) :
          FirstThere(text, words, h.from, w) /\ h.to = h.from + Len(words[w]) - 1
    BY <2>2 DEF IsNext
  <2>4. IsWordAt(text, words, h, w)
    BY <2>3 DEF FirstThere, IsWordAt
  <2>5. h.from \in Nat /\ d < h.from /\ h.from <= h.to /\ h.to <= Len(text)
    BY <2>2 DEF IsNext, Spans
  <2>6. 1 <= h.from
    BY <2>5
  <2>7. \A j \in 1..(k - 1) : ms[j].to < ms[k].from
    BY ScanRises
  <2> QED BY <2>1, <2>4, <2>5, <2>6, <2>7 DEF ShowsWord
<1> QED BY <1>1, <1>2 DEF Standing

(* Cells i to j may be replaced. *)
MayGo(words, para, i, j) ==
    /\ i \in 1..j /\ j \in 1..Len(para)
    /\ Literal(para[i]) # <<>> /\ Literal(para[j]) # <<>>
    /\ \A k \in i..j : para[k].wrap # "link"
    /\ MapText(SubSeq(para, i, j)) \in ToSet(words)

(* One match, cells i to j, makes way for the new text. *)
OneMatchGoes(words, para, new, next) ==
    \E i, j \in DOMAIN para :
      /\ MayGo(words, para, i, j)
      /\ next = SubSeq(para, 1, i - 1) \o Written(new) \o SubSeq(para, j + 1, Len(para))

(* The last match is not refused and makes way for the new text. *)
LastGoes(para, words, new, hs, next, less) ==
    /\ para \in Seq(Cell) /\ words \in Words(Signs) /\ new \in Seq(STRING)
    /\ Standing(MapText(para), words, hs) /\ Len(hs) # 0
    /\ ~Refused(para, hs[Len(hs)]) /\ next = Spliced(para, hs[Len(hs)], new)
    /\ less = SubSeq(hs, 1, Len(hs) - 1)

(* A match that lies before what is replaced shows its word on. *)
LEMMA WordStays ==
    ASSUME NEW words \in Words(Signs), NEW para, NEW hit, NEW new \in Seq(STRING), NEW next,
           NEW A, NEW M, NEW B, NEW N, SplitTexts(para, hit, new, next, A, M, B, N),
           NEW h \in Spans, 1 <= h.from, h.to < hit.from,
           \E w \in 1..Len(words) : IsWordAt(MapText(para), words, h, w)
    PROVE  /\ h.to <= Len(MapText(next))
           /\ \E w \in 1..Len(words) : IsWordAt(MapText(next), words, h, w)
<1>1. PICK w \in 1..Len(words) : IsWordAt(MapText(para), words, h, w)
  OBVIOUS
<1>2. N \in Seq(Signs)
  BY WrittenIs DEF SplitTexts
<1>3. PICK a \in Nat, b \in Nat, n \in Nat : a = Len(A) /\ b = Len(B) /\ n = Len(N)
  BY <1>2, LenIs DEF SplitTexts
<1>4. PICK from \in Nat, to \in Nat : from = h.from /\ to = h.to
  BY DEF Spans
<1>5. hit.from = a + 1
  BY <1>3 DEF SplitTexts
<1>6. to <= a /\ from \in Nat \ {0}
  BY <1>4, <1>5
<1>7. Len(MapText(next)) = a + n + b
  BY <1>3 DEF SplitTexts, IsThree
<1>8. FitsAt(MapText(para), from, words[w]) /\ from + Len(words[w]) - 1 <= Len(A)
  BY <1>1, <1>3, <1>4, <1>6 DEF IsWordAt
<1>9. /\ A \in Seq(Signs) /\ M \in Seq(Signs) /\ B \in Seq(Signs) /\ words[w] \in Seq(Signs)
      /\ IsThree(MapText(para), A, M, B) /\ IsThree(MapText(next), A, N, B)
  BY DEF SplitTexts, Words
<1>10. FitsAt(MapText(next), from, words[w])
  BY <1>2, <1>6, <1>8, <1>9, FitsOn
<1>11. IsWordAt(MapText(next), words, h, w)
  BY <1>1, <1>4, <1>10 DEF IsWordAt
<1>12. to <= Len(MapText(next))
  BY <1>6, <1>7
<1> QED BY <1>4, <1>11, <1>12

(* What the pieces show at the match is a word. *)
LEMMA WordIs ==
    ASSUME NEW words \in Words(Signs), NEW text, NEW hit, NEW w, IsWordAt(text, words, hit, w),
           NEW A \in Seq(Signs), NEW M \in Seq(Signs), NEW B \in Seq(Signs),
           IsThree(text, A, M, B), hit.from = Len(A) + 1, hit.to = Len(A) + Len(M)
    PROVE  M \in ToSet(words)
<1>1. PICK a \in Nat, m \in Nat, l \in Nat : a = Len(A) /\ m = Len(M) /\ l = Len(words[w])
  BY LenIs DEF Words, IsWordAt
<1>2. words[w] \in Seq(Signs) /\ w \in 1..Len(words) /\ words \in Seq(Seq(Signs) \ {<<>>})
  BY DEF Words, IsWordAt
<1>3. l = m
  <2>1. hit.to = (a + 1) + l - 1 /\ hit.to = a + m
    BY <1>1 DEF IsWordAt
  <2> QED BY <2>1
<1>4. ASSUME NEW j \in 1..m PROVE words[w][j] = M[j]
  <2>1. j \in 1..Len(words[w]) /\ hit.from + j - 1 = a + j
    BY <1>1, <1>3
  <2>2. text[hit.from + j - 1] = words[w][j]
    BY <2>1 DEF IsWordAt, FitsAt
  <2>3. text[a + j] = M[j]
    BY <1>1 DEF IsThree
  <2> QED BY <2>1, <2>2, <2>3
<1>5. words[w] = M
  BY <1>1, <1>2, <1>3, <1>4, SeqEqual
<1>6. w \in DOMAIN words
  BY <1>2
<1> QED BY <1>5, <1>6 DEF ToSet

(* The step replaces a match, and those before it stand on. *)
LEMMA LastGoesIs ==
    ASSUME NEW para, NEW words, NEW new, NEW hs, NEW next, NEW less,
           LastGoes(para, words, new, hs, next, less)
    PROVE  /\ next \in Seq(Cell) /\ OneMatchGoes(words, para, new, next)
           /\ Standing(MapText(next), words, less) /\ Len(less) = Len(hs) - 1
<1>0. /\ para \in Seq(Cell) /\ words \in Words(Signs) /\ new \in Seq(STRING)
      /\ hs \in Seq(Spans)
  BY DEF LastGoes, Standing
<1>1. PICK m \in Nat : m = Len(hs) /\ m >= 1
  <2>1. Len(hs) \in Nat /\ Len(hs) # 0
    BY <1>0, LenIs DEF LastGoes
  <2> QED BY <2>1
<1>2. PICK hit : hit = hs[m]
  OBVIOUS
<1>3. /\ hit \in Spans /\ 1 <= hit.from /\ hit.from <= hit.to /\ hit.to <= Len(MapText(para))
      /\ \E w \in 1..Len(words) : IsWordAt(MapText(para), words, hit, w)
      /\ \A k \in 1..(m - 1) : hs[k].to < hit.from
  <2>1. m \in 1..Len(hs)
    BY <1>1
  <2> QED BY <1>0, <1>1, <1>2, <2>1 DEF LastGoes, Standing, ShowsWord
<1>4. ~Refused(para, hit) /\ next = Spliced(para, hit, new)
  BY <1>1, <1>2 DEF LastGoes
<1>5. PICK i, j, A, M, B : IsSpliced(para, hit, new, i, j, A, M, B)
  BY <1>0, <1>3, <1>4, SplicedIs
<1>6. SplitTexts(para, hit, new, next, MapText(A), MapText(M), MapText(B),
                 MapText(Written(new)))
  BY <1>0, <1>4, <1>5, SplicedShows
<1>7. next \in Seq(Cell)
  BY <1>6 DEF SplitTexts
<1>8. OneMatchGoes(words, para, new, next)
  <2>1. MapText(M) \in ToSet(words)
    <3>1. PICK w : IsWordAt(MapText(para), words, hit, w)
      BY <1>3
    <3>2. PICK t, a, p, b : t = MapText(para) /\ a = MapText(A) /\ p = MapText(M) /\ b = MapText(B)
      OBVIOUS
    <3>3. /\ a \in Seq(Signs) /\ p \in Seq(Signs) /\ b \in Seq(Signs)
          /\ IsThree(t, a, p, b) /\ hit.from = Len(a) + 1 /\ hit.to = Len(a) + Len(p)
      BY <1>6, <3>2 DEF SplitTexts
    <3>4. IsWordAt(t, words, hit, w)
      BY <3>1, <3>2
    <3> QED BY <1>0, <3>2, <3>3, <3>4, WordIs
  <2>2. IsSplit(para, i, j, A, M, B)
    BY <1>5 DEF IsSpliced
  <2>3. i \in 1..j /\ j \in 1..Len(para) /\ M = SubSeq(para, i, j)
    BY <2>2 DEF IsSplit
  <2>4. MayGo(words, para, i, j)
    BY <1>5, <2>1, <2>3 DEF MayGo, IsSpliced
  <2>5. next = SubSeq(para, 1, i - 1) \o Written(new) \o SubSeq(para, j + 1, Len(para))
    BY <1>4, <1>5, <2>2 DEF IsSpliced, IsSplit
  <2>6. i \in DOMAIN para /\ j \in DOMAIN para
    BY <1>0, <2>3
  <2> QED BY <2>4, <2>5, <2>6 DEF OneMatchGoes
<1>9. less \in Seq(Spans) /\ Len(less) = m - 1 /\ \A k \in 1..(m - 1) : less[k] = hs[k]
  <2>1. \A k \in 1..(m - 1) : hs[k] \in Spans
    BY <1>0, <1>1
  <2>2. m - 1 \in Int /\ 1 \in Int
    OBVIOUS
  <2>3. less = SubSeq(hs, 1, m - 1)
    BY <1>1 DEF LastGoes
  <2>4. /\ less \in Seq(Spans) /\ Len(less) = IF 1 <= m - 1 THEN m - 1 - 1 + 1 ELSE 0
        /\ \A k \in 1..(m - 1 - 1 + 1) : less[k] = hs[1 + k - 1]
    BY <2>1, <2>2, <2>3, SubSeqProperties
  <2> QED BY <1>1, <2>4
<1>10. ASSUME NEW k \in 1..(m - 1)
       PROVE  /\ ShowsWord(MapText(next), words, less[k])
              /\ \A l \in 1..(k - 1) : less[l].to < less[k].from
  <2>1. PICK h : h = hs[k] /\ h = less[k]
    BY <1>9
  <2>2. k \in 1..Len(hs)
    BY <1>1
  <2>3. /\ h \in Spans /\ ShowsWord(MapText(para), words, h)
        /\ \A l \in 1..(k - 1) : hs[l].to < h.from
    <3>1. PICK t : t = MapText(para) /\ Standing(t, words, hs)
      BY DEF LastGoes
    <3>2. ShowsWord(t, words, hs[k]) /\ \A l \in 1..(k - 1) : hs[l].to < hs[k].from
      BY <2>2, <3>1 DEF Standing
    <3>3. hs[k] \in Spans
      BY <1>0, <2>2
    <3> QED BY <2>1, <3>1, <3>2, <3>3
  <2>4. h.to < hit.from
    BY <1>3, <2>1
  <2>5. /\ h.to <= Len(MapText(next))
        /\ \E w \in 1..Len(words) : IsWordAt(MapText(next), words, h, w)
    BY <1>0, <1>6, <2>3, <2>4, WordStays DEF ShowsWord
  <2>6. ASSUME NEW l \in 1..(k - 1) PROVE less[l].to < h.from
    <3>1. l \in 1..(m - 1)
      OBVIOUS
    <3> QED BY <1>9, <2>3, <3>1
  <2> QED BY <2>1, <2>3, <2>5, <2>6 DEF ShowsWord
<1>11. Standing(MapText(next), words, less)
  BY <1>9, <1>10 DEF Standing
<1> QED BY <1>1, <1>7, <1>8, <1>9, <1>11

(* The words share nothing with what the new text shows, which is something. *)
IsInert(words, new) ==
    /\ new # <<>>
    /\ \A k \in DOMAIN words : ToSet(words[k]) \cap ToSet(MapText(Written(new))) = {}

(* Then those before it are all the matches that are left. *)
LEMMA LastGoesCompletes ==
    ASSUME NEW para, NEW words, NEW new, NEW hs, NEW next, NEW less,
           LastGoes(para, words, new, hs, next, less), IsInert(words, new),
           Complete(MapText(para), words, hs)
    PROVE  Complete(MapText(next), words, less)
<1>0. /\ para \in Seq(Cell) /\ words \in Words(Signs) /\ new \in Seq(STRING)
      /\ hs \in Seq(Spans)
  BY DEF LastGoes, Standing
<1>1. PICK m \in Nat \ {0} : m = Len(hs)
  BY <1>0, LenIs DEF LastGoes
<1>2. PICK hit : hit = hs[m]
  OBVIOUS
<1>3. /\ hit \in Spans /\ 1 <= hit.from /\ hit.from <= hit.to /\ hit.to <= Len(MapText(para))
  <2>1. m \in 1..Len(hs)
    BY <1>1
  <2> QED BY <1>0, <1>1, <1>2, <2>1 DEF LastGoes, Standing, ShowsWord
<1>4. ~Refused(para, hit) /\ next = Spliced(para, hit, new) /\ less = SubSeq(hs, 1, m - 1)
  BY <1>1, <1>2 DEF LastGoes
<1>5. PICK i, j, A, M, B : IsSpliced(para, hit, new, i, j, A, M, B)
  BY <1>0, <1>3, <1>4, SplicedIs
<1>6. SplitTexts(para, hit, new, next, MapText(A), MapText(M), MapText(B),
                 MapText(Written(new)))
  BY <1>0, <1>4, <1>5, SplicedShows
<1>7. PICK N \in Seq(Signs) : N = MapText(Written(new)) /\ N # <<>>
  BY <1>0, WrittenIs DEF IsInert
<1>8. ASSUME NEW w \in 1..Len(words) PROVE Apart(words[w], N)
  <2>1. words[w] \in Seq(Signs) /\ w \in DOMAIN words
    BY <1>0 DEF Words
  <2>2. ToSet(words[w]) \cap ToSet(N) = {}
    BY <1>7, <2>1 DEF IsInert
  <2>3. ASSUME NEW x \in 1..Len(words[w]), NEW y \in 1..Len(N) PROVE words[w][x] # N[y]
    <3>1. words[w][x] \in ToSet(words[w]) /\ N[y] \in ToSet(N)
      BY <1>7, <2>1 DEF ToSet
    <3> QED BY <2>2, <3>1
  <2> QED BY <2>3 DEF Apart
<1>9. PICK t, u, a, p, b : /\ t = MapText(para) /\ u = MapText(next) /\ a = MapText(A)
                           /\ p = MapText(M) /\ b = MapText(B)
  OBVIOUS
<1>10. Swapped(Signs, words, t, u, a, p, N, b) /\ hit.from = Len(a) + 1 /\ hit.to = Len(a) + Len(p)
  BY <1>0, <1>6, <1>7, <1>8, <1>9 DEF SplitTexts, Swapped
<1>11. Complete(t, words, hs)
  BY <1>9
<1>12. Complete(u, words, less)
  <2>1. LastBetween(hs, m, less, a, p)
    BY <1>1, <1>2, <1>4, <1>10 DEF LastBetween
  <2>2. Swapped(Signs, words, t, u, a, p, N, b)
    BY <1>10
  <2> QED BY <1>11, <2>1, <2>2, Rescan
<1> QED BY <1>9, <1>12
-----------------------------------------------------------------------------
(* The states. *)

(* A sequence over a set is one over any larger set. *)
LEMMA SeqGrows ==
    ASSUME NEW S, NEW T, S \subseteq T, NEW s \in Seq(S)
    PROVE  s \in Seq(T)
<1>1. Len(s) \in Nat /\ s \in [1..Len(s) -> S]
  OBVIOUS
<1>2. s \in [1..Len(s) -> T]
  BY <1>1
<1> QED BY <1>1, <1>2

(* The words of a pattern are words. *)
LEMMA WordsAre ==
    ASSUME NEW words \in Seq(Seq(STRING) \ {<<>>})
    PROVE  words \in Words(Signs)
<1>1. STRING \subseteq Signs
  BY DEF Signs
<1>2. ASSUME NEW w \in Seq(STRING) \ {<<>>} PROVE w \in Seq(Signs) \ {<<>>}
  BY <1>1, SeqGrows
<1>3. (Seq(STRING) \ {<<>>}) \subseteq (Seq(Signs) \ {<<>>})
  BY <1>2
<1> QED BY <1>3, SeqGrows DEF Words

(* Plain text is characters. *)
LEMMA PlainIs ==
    ASSUME NEW para \in Seq(Cell)
    PROVE  PlainText(para) \in Seq(Signs)
<1>1. ASSUME NEW k \in 1..Len(para) PROVE Character(para[k]) \in Seq(Signs)
  <2>1. PICK c \in Cell : c = para[k]
    OBVIOUS
  <2>2. c.is \in Signs /\ "\t" \in Signs
    BY DEF Cell, Signs
  <2>3. <<c.is>> \in Seq(Signs) /\ <<"\t">> \in Seq(Signs) /\ <<>> \in Seq(Signs)
    BY <2>2
  <2> QED BY <2>1, <2>3 DEF Character
<1>2. [k \in 1..Len(para) |-> Character(para[k])] \in Seq(Seq(Signs))
  BY <1>1
<1> QED BY <1>2, FlattenType DEF PlainText

(* The types of the variables, and where hits are of. *)
Typed ==
    /\ paras \in Seq(Seq(Cell)) /\ origin \in Seq(Seq(Cell)) /\ Len(origin) = Len(paras)
    /\ args.words \in Words(Signs) /\ args.new \in Seq(STRING)
    /\ cur \in 0..Len(paras) /\ reach \in 0..Len(paras)
    /\ hits \in Seq(Spans) /\ (hits # <<>> => cur # 0)
    /\ status \in {"idle", "running", "returned", "raised"}
    /\ total \in Nat /\ subs \in Nat /\ calls \in Nat

(* The matches that are left are matches still. *)
HitsStand ==
    status = "running" /\ hits # <<>> => Standing(MapText(paras[cur]), args.words, hits)

(* What a splice does. *)
SpliceIs ==
    /\ cur \in 1..Len(paras) /\ status = "running" /\ hits # <<>>
    /\ LastGoes(paras[cur], args.words, args.new, hits, paras'[cur], hits')
    /\ paras' \in Seq(Seq(Cell)) /\ Len(paras') = Len(paras)
    /\ \A p \in 1..Len(paras) : p # cur => paras'[p] = paras[p]
    /\ hits' \in Seq(Spans) /\ Len(hits') = Len(hits) - 1
    /\ Standing(MapText(paras'[cur]), args.words, hits')
    /\ OneMatchGoes(args.words, paras[cur], args.new, paras'[cur])
    /\ subs' = subs + 1
    /\ UNCHANGED <<origin, args, cur, total, status, calls, reach>>

(* It replaces one match of the paragraph at which the call is. *)
LEMMA SpliceStep ==
    ASSUME Typed, HitsStand, Splice
    PROVE  SpliceIs
<1>1. PICK para, hit, next, less :
        /\ para = paras[cur] /\ hit = hits[Len(hits)]
        /\ next = Spliced(para, hit, args.new) /\ less = SubSeq(hits, 1, Len(hits) - 1)
  OBVIOUS
<1>2. /\ status = "running" /\ hits # <<>> /\ ~Refused(para, hit)
      /\ paras' = [paras EXCEPT ![cur] = next] /\ hits' = less /\ subs' = subs + 1
      /\ UNCHANGED <<origin, args, cur, total, status, calls, reach>>
  BY <1>1 DEF Splice
<1>3. cur \in 1..Len(paras)
  <2>1. cur \in 0..Len(paras) /\ cur # 0
    BY <1>2 DEF Typed
  <2> QED BY <2>1
<1>4. /\ para \in Seq(Cell) /\ args.words \in Words(Signs) /\ args.new \in Seq(STRING)
      /\ hits \in Seq(Spans)
  BY <1>1, <1>3 DEF Typed
<1>5. Standing(MapText(para), args.words, hits)
  BY <1>1, <1>2 DEF HitsStand
<1>6. LastGoes(para, args.words, args.new, hits, next, less)
  <2>1. Len(hits) # 0
    BY <1>2, <1>4, LenIs
  <2> QED BY <1>1, <1>2, <1>4, <1>5, <2>1 DEF LastGoes
<1>7. /\ next \in Seq(Cell) /\ OneMatchGoes(args.words, para, args.new, next)
      /\ Standing(MapText(next), args.words, less) /\ Len(less) = Len(hits) - 1
  BY <1>6, LastGoesIs
<1>8. paras \in Seq(Seq(Cell))
  BY DEF Typed
<1>9. /\ paras' \in Seq(Seq(Cell)) /\ Len(paras') = Len(paras) /\ paras'[cur] = next
      /\ \A p \in 1..Len(paras) : p # cur => paras'[p] = paras[p]
  BY <1>2, <1>3, <1>7, <1>8
<1>10. less \in Seq(Spans)
  BY <1>7 DEF Standing
<1> QED BY <1>1, <1>2, <1>3, <1>6, <1>7, <1>9, <1>10 DEF SpliceIs

(* What a visit does. *)
VisitIs(para, plain, found) ==
    /\ status = "running" /\ hits = <<>> /\ cur + 1 \in 1..Len(paras) /\ cur' = cur + 1
    /\ para = paras[cur + 1] /\ para \in Seq(Cell)
    /\ plain = Matches(PlainText(para), args.words) /\ Len(plain) \in Nat
    /\ (plain = <<>> <=> Len(plain) = 0)
    /\ found = Matches(MapText(para), args.words) /\ Complete(MapText(para), args.words, found)
    /\ total' = total + Len(plain)
    /\ \/ plain = <<>> /\ hits' = <<>> /\ status' = "running"
       \/ /\ plain # <<>> /\ (Improper(args.new) \/ found = <<>>)
          /\ hits' = <<>> /\ status' = "raised"
       \/ /\ plain # <<>> /\ ~Improper(args.new) /\ found # <<>>
          /\ hits' = found /\ status' = "running"
    /\ UNCHANGED <<paras, origin, args, subs, calls, reach>>

(* It looks for the matches in both views. *)
LEMMA VisitStep ==
    ASSUME Typed, Visit
    PROVE  \E para, plain, found : VisitIs(para, plain, found)
<1>1. PICK para, plain, found :
        para = paras[cur + 1] /\ plain = PlainHits(para) /\ found = MapHits(para)
  OBVIOUS
<1>2. PICK words : words = args.words
  OBVIOUS
<1>3. cur + 1 \in 1..Len(paras) /\ words \in Words(Signs)
  <2>1. cur \in 0..Len(paras) /\ cur < Len(paras)
    BY DEF Typed, Visit
  <2>2. Len(paras) \in Nat
    BY LenIs DEF Typed
  <2> QED BY <1>2, <2>1, <2>2 DEF Typed
<1>4. para \in Seq(Cell)
  BY <1>1, <1>3 DEF Typed
<1>5. MapText(para) \in Seq(Signs) /\ PlainText(para) \in Seq(Signs)
  BY <1>4, MapIs, PlainIs DEF MapIsText
<1>6. plain = Matches(PlainText(para), words) /\ found = Matches(MapText(para), words)
  BY <1>1, <1>2 DEF PlainHits, MapHits
<1>7. Complete(MapText(para), words, found) /\ Complete(PlainText(para), words, plain)
  BY <1>3, <1>5, <1>6, MatchesAreComplete
<1>8. plain \in Seq(Spans)
  BY <1>7 DEF Complete, Scan
<1>9. Len(plain) \in Nat /\ (plain = <<>> <=> Len(plain) = 0)
  BY <1>8, LenIs
<1>10. /\ status = "running" /\ hits = <<>> /\ cur' = cur + 1 /\ total' = total + Len(plain)
       /\ UNCHANGED <<paras, origin, args, subs, calls, reach>>
  BY <1>1 DEF Visit
<1>11. \/ plain = <<>> /\ hits' = <<>> /\ status' = "running"
       \/ /\ plain # <<>> /\ (Improper(args.new) \/ found = <<>>)
          /\ hits' = <<>> /\ status' = "raised"
       \/ /\ plain # <<>> /\ ~Improper(args.new) /\ found # <<>>
          /\ hits' = found /\ status' = "running"
  BY <1>1 DEF Visit
<1>12. VisitIs(para, plain, found)
  BY <1>1, <1>2, <1>3, <1>4, <1>6, <1>7, <1>9, <1>10, <1>11 DEF VisitIs
<1> QED BY <1>12

(* What a new call does. *)
BeginIs ==
    /\ status # "running" /\ status' = "running" /\ cur' = 0 /\ hits' = <<>>
    /\ total' = 0 /\ subs' = 0 /\ calls' = calls + 1
    /\ reach' \in {reach, cur} /\ reach <= reach' /\ cur <= reach'
    /\ UNCHANGED <<paras, origin, args>>

(* It notes how far the calls before have come. *)
LEMMA BeginStep ==
    ASSUME Typed, Begin
    PROVE  BeginIs
<1>1. PICK n \in Nat : n = Len(paras)
  BY LenIs DEF Typed
<1>2. {reach, cur} \in SUBSET (0..n) /\ {reach, cur} # {}
  BY <1>1 DEF Typed
<1>3. Max({reach, cur}) \in {reach, cur} /\ \A y \in {reach, cur} : y <= Max({reach, cur})
  BY <1>2, MaxIs
<1> QED BY <1>3 DEF Begin, BeginIs

(* At first. *)
LEMMA InitTyped ==
    ASSUME Init
    PROVE  Typed /\ HitsStand
<1>1. paras \in Seq(Seq(Cell)) /\ origin = paras
  BY DocumentsAssumption DEF Init
<1>2. args.words \in Seq(Seq(STRING) \ {<<>>}) /\ args.new \in Seq(STRING)
  BY PatternsAssumption, ReplacementsAssumption DEF Init
<1>3. args.words \in Words(Signs)
  BY <1>2, WordsAre
<1>4. Len(paras) \in Nat
  BY <1>1, LenIs
<1>5. <<>> \in Seq(Spans)
  BY EmptySeq
<1> QED BY <1>1, <1>2, <1>3, <1>4, <1>5 DEF Init, Typed, HitsStand

(* And on. *)
LEMMA NextTyped ==
    ASSUME Typed, HitsStand, [Next]_vars
    PROVE  Typed' /\ HitsStand'
<1>1. CASE Begin
  <2>1. BeginIs
    BY <1>1, BeginStep
  <2>2. <<>> \in Seq(Spans)
    BY EmptySeq
  <2>3. Len(paras) \in Nat
    BY LenIs DEF Typed
  <2>4. 0 \in 0..Len(paras) /\ reach' \in 0..Len(paras)
    BY <2>1, <2>3 DEF BeginIs, Typed
  <2> QED BY <2>1, <2>2, <2>4 DEF BeginIs, Typed, HitsStand
<1>2. CASE Visit
  <2>1. PICK para, plain, found : VisitIs(para, plain, found)
    BY <1>2, VisitStep
  <2>2. <<>> \in Seq(Spans) /\ found \in Seq(Spans) /\ Standing(MapText(para), args.words, found)
    <3>1. Scan(MapText(para), args.words, found)
      BY <2>1 DEF VisitIs, Complete
    <3>2. found \in Seq(Spans)
      BY <3>1 DEF Scan
    <3> QED BY <3>1, <3>2, EmptySeq, ScanStands
  <2>3. cur + 1 \in 0..Len(paras) /\ cur + 1 # 0 /\ total + Len(plain) \in Nat
    BY <2>1 DEF VisitIs, Typed
  <2>4. Typed'
    BY <2>1, <2>2, <2>3 DEF VisitIs, Typed
  <2>5. HitsStand'
    BY <2>1, <2>2 DEF VisitIs, HitsStand
  <2> QED BY <2>4, <2>5
<1>3. CASE Splice
  <2>1. SpliceIs
    BY <1>3, SpliceStep
  <2>2. Typed'
    <3>1. cur # 0
      BY <2>1 DEF SpliceIs
    <3> QED BY <2>1, <3>1 DEF SpliceIs, Typed
  <2>3. HitsStand'
    BY <2>1 DEF SpliceIs, HitsStand
  <2> QED BY <2>2, <2>3
<1>4. CASE Refuse
  BY <1>4 DEF Refuse, Typed, HitsStand
<1>5. CASE Return
  BY <1>5 DEF Return, Typed, HitsStand
<1>6. CASE UNCHANGED vars
  BY <1>6 DEF vars, Typed, HitsStand
<1> QED BY <1>1, <1>2, <1>3, <1>4, <1>5, <1>6 DEF Next

(* Every step that changes a paragraph puts the new text in the place of a  *)
(* match.                                                                   *)
LEMMA StepSplices ==
    ASSUME Typed, HitsStand, [Next]_vars
    PROVE  SplicesAMatch
<1> SUFFICES ASSUME NEW p \in DOMAIN paras, paras'[p] # paras[p]
             PROVE  \E i, j \in DOMAIN paras[p] :
                      /\ Replaceable(paras[p], i, j)
                      /\ paras'[p] = SubSeq(paras[p], 1, i - 1) \o Written(args.new)
                                        \o SubSeq(paras[p], j + 1, Len(paras[p]))
  BY DEF SplicesAMatch
<1>1. CASE Splice
  <2>1. SpliceIs
    BY <1>1, SpliceStep
  <2>2. p = cur
    <3>1. p \in 1..Len(paras)
      BY DEF Typed
    <3> QED BY <2>1, <3>1 DEF SpliceIs
  <2>3. OneMatchGoes(args.words, paras[p], args.new, paras'[p])
    BY <2>1, <2>2 DEF SpliceIs
  <2> QED BY <2>3 DEF OneMatchGoes, MayGo, Replaceable
<1>2. CASE Begin \/ Visit \/ Refuse \/ Return \/ UNCHANGED vars
  BY <1>2 DEF Begin, Visit, Refuse, Return, vars
<1> QED BY <1>1, <1>2 DEF Next

(* Whatever the words of the pattern, the wrappers and the new text: a call *)
(* changes nothing but matches that the text map shows at that moment.      *)
THEOREM ACallChangesOnlyMatches == Spec => OnlyMatchesChange
<1>1. Init => Typed /\ HitsStand
  BY InitTyped
<1>2. Typed /\ HitsStand /\ [Next]_vars => (Typed /\ HitsStand)' /\ SplicesAMatch
  BY NextTyped, StepSplices
<1> QED BY <1>1, <1>2, PTL DEF Spec, OnlyMatchesChange

(* The matches that are left are all that there are. *)
HitsAreAll ==
    IsInert(args.words, args.new) /\ status = "running" /\ hits # <<>> =>
        Complete(MapText(paras[cur]), args.words, hits)

(* A complete scan that is empty says that there is no match. *)
LEMMA NoneIs ==
    ASSUME NEW para \in Seq(Cell), NEW words \in Words(Signs),
           Complete(MapText(para), words, <<>>)
    PROVE  Matches(MapText(para), words) = <<>>
<1>1. MapText(para) \in Seq(Signs)
  BY MapIs DEF MapIsText
<1> QED BY <1>1, CompleteIsMatches

(* A splice leaves all but the one. *)
LEMMA SpliceLeavesAll ==
    ASSUME HitsAreAll, SpliceIs, IsInert(args.words, args.new)
    PROVE  Complete(MapText(paras'[cur]), args.words, hits')
<1>1. /\ LastGoes(paras[cur], args.words, args.new, hits, paras'[cur], hits')
      /\ status = "running" /\ hits # <<>>
  BY DEF SpliceIs
<1>2. Complete(MapText(paras[cur]), args.words, hits)
  BY <1>1 DEF HitsAreAll
<1> QED BY <1>1, <1>2, LastGoesCompletes

(* That stays so. *)
LEMMA NextLeavesAll ==
    ASSUME Typed, HitsStand, HitsAreAll, [Next]_vars
    PROVE  HitsAreAll'
<1>1. CASE Begin
  BY <1>1 DEF Begin, HitsAreAll
<1>2. CASE Visit
  <2>1. PICK para, plain, found : VisitIs(para, plain, found)
    BY <1>2, VisitStep
  <2> QED BY <2>1 DEF VisitIs, HitsAreAll
<1>3. CASE Splice
  <2>1. SpliceIs
    BY <1>3, SpliceStep
  <2>2. IsInert(args.words, args.new) => Complete(MapText(paras'[cur]), args.words, hits')
    BY <2>1, SpliceLeavesAll
  <2> QED BY <2>1, <2>2 DEF SpliceIs, HitsAreAll
<1>4. CASE Refuse
  BY <1>4 DEF Refuse, HitsAreAll
<1>5. CASE Return
  BY <1>5 DEF Return, HitsAreAll
<1>6. CASE UNCHANGED vars
  BY <1>6 DEF vars, HitsAreAll
<1> QED BY <1>1, <1>2, <1>3, <1>4, <1>5, <1>6 DEF Next

(* Nothing matches in one of the views. *)
Clean(words, para) ==
    Matches(PlainText(para), words) = <<>> \/ Matches(MapText(para), words) = <<>>

(* The call is at work on paragraph p. *)
AtWork(p) == p = cur /\ status = "running" /\ hits # <<>>

(* The paragraphs behind the call match no more. *)
Finished ==
    /\ IsInert(args.words, args.new) /\ status \in {"running", "returned"} =>
         \A p \in 1..cur : AtWork(p) \/ Clean(args.words, paras[p])
    /\ status = "returned" => cur = Len(paras) /\ hits = <<>>

(* So it is after every step. *)
LEMMA NextFinishes ==
    ASSUME Typed, HitsStand, HitsAreAll, Finished, [Next]_vars
    PROVE  Finished'
<1>0. cur \in 0..Len(paras) /\ Len(paras) \in Nat
  BY LenIs DEF Typed
<1>1. CASE Begin
  <2>1. BeginIs
    BY <1>1, BeginStep
  <2>2. ~\E p : p \in 1..0
    OBVIOUS
  <2> QED BY <2>1, <2>2 DEF BeginIs, Finished
<1>2. CASE Visit
  <2>1. PICK para, plain, found : VisitIs(para, plain, found)
    BY <1>2, VisitStep
  <2>2. /\ cur' = cur + 1 /\ paras' = paras /\ args' = args /\ status = "running"
        /\ hits = <<>> /\ para = paras[cur + 1]
    BY <2>1 DEF VisitIs
  <2>3. status' # "returned"
    BY <2>1 DEF VisitIs
  <2>4. ASSUME IsInert(args.words, args.new), status' = "running", NEW p \in 1..(cur + 1)
        PROVE  AtWork(p)' \/ Clean(args.words, paras[p])
    <3>1. CASE p \in 1..cur
      <4>1. ~AtWork(p)
        BY <2>2 DEF AtWork
      <4> QED BY <2>2, <2>4, <3>1, <4>1 DEF Finished
    <3>2. CASE p = cur + 1
      <4>1. plain = <<>> \/ hits' # <<>>
        BY <2>1, <2>4 DEF VisitIs
      <4>2. CASE plain = <<>>
        BY <2>1, <2>2, <3>2, <4>2 DEF VisitIs, Clean
      <4>3. CASE hits' # <<>>
        BY <2>2, <2>4, <3>2, <4>3 DEF AtWork
      <4> QED BY <4>1, <4>2, <4>3
    <3> QED BY <1>0, <3>1, <3>2
  <2> QED BY <2>2, <2>3, <2>4 DEF Finished
<1>3. CASE Splice
  <2>1. SpliceIs
    BY <1>3, SpliceStep
  <2>2. /\ cur' = cur /\ args' = args /\ status' = "running" /\ status = "running"
        /\ cur \in 1..Len(paras) /\ hits # <<>>
    BY <2>1 DEF SpliceIs
  <2>3. ASSUME IsInert(args.words, args.new), NEW p \in 1..cur
        PROVE  AtWork(p)' \/ Clean(args.words, paras'[p])
    <3>1. CASE p # cur
      <4>1. p \in 1..Len(paras) /\ ~AtWork(p)
        BY <1>0, <3>1 DEF AtWork
      <4>2. paras'[p] = paras[p]
        BY <2>1, <3>1, <4>1 DEF SpliceIs
      <4> QED BY <2>2, <2>3, <4>1, <4>2 DEF Finished
    <3>2. CASE p = cur /\ hits' # <<>>
      BY <2>2, <3>2 DEF AtWork
    <3>3. CASE p = cur /\ hits' = <<>>
      <4>1. Complete(MapText(paras'[cur]), args.words, <<>>)
        BY <2>1, <2>3, <3>3, SpliceLeavesAll
      <4>2. paras'[cur] \in Seq(Cell) /\ args.words \in Words(Signs)
        BY <2>1, <2>2 DEF SpliceIs, Typed
      <4>3. Matches(MapText(paras'[cur]), args.words) = <<>>
        BY <4>1, <4>2, NoneIs
      <4> QED BY <3>3, <4>3 DEF Clean
    <3> QED BY <3>1, <3>2, <3>3
  <2> QED BY <2>2, <2>3 DEF Finished
<1>4. CASE Refuse
  BY <1>4 DEF Refuse, Finished
<1>5. CASE Return
  <2>1. /\ hits = <<>> /\ cur = Len(paras) /\ status = "running"
        /\ UNCHANGED <<paras, args, cur, hits>>
    BY <1>5 DEF Return
  <2> QED BY <2>1 DEF Finished, AtWork
<1>6. CASE UNCHANGED vars
  BY <1>6 DEF vars, Finished, AtWork
<1> QED BY <1>1, <1>2, <1>3, <1>4, <1>5, <1>6 DEF Next

(* Inert is about the arguments. *)
LEMMA InertIs == Inert <=> IsInert(args.words, args.new)
BY DEF Inert, IsInert

(* A call that returns has left no match that both views show, if the words *)
(* share no character with what the new text shows, and this is something.  *)
THEOREM ACallLeavesNothing == Spec => []NothingLeft
<1> DEFINE I == Typed /\ HitsStand /\ HitsAreAll /\ Finished
<1>1. Init => I
  BY InitTyped DEF Init, HitsAreAll, Finished
<1>2. I /\ [Next]_vars => I'
  BY NextTyped, NextLeavesAll, NextFinishes
<1>3. I => NothingLeft
  <2> SUFFICES ASSUME I, status = "returned", Inert, NEW p \in DOMAIN paras
               PROVE  PlainHits(paras[p]) = <<>> \/ MapHits(paras[p]) = <<>>
    BY DEF NothingLeft
  <2>1. p \in 1..cur /\ ~AtWork(p)
    BY DEF Typed, Finished, AtWork
  <2>2. Clean(args.words, paras[p])
    BY <2>1, InertIs DEF Finished
  <2> QED BY <2>2 DEF Clean, PlainHits, MapHits
<1> QED BY <1>1, <1>2, <1>3, PTL DEF Spec
-----------------------------------------------------------------------------
(* The second try. *)

(* A call that comes to the paragraph does not change it. *)
AtRest(words, new, para) ==
    \/ Clean(words, para)
    \/ Improper(new)
    \/ LET ms == Matches(MapText(para), words) IN Refused(para, ms[Len(ms)])

(* The call is at work on a paragraph for the first time. *)
First(p) == AtWork(p) /\ reach < p

(* All paragraphs that a call came to are at rest, but for the one that is  *)
(* worked on, and there is none if a call came to it before.                *)
Rest ==
    IsInert(args.words, args.new) =>
        /\ \A p \in 1..Len(paras) :
             p <= reach \/ p <= cur => First(p) \/ AtRest(args.words, args.new, paras[p])
        /\ AtWork(cur) /\ cur <= reach => Refused(paras[cur], hits[Len(hits)])

(* So no paragraph changes that a call came to before. *)
LEMMA RestStops ==
    ASSUME Typed, HitsStand, Rest, [Next]_vars
    PROVE  SecondTry
<1>0. cur \in Nat /\ reach \in 0..Len(paras) /\ Len(paras) \in Nat
  BY LenIs DEF Typed
<1> SUFFICES ASSUME Inert, NEW p \in 1..reach, paras'[p] # paras[p] PROVE FALSE
  BY DEF SecondTry
<1>1. CASE Splice
  <2>1. SpliceIs
    BY <1>1, SpliceStep
  <2>2. p = cur
    BY <1>0, <2>1 DEF SpliceIs
  <2>3. AtWork(cur) /\ cur <= reach
    BY <1>0, <2>1, <2>2 DEF SpliceIs, AtWork
  <2>4. Refused(paras[cur], hits[Len(hits)])
    BY <2>3, InertIs DEF Rest
  <2> QED BY <1>1, <2>4 DEF Splice
<1>2. CASE Begin \/ Visit \/ Refuse \/ Return \/ UNCHANGED vars
  BY <1>2 DEF Begin, Visit, Refuse, Return, vars
<1> QED BY <1>1, <1>2 DEF Next

(* Every step leaves them so. *)
LEMMA NextRests ==
    ASSUME Typed, HitsStand, HitsAreAll, Rest, [Next]_vars
    PROVE  Rest'
<1>0. /\ cur \in 0..Len(paras) /\ reach \in 0..Len(paras) /\ Len(paras) \in Nat
      /\ paras \in Seq(Seq(Cell))
  BY LenIs DEF Typed
<1>1. CASE Begin
  <2>1. BeginIs
    BY <1>1, BeginStep
  <2>2. ASSUME IsInert(args.words, args.new), NEW p \in 1..Len(paras),
               p <= reach' \/ p <= 0
        PROVE  AtRest(args.words, args.new, paras[p])
    <3>1. p <= reach \/ p <= cur
      BY <1>0, <2>1, <2>2 DEF BeginIs
    <3>2. ~First(p)
      BY <2>1 DEF BeginIs, First, AtWork
    <3> QED BY <2>2, <3>1, <3>2 DEF Rest
  <2> QED BY <2>1, <2>2 DEF BeginIs, Rest, AtWork
<1>2. CASE Visit
  <2>1. PICK para, plain, found : VisitIs(para, plain, found)
    BY <1>2, VisitStep
  <2>2. /\ cur' = cur + 1 /\ paras' = paras /\ args' = args /\ reach' = reach
        /\ hits = <<>> /\ para = paras[cur + 1] /\ cur + 1 \in 1..Len(paras)
        /\ plain = Matches(PlainText(para), args.words)
        /\ found = Matches(MapText(para), args.words)
    BY <2>1 DEF VisitIs
  <2>3. \/ plain = <<>> /\ hits' = <<>>
        \/ plain # <<>> /\ (Improper(args.new) \/ found = <<>>) /\ hits' = <<>>
        \/ /\ plain # <<>> /\ ~Improper(args.new) /\ found # <<>>
           /\ hits' = found /\ status' = "running"
    BY <2>1 DEF VisitIs
  <2>4. \A p \in 1..Len(paras) : ~AtWork(p) /\ ~First(p)
    BY <2>2 DEF AtWork, First
  <2>5. ASSUME IsInert(args.words, args.new), NEW p \in 1..Len(paras),
               p <= reach \/ p <= cur + 1
        PROVE  First(p)' \/ AtRest(args.words, args.new, paras[p])
    <3>1. CASE p <= reach \/ p <= cur
      BY <2>4, <2>5, <3>1 DEF Rest
    <3>2. CASE ~(p <= reach) /\ p = cur + 1
      <4>1. CASE hits' = <<>>
        BY <2>2, <2>3, <3>2, <4>1 DEF AtRest, Clean
      <4>2. CASE hits' # <<>>
        BY <1>0, <2>2, <2>3, <3>2, <4>2 DEF First, AtWork
      <4> QED BY <4>1, <4>2
    <3> QED BY <1>0, <2>5, <3>1, <3>2
  <2>6. ASSUME IsInert(args.words, args.new), AtWork(cur)', cur + 1 <= reach
        PROVE  Refused(para, hits'[Len(hits')])
    <3>1. hits' # <<>>
      BY <2>6 DEF AtWork
    <3>2. plain # <<>> /\ ~Improper(args.new) /\ found # <<>> /\ hits' = found
      BY <2>3, <3>1
    <3>3. AtRest(args.words, args.new, para)
      BY <2>2, <2>4, <2>6 DEF Rest
    <3> QED BY <2>2, <3>2, <3>3 DEF AtRest, Clean
  <2> QED BY <2>2, <2>5, <2>6 DEF Rest
<1>3. CASE Splice
  <2>1. SpliceIs
    BY <1>3, SpliceStep
  <2>2. /\ cur' = cur /\ args' = args /\ reach' = reach /\ status' = "running"
        /\ status = "running" /\ cur \in 1..Len(paras) /\ hits # <<>>
        /\ Len(paras') = Len(paras)
    BY <2>1 DEF SpliceIs
  <2>3. AtWork(cur)
    BY <2>2 DEF AtWork
  <2>4. ASSUME IsInert(args.words, args.new) PROVE reach < cur
    <3>1. ~(cur <= reach)
      BY <1>3, <2>3, <2>4 DEF Rest, Splice
    <3> QED BY <1>0, <3>1
  <2>5. ASSUME IsInert(args.words, args.new), NEW p \in 1..Len(paras),
               p <= reach \/ p <= cur
        PROVE  First(p)' \/ AtRest(args.words, args.new, paras'[p])
    <3>1. CASE p # cur
      <4>1. paras'[p] = paras[p] /\ ~First(p)
        BY <2>1, <3>1 DEF SpliceIs, First, AtWork
      <4> QED BY <2>5, <4>1 DEF Rest
    <3>2. CASE p = cur /\ hits' # <<>>
      BY <2>2, <2>4, <2>5, <3>2 DEF First, AtWork
    <3>3. CASE p = cur /\ hits' = <<>>
      <4>1. Complete(MapText(paras'[cur]), args.words, <<>>)
        BY <2>1, <2>5, <3>3, SpliceLeavesAll
      <4>2. paras'[cur] \in Seq(Cell) /\ args.words \in Words(Signs)
        BY <2>1, <2>2 DEF SpliceIs, Typed
      <4>3. Matches(MapText(paras'[cur]), args.words) = <<>>
        BY <4>1, <4>2, NoneIs
      <4> QED BY <3>3, <4>3 DEF AtRest, Clean
    <3> QED BY <3>1, <3>2, <3>3
  <2>6. ASSUME IsInert(args.words, args.new) PROVE ~(cur <= reach)
    BY <1>0, <2>4, <2>6
  <2> QED BY <2>2, <2>5, <2>6 DEF Rest
<1>4. CASE Refuse
  <2>1. /\ status = "running" /\ hits # <<>> /\ Refused(paras[cur], hits[Len(hits)])
        /\ status' = "raised" /\ UNCHANGED <<paras, args, cur, hits, reach>>
    BY <1>4 DEF Refuse
  <2>2. AtWork(cur) /\ ~AtWork(cur)'
    BY <2>1 DEF AtWork
  <2>3. ASSUME IsInert(args.words, args.new), NEW p \in 1..Len(paras),
               p <= reach \/ p <= cur
        PROVE  AtRest(args.words, args.new, paras[p])
    <3>1. CASE p # cur
      <4>1. ~First(p)
        BY <3>1 DEF First, AtWork
      <4> QED BY <2>3, <4>1 DEF Rest
    <3>2. CASE p = cur
      <4>1. Complete(MapText(paras[cur]), args.words, hits)
        BY <2>1, <2>3 DEF HitsAreAll
      <4>2. paras[cur] \in Seq(Cell) /\ args.words \in Words(Signs)
        BY <1>0, <3>2 DEF Typed
      <4>3. MapText(paras[cur]) \in Seq(Signs)
        BY <4>2, MapIs DEF MapIsText
      <4>4. Matches(MapText(paras[cur]), args.words) = hits
        BY <4>1, <4>2, <4>3, CompleteIsMatches
      <4> QED BY <2>1, <3>2, <4>4 DEF AtRest
    <3> QED BY <3>1, <3>2
  <2> QED BY <2>1, <2>2, <2>3 DEF Rest
<1>5. CASE Return
  <2>1. /\ hits = <<>> /\ UNCHANGED <<paras, args, cur, hits, reach>>
    BY <1>5 DEF Return
  <2> QED BY <2>1 DEF Rest, First, AtWork
<1>6. CASE UNCHANGED vars
  BY <1>6 DEF vars, Rest, First, AtWork
<1> QED BY <1>1, <1>2, <1>3, <1>4, <1>5, <1>6 DEF Next

(* The same call again, after one that returned or raised, changes none of  *)
(* the paragraphs that it came to.                                          *)
THEOREM ARetryChangesNothing == Spec => RetryChangesNothing
<1> DEFINE I == Typed /\ HitsStand /\ HitsAreAll /\ Rest
<1>1. Init => I
  <2> SUFFICES ASSUME Init PROVE I
    OBVIOUS
  <2>1. ~\E p \in 1..Len(paras) : p <= reach \/ p <= cur
    BY DEF Init
  <2> QED BY <2>1, InitTyped DEF Init, HitsAreAll, Rest, AtWork
<1>2. I /\ [Next]_vars => I'
  BY NextTyped, NextLeavesAll, NextRests
<1>3. I /\ [Next]_vars => SecondTry
  BY RestStops
<1> QED BY <1>1, <1>2, <1>3, PTL DEF Spec, RetryChangesNothing
-----------------------------------------------------------------------------
(* The number that a call returns. *)

(* Before the first call, and in the first call: what is behind it is as it *)
(* was, and it has replaced what it counted but for what is left.           *)
Counted ==
    /\ calls = 0 => paras = origin /\ status = "idle"
    /\ calls = 1 /\ SameWhereItMatches(origin) /\ status \in {"running", "returned"} =>
         /\ \A p \in (cur + 1)..Len(paras) : paras[p] = origin[p]
         /\ total = subs + Len(hits)
    /\ status = "returned" => hits = <<>>

(* Every step keeps count. *)
LEMMA NextCounts ==
    ASSUME Typed, HitsStand, Counted, [Next]_vars
    PROVE  Counted'
<1>0. /\ cur \in 0..Len(paras) /\ Len(paras) \in Nat /\ calls \in Nat /\ total \in Nat
      /\ subs \in Nat /\ Len(hits) \in Nat /\ Len(origin) = Len(paras)
      /\ origin \in Seq(Seq(Cell))
  BY LenIs DEF Typed
<1>1. CASE Begin
  <2>1. BeginIs
    BY <1>1, BeginStep
  <2>2. calls' # 0 /\ (calls' = 1 => calls = 0) /\ status' = "running"
    BY <1>0, <2>1 DEF BeginIs
  <2>3. total' = subs' + Len(hits')
    BY <2>1, EmptySeq DEF BeginIs
  <2>4. calls = 0 => paras' = origin'
    BY <2>1 DEF BeginIs, Counted
  <2> QED BY <2>2, <2>3, <2>4 DEF Counted
<1>2. CASE Visit
  <2>1. PICK para, plain, found : VisitIs(para, plain, found)
    BY <1>2, VisitStep
  <2>2. /\ cur' = cur + 1 /\ paras' = paras /\ args' = args /\ origin' = origin
        /\ calls' = calls /\ subs' = subs /\ total' = total + Len(plain)
        /\ hits = <<>> /\ para = paras[cur + 1] /\ cur + 1 \in 1..Len(paras)
        /\ plain = Matches(PlainText(para), args.words)
        /\ found = Matches(MapText(para), args.words)
        /\ Len(plain) \in Nat /\ status = "running" /\ status' \in {"running", "raised"}
        /\ (plain = <<>> <=> Len(plain) = 0)
        /\ (status' = "running" => \/ plain = <<>> /\ hits' = <<>>
                                   \/ plain # <<>> /\ hits' = found)
    BY <2>1 DEF VisitIs
  <2>3. SameWhereItMatches(origin)' <=> SameWhereItMatches(origin)
    BY <2>2 DEF SameWhereItMatches, PlainHits
  <2>4. ASSUME calls = 1, SameWhereItMatches(origin), status' = "running"
        PROVE  /\ \A p \in (cur + 2)..Len(paras) : paras[p] = origin[p]
               /\ total' = subs' + Len(hits')
    <3>1. /\ \A p \in (cur + 1)..Len(paras) : paras[p] = origin[p]
          /\ total = subs + Len(hits)
      BY <2>2, <2>4 DEF Counted
    <3>2. Len(hits) = 0 /\ total = subs
      BY <1>0, <2>2, <3>1, EmptySeq
    <3>3. para = origin[cur + 1] /\ cur + 1 \in DOMAIN origin
      BY <1>0, <2>2, <3>1
    <3>4. plain = <<>> \/ plain = found
      BY <2>2, <2>4, <3>3 DEF SameWhereItMatches, PlainHits
    <3>5. Len(hits') = Len(plain)
      BY <2>2, <2>4, <3>4
    <3>6. total' = subs' + Len(hits')
      BY <1>0, <2>2, <3>2, <3>5
    <3>7. \A p \in (cur + 2)..Len(paras) : p \in (cur + 1)..Len(paras)
      BY <1>0
    <3> QED BY <3>1, <3>6, <3>7
  <2>5. (cur + 1) + 1 = cur + 2 /\ calls # 0
    BY <1>0, <2>2 DEF Counted
  <2> QED BY <2>2, <2>3, <2>4, <2>5 DEF Counted
<1>3. CASE Splice
  <2>1. SpliceIs
    BY <1>3, SpliceStep
  <2>2. /\ cur' = cur /\ args' = args /\ origin' = origin /\ calls' = calls
        /\ status = "running" /\ status' = "running" /\ total' = total /\ subs' = subs + 1
        /\ Len(hits') = Len(hits) - 1 /\ Len(paras') = Len(paras)
    BY <2>1 DEF SpliceIs
  <2>3. SameWhereItMatches(origin)' <=> SameWhereItMatches(origin)
    BY <2>2 DEF SameWhereItMatches, PlainHits
  <2>4. ASSUME calls = 1, SameWhereItMatches(origin)
        PROVE  /\ \A p \in (cur + 1)..Len(paras) : paras'[p] = origin[p]
               /\ total' = subs' + Len(hits')
    <3>1. /\ \A p \in (cur + 1)..Len(paras) : paras[p] = origin[p]
          /\ total = subs + Len(hits)
      BY <2>2, <2>4 DEF Counted
    <3>2. ASSUME NEW p \in (cur + 1)..Len(paras) PROVE paras'[p] = origin[p]
      <4>1. p \in 1..Len(paras) /\ p # cur
        BY <1>0
      <4> QED BY <2>1, <3>1, <4>1 DEF SpliceIs
    <3>3. total' = subs' + Len(hits')
      BY <1>0, <2>2, <3>1
    <3> QED BY <3>2, <3>3
  <2>5. calls # 0
    BY <2>2 DEF Counted
  <2> QED BY <2>2, <2>3, <2>4, <2>5 DEF Counted
<1>4. CASE Refuse
  BY <1>4 DEF Refuse, Counted
<1>5. CASE Return
  <2>1. /\ status = "running" /\ status' = "returned" /\ hits = <<>>
        /\ UNCHANGED <<paras, origin, args, cur, hits, total, subs, calls, reach>>
    BY <1>5 DEF Return
  <2>2. SameWhereItMatches(origin)' <=> SameWhereItMatches(origin)
    BY <2>1 DEF SameWhereItMatches, PlainHits
  <2> QED BY <2>1, <2>2 DEF Counted
<1>6. CASE UNCHANGED vars
  <2>1. SameWhereItMatches(origin)' <=> SameWhereItMatches(origin)
    BY <1>6 DEF vars, SameWhereItMatches, PlainHits
  <2> QED BY <1>6, <2>1 DEF vars, Counted
<1> QED BY <1>1, <1>2, <1>3, <1>4, <1>5, <1>6 DEF Next

(* The first call returns the number of its replacements, if wherever the   *)
(* plain text matches it is the text of the map.                            *)
THEOREM TheCountIsExplained == Spec => []CountExplained
<1> DEFINE I == Typed /\ HitsStand /\ Counted
<1>1. Init => I
  BY InitTyped DEF Init, Counted
<1>2. I /\ [Next]_vars => I'
  BY NextTyped, NextCounts
<1>3. I => CountExplained
  <2> SUFFICES ASSUME I, status = "returned", calls = 1, SameWhereItMatches(origin)
               PROVE  total = subs
    BY DEF CountExplained
  <2>1. total = subs + Len(hits) /\ hits = <<>> /\ subs \in Nat
    BY DEF Counted, Typed
  <2> QED BY <2>1, EmptySeq
<1> QED BY <1>1, <1>2, <1>3, PTL DEF Spec
=============================================================================
