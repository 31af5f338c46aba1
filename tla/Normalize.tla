------------------------------- MODULE Normalize -------------------------------
(***************************************************************************)
(* normalize of content.py: Chinese punctuation and Chinese/Latin spacing, *)
(* in two passes, around URLs, e-mail addresses and code spans.            *)
(*                                                                         *)
(* Abstractions.  A character is its class: a Chinese one, a Latin letter  *)
(* or digit (the two are always asked for together), a half-width mark     *)
(* that has a full-width form, the full stop, a space, a newline, a        *)
(* backtick, "@", and the scheme "https://", which is one character here.  *)
(* "wide" and "stop" are the full-width marks.                             *)
(***************************************************************************)
EXTENDS Integers, Sequences, FiniteSets

CONSTANTS
    Texts       \* the texts a caller may pass

Char == {"cjk", "latin", "mark", "dot", "space", "nl", "tick", "at", "url",
         "wide", "stop"}

ASSUME TextsAssumption == Texts \subseteq Seq(Char)

VARIABLES
    given,      \* the text of the call
    text,       \* the text as it is now
    phase       \* "called", "converted" or "returned"

vars == <<given, text, phase>>

Blank(c) == c \in {"space", "nl"}

(* The character at i, or none. *)
At(t, i) == IF i \in DOMAIN t THEN t[i] ELSE "none"
-----------------------------------------------------------------------------
(* _find_protected_ranges, as the set of positions in the ranges *)

(* i and j are in the same word: \S+ reaches from the one to the other. *)
SameWord(t, i, j) == \A k \in i..j : ~Blank(t[k])

(* https?://\S+ takes the word from the scheme on, if anything follows it. *)
InUrl(t, i) ==
    \E u \in 1..i : /\ t[u] = "url" /\ SameWord(t, u, i)
                    /\ IF u = i THEN i < Len(t) /\ ~Blank(t[i + 1]) ELSE TRUE

(* \S+@\S+\.\S+ takes the whole word. *)
InEmail(t, i) ==
    \E a, d \in 2..(Len(t) - 1) :
        /\ t[a] = "at" /\ t[d] = "dot" /\ a + 1 < d
        /\ SameWord(t, a - 1, d + 1)
        /\ SameWord(t, i, a) /\ SameWord(t, a, i)

(* Backticks pair up from left to right within a line. *)
TicksBefore(t, i) ==
    {k \in 1..(i - 1) : t[k] = "tick" /\ \A l \in k..i : t[l] # "nl"}
TickFrom(t, i) ==
    \E k \in i..Len(t) : t[k] = "tick" /\ \A l \in i..k : t[l] # "nl"

InCode(t, i) ==
    \/ Cardinality(TicksBefore(t, i)) % 2 = 1 /\ TickFrom(t, i)
    \/ Cardinality(TicksBefore(t, i)) % 2 = 0 /\ t[i] = "tick" /\ TickFrom(t, i + 1)

Protected(t) == {i \in DOMAIN t : InUrl(t, i) \/ InEmail(t, i) \/ InCode(t, i)}

(* The rest: the prose. *)
Prose(t) == DOMAIN t \ Protected(t)
-----------------------------------------------------------------------------
(* A full stop between Chinese, or at the end of it. *)
EndsSentence(t, i) == At(t, i - 1) = "cjk" /\ At(t, i + 1) \in {"cjk", "none"}

ByChinese(t, i) == At(t, i - 1) = "cjk" \/ At(t, i + 1) = "cjk"

(* _convert_punct looks at the neighbours in the text it was given. *)
ConvertPunct(t) ==
    LET free == Prose(t)
    IN  [i \in DOMAIN t |->
        CASE i \in free /\ t[i] = "dot" /\ EndsSentence(t, i) -> "stop"
          [] i \in free /\ t[i] = "mark" /\ ByChinese(t, i) -> "wide"
          [] OTHER -> t[i]]
-----------------------------------------------------------------------------
SlipOneDirection(left, right) == left = "cjk" /\ right \in {"latin", "url"}

(* A scheme that no address follows begins with a letter. *)
NeedsSpace(left, right) ==
    \/ left = "cjk" /\ right \in {"latin", "url"}
    \/ left = "latin" /\ right = "cjk"

Gap(n) == [k \in 1..n |-> "space"]

(* Where the scan stops that begins after i: at the end, or at the first   *)
(* character that is no free space.                                        *)
GapEnd(t, free, i) ==
    CHOOSE j \in (i + 1)..(Len(t) + 1) :
        /\ \A k \in (i + 1)..(j - 1) : t[k] = "space" /\ k \in free
        /\ j \in free => t[j] # "space"

SlipSpacesAdded(t) ==
    LET free == Prose(t)
        Out[i \in 1..(Len(t) + 1)] ==
          IF i > Len(t) THEN <<>>
          ELSE IF i \notin free THEN <<t[i]>> \o Out[i + 1]
          ELSE LET j   == GapEnd(t, free, i)
                   own == j \notin free \/ ~NeedsSpace(t[i], t[j])
               IN  <<t[i]>> \o Gap(IF own THEN j - i - 1 ELSE j - i) \o Out[j]
    IN  Out[1]

SlipIntoTokens(t) ==
    LET free == Prose(t)
        Out[i \in 1..(Len(t) + 1)] ==
          IF i > Len(t) THEN <<>>
          ELSE LET j   == GapEnd(t, free, i)
                   own == j > Len(t) \/ ~NeedsSpace(t[i], t[j])
               IN  <<t[i]>> \o Gap(IF own THEN j - i - 1 ELSE 1) \o Out[j]
    IN  Out[1]

(* _apply_spacing: one space between Chinese and Latin, whatever was there; *)
(* every other gap stays as it is.                                          *)
ApplySpacing(t) ==
    LET free == Prose(t)
        Out[i \in 1..(Len(t) + 1)] ==
          IF i > Len(t) THEN <<>>
          ELSE IF i \notin free THEN <<t[i]>> \o Out[i + 1]
          ELSE LET j   == GapEnd(t, free, i)
                   own == j \notin free \/ ~NeedsSpace(t[i], t[j])
               IN  <<t[i]>> \o Gap(IF own THEN j - i - 1 ELSE 1) \o Out[j]
    IN  Out[1]
-----------------------------------------------------------------------------
Init ==
    /\ given \in Texts
    /\ text = given
    /\ phase = "called"

(* The first pass. *)
Convert ==
    /\ phase = "called"
    /\ text' = ConvertPunct(text)
    /\ phase' = "converted"
    /\ UNCHANGED given

(* The second, which looks for the protected ranges again. *)
Space ==
    /\ phase = "converted"
    /\ text' = ApplySpacing(text)
    /\ phase' = "returned"
    /\ UNCHANGED given

(* A caller passes the result in again, as part of a later edit. *)
CallAgain ==
    /\ phase = "returned" /\ text # given
    /\ given' = text
    /\ phase' = "called"
    /\ UNCHANGED text

Next == Convert \/ Space \/ CallAgain

Spec == Init /\ [][Next]_vars
-----------------------------------------------------------------------------
(* The protected text, in order. *)
Tokens(t) ==
    LET free == Prose(t)
    IN  SelectSeq([i \in DOMAIN t |-> IF i \in free THEN "none" ELSE t[i]],
                  LAMBDA c : c # "none")

(* Normalizing twice is normalizing once, although each pass looks at what  *)
(* the one before it produced.                                             *)
Stable == phase = "returned" => ApplySpacing(ConvertPunct(text)) = text

Leading(t) == Cardinality({i \in DOMAIN t : \A k \in 1..i : t[k] = "space"})
Trailing(t) == Cardinality({i \in DOMAIN t : \A k \in i..Len(t) : t[k] = "space"})

(* A text without its spaces, a mark and its full-width form being alike.   *)
Class(c) == CASE c \in {"mark", "wide"} -> "mark" [] c \in {"dot", "stop"} -> "dot" [] OTHER -> c
Letters(t) == SelectSeq([i \in DOMAIN t |-> Class(t[i])], LAMBDA c : c # "space")

(* URLs, addresses and code spans come out as they went in, and no other    *)
(* text becomes one of them on the way; of the rest nothing comes or goes   *)
(* but spaces, and those not at the ends.                                   *)
TokensKept ==
    /\ Tokens(text) = Tokens(given)
    /\ Letters(text) = Letters(given)
    /\ Leading(text) = Leading(given) /\ Trailing(text) = Trailing(given)

(* The prose has one space between a Chinese and a Latin character, however *)
(* many there were, and the marks widened before do not hide a boundary; no *)
(* full stop is widened that a Latin character, a space or a token touched. *)
Spaced ==
    phase = "returned" =>
        LET free == Prose(text)
        IN  /\ \A i, j \in free :
                 /\ i < j /\ {text[i], text[j]} = {"cjk", "latin"}
                 /\ \A k \in (i + 1)..(j - 1) : k \in free /\ text[k] = "space"
                 => j = i + 2
            /\ \A i \in DOMAIN text : text[i] = "stop" => EndsSentence(text, i)
=============================================================================
