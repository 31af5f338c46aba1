--------------------------- MODULE AnchorManifest ---------------------------
(***************************************************************************)
(* The anchor manifest of anchors.py: the two-way table between stable     *)
(* paragraph IDs and the paragraph nodes of the live XML tree.             *)
(*                                                                         *)
(* A manifest is a record of the four fields of the class AnchorManifest:  *)
(*   byId    ID -> node              (self._by_id)                         *)
(*   byNode  node -> ID              (self._by_node, keyed by identity)    *)
(*   order   the IDs as they were bound  (self._order)                     *)
(*   next    the next number allocate() formats into an ID                 *)
(* An ID "pNNNN" is represented by its number, a node by a number of its   *)
(* own.  Every operator returns the manifest its method leaves behind.     *)
(*                                                                         *)
(* Loops that bind or invalidate several paragraphs in a row are given in  *)
(* closed form, with no recursion; the loops as written stand beside them, *)
(* and LoopsAsWritten of module BatchProperties says that they agree.      *)
(***************************************************************************)
EXTENDS Integers, Sequences, FiniteSets

(* The elements of a sequence. *)
Elems(s) == {s[i] : i \in DOMAIN s}

(* A sequence without repetitions. *)
IsOneToOne(s) == \A i, j \in DOMAIN s : s[i] = s[j] => i = j

(* The k-th smallest member of a finite set K of positions. *)
Nth(K, k) == CHOOSE i \in K : Cardinality({j \in K : j <= i}) = k

(* The largest member of a finite, nonempty set K of positions. *)
Highest(K) == Nth(K, Cardinality(K))

(* The elements of s at the positions in K, in their order in s. *)
Keep(s, K) == [k \in 1..Cardinality(K) |-> s[Nth(K, k)]]

(* The elements of s that are not in S, in their order in s. *)
Without(s, S) == Keep(s, {i \in 1..Len(s) : s[i] \notin S})

(* The sequence s with the sequence t spliced in after position p. *)
Splice(s, p, t) == SubSeq(s, 1, p) \o t \o SubSeq(s, p + 1, Len(s))

(* The position of element e in a sequence that has it once. *)
PosOf(s, e) == CHOOSE i \in DOMAIN s : s[i] = e
-----------------------------------------------------------------------------
(* Definitions named Slip... are plausible mistakes in the definition that  *)
(* follows them; no definition uses them.                                   *)

EmptyManifest ==
    [byId |-> [i \in {} |-> 0], byNode |-> [n \in {} |-> 0],
     order |-> <<>>, next |-> 1]

Ids(m) == DOMAIN m.byId

(* allocate(): the ID it returns is m.next. *)
Allocate(m) == [m EXCEPT !.next = @ + 1]

(* bind(id, node): an ID that was bound lets its old node go and keeps its *)
(* place in the order; a new one goes to the end.                          *)
Bind(m, id, node) ==
    LET old == IF id \in Ids(m) THEN {m.byId[id]} ELSE {}
    IN  [m EXCEPT
           !.byId   = [i \in Ids(m) \cup {id} |-> IF i = id THEN node ELSE @[i]],
           !.byNode = [n \in (DOMAIN @ \ old) \cup {node} |->
                          IF n = node THEN id ELSE @[n]],
           !.order  = IF id \in Ids(m) THEN @ ELSE Append(@, id)]

(* invalidate(id): an unknown ID changes nothing. *)
Invalidate(m, id) ==
    IF id \notin Ids(m) THEN m
    ELSE [m EXCEPT !.byId   = [i \in Ids(m) \ {id} |-> @[i]],
                   !.byNode = [n \in DOMAIN @ \ {m.byId[id]} |-> @[n]],
                   !.order  = LET p == PosOf(@, id)
                              IN  SubSeq(@, 1, p - 1) \o SubSeq(@, p + 1, Len(@))]

SlipNewIdsFirst(m, ids, nodes) ==
    [m EXCEPT
       !.byId   = [i \in Ids(m) \cup Elems(ids) |->
                      IF i \in Elems(ids) THEN nodes[PosOf(ids, i)] ELSE @[i]],
       !.byNode = [n \in DOMAIN @ \cup Elems(nodes) |->
                      IF n \in Elems(nodes) THEN ids[PosOf(nodes, n)] ELSE @[n]],
       !.order  = ids \o @]

(* Binding ids[1] to nodes[1], ids[2] to nodes[2], ... one after the other, *)
(* for distinct IDs none of which is bound in m, and distinct nodes.        *)
BindAll(m, ids, nodes) ==
    [m EXCEPT
       !.byId   = [i \in Ids(m) \cup Elems(ids) |->
                      IF i \in Elems(ids) THEN nodes[PosOf(ids, i)] ELSE @[i]],
       !.byNode = [n \in DOMAIN @ \cup Elems(nodes) |->
                      IF n \in Elems(nodes) THEN ids[PosOf(nodes, n)] ELSE @[n]],
       !.order  = @ \o ids]

(* The IDs that k calls of allocate() return. *)
NextIds(m, k) == [j \in 1..k |-> m.next + j - 1]

(* The loop "new_id = allocate(); bind(new_id, node)" over the nodes: in    *)
(* closed form, and as written.                                             *)
BindNew(m, nodes) ==
    [BindAll(m, NextIds(m, Len(nodes)), nodes) EXCEPT !.next = @ + Len(nodes)]

BindLoop(m, nodes) ==
    LET After[k \in 0..Len(nodes)] ==
          IF k = 0 THEN m ELSE Bind(Allocate(After[k - 1]), After[k - 1].next, nodes[k])
    IN  After[Len(nodes)]

(* The loop "invalidate(id)" over the IDs of a set, in any order. *)
InvalidateAll(m, ids) ==
    LET live  == Ids(m) \ ids
        freed == {m.byId[i] : i \in Ids(m) \cap ids}
    IN  [m EXCEPT !.byId   = [i \in live |-> @[i]],
                  !.byNode = [n \in DOMAIN @ \ freed |-> @[n]],
                  !.order  = Without(@, Ids(m) \cap ids)]

InvalidateLoop(m, ids) ==
    LET After[k \in 0..Len(ids)] ==
          IF k = 0 THEN m ELSE Invalidate(After[k - 1], ids[k])
    IN  After[Len(ids)]

SlipCounterNotRestored(ids, nodes, next) == BindAll(EmptyManifest, ids, nodes)

(* The manifest a rollback builds: empty, then ids[k] bound to nodes[k] in *)
(* order, then the counter set.                                            *)
Rebound(ids, nodes, next) == [BindAll(EmptyManifest, ids, nodes) EXCEPT !.next = next]

ReboundLoop(ids, nodes, next) ==
    LET After[k \in 0..Len(ids)] ==
          IF k = 0 THEN EmptyManifest ELSE Bind(After[k - 1], ids[k], nodes[k])
    IN  [After[Len(ids)] EXCEPT !.next = next]
-----------------------------------------------------------------------------
(* The manifest is sound: the two tables are each other's inverse, every   *)
(* ID was allocated, and the order lists each bound ID exactly once.       *)
Sound(m) ==
    /\ \A i \in Ids(m) : /\ i \in 1..(m.next - 1)
                         /\ m.byId[i] \in DOMAIN m.byNode
                         /\ m.byNode[m.byId[i]] = i
    /\ \A n \in DOMAIN m.byNode : /\ m.byNode[n] \in Ids(m)
                                  /\ m.byId[m.byNode[n]] = n
    /\ Elems(m.order) = Ids(m)
    /\ IsOneToOne(m.order)
=============================================================================
