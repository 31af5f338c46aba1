------------------------------ MODULE Document ------------------------------
(***************************************************************************)
(* The open document of document.py: the live tree of paragraphs, the      *)
(* anchor manifest over it, and the cached paragraph index, with the       *)
(* paragraph writes, the fluent text edits and the reads of the class      *)
(* Document.  The library is single-threaded, so a call is one step.       *)
(*                                                                         *)
(* The state is a record:                                                  *)
(*   dom       the editable w:p nodes in document order, the order in      *)
(*             which iter_editable_paragraphs yields them                  *)
(*   host      node -> the paragraph whose text box it lies in, or NoHost  *)
(*   body      node -> the marks of the edits its own content has seen     *)
(*   fresh     the next node that has not been used                        *)
(*   manifest  the anchor manifest                                         *)
(*   cached, records   the index: whether there is one, and its records    *)
(*                                                                         *)
(* Abstractions.  Content is a sequence of marks <<op, k>>, enough to tell *)
(* which edit wrote it.  Tables, structured document tags and styles never *)
(* decide which paragraph an operation acts on and are left out.  Text     *)
(* boxes are kept: the paragraphs in them are descendants of another       *)
(* paragraph and share its fate.  A text box holds no further text box     *)
(* (the bound on nesting).                                                 *)
(***************************************************************************)
EXTENDS AnchorManifest

CONSTANTS
    InitialShape,   \* the paragraphs of the file that is opened
    NewShapes,      \* the contents a caller may insert
    MaxNodes,       \* bound: nodes ever created
    MaxMarks        \* bound: edits of one paragraph's content

(* A shape lists new paragraphs in document order; TRUE marks one that is  *)
(* inside a text box of the last paragraph before it that is not.          *)
IsShape(s) == s \in Seq(BOOLEAN) /\ (s # <<>> => ~s[1])

ASSUME ShapeAssumption ==
    /\ IsShape(InitialShape)
    /\ \A s \in NewShapes : IsShape(s) /\ s # <<>>
    /\ MaxNodes \in Nat /\ MaxMarks \in Nat

VARIABLE doc

NoHost == 0
Mark == Nat \X Nat
-----------------------------------------------------------------------------
(* The tree. *)

InTree(d, n) == n \in Elems(d.dom)

(* The paragraphs inside the text boxes of n. *)
Boxed(d, n) == {m \in Elems(d.dom) : d.host[m] = n}

(* The nodes that leave the tree when the nodes in S are removed from it. *)
Subtrees(d, S) == S \cup UNION {Boxed(d, n) : n \in S}

(* The last position of the subtree of n. *)
EndOf(d, n) == Highest({i \in 1..Len(d.dom) : d.dom[i] \in Subtrees(d, {n})})

(* resolve(id) returns a node: the ID is bound, its node still reachable. *)
Resolves(d, id) == id \in Ids(d.manifest) /\ InTree(d, d.manifest.byId[id])

NewNodes(d, shape) == [k \in 1..Len(shape) |-> d.fresh + k - 1]

(* The new paragraphs a call returns handles for: the top-level ones. *)
Tops(d, shape) == Keep(NewNodes(d, shape), {k \in 1..Len(shape) : ~shape[k]})

(* The host of the k-th of them. *)
HostIn(d, parent, shape, k) ==
    IF shape[k] THEN d.fresh - 1 + Highest({j \in 1..k : ~shape[j]}) ELSE parent

Invalidated(d) == [d EXCEPT !.cached = FALSE, !.records = <<>>]

(* The new paragraphs of shape enter the tree after position at, inside     *)
(* parent, and _register_new_paragraphs gives the top-level ones IDs.       *)
AddParagraphs(d, at, parent, shape, by) ==
    LET last == d.fresh + Len(shape) - 1
    IN  [Invalidated(d) EXCEPT
           !.dom  = Splice(@, at, NewNodes(d, shape)),
           !.host = [n \in 1..last |->
                       IF n < d.fresh THEN @[n]
                       ELSE HostIn(d, parent, shape, n - d.fresh + 1)],
           !.body = [n \in 1..last |->
                       IF n < d.fresh THEN @[n] ELSE <<<<by, n - d.fresh + 1>>>>],
           !.fresh = last + 1,
           !.manifest = BindNew(@, Tops(d, shape))]
-----------------------------------------------------------------------------
(* The operations: the document each call leaves, for IDs that resolve. *)

(* _build_index: every editable paragraph that has no ID gets one, in      *)
(* document order, and the records list them all.                          *)
BuildIndex(d) ==
    LET m == BindNew(d.manifest, Without(d.dom, DOMAIN d.manifest.byNode))
    IN  [d EXCEPT !.manifest = m,
                  !.cached   = TRUE,
                  !.records  = [i \in 1..Len(d.dom) |->
                                  [id |-> m.byNode[d.dom[i]], node |-> d.dom[i]]]]

EnsureIndex(d) == IF d.cached THEN d ELSE BuildIndex(d)

(* get_paragraph(id) succeeds, for a document whose index is built. *)
HasRecord(d, id) ==
    (\E i \in DOMAIN d.records : d.records[i].id = id) /\ Resolves(d, id)

InsertParaBefore(d, id, shape, by) ==
    LET t == d.manifest.byId[id]
    IN  AddParagraphs(d, PosOf(d.dom, t) - 1, d.host[t], shape, by)

InsertParaAfter(d, id, shape, by) ==
    LET t == d.manifest.byId[id]
    IN  AddParagraphs(d, EndOf(d, t), d.host[t], shape, by)

SlipOldIdKept(d, id, shape, by) ==
    LET t  == d.manifest.byId[id]
        d2 == AddParagraphs(d, PosOf(d.dom, t) - 1, d.host[t], shape, by)
    IN  [d2 EXCEPT !.dom = Without(@, Subtrees(d, {t}))]

(* The new paragraphs go in front of the target, the target's subtree goes, *)
(* and of its IDs only the target's own is invalidated.                     *)
ReplacePara(d, id, shape, by) ==
    LET t  == d.manifest.byId[id]
        d1 == [d EXCEPT !.manifest = InvalidateAll(@, {id})]
        d2 == AddParagraphs(d1, PosOf(d.dom, t) - 1, d.host[t], shape, by)
    IN  [d2 EXCEPT !.dom = Without(@, Subtrees(d, {t}))]

SlipIndexKept(d, ids) ==
    LET targets == {d.manifest.byId[i] : i \in ids}
    IN  [d EXCEPT !.dom      = Without(@, Subtrees(d, targets)),
                  !.manifest = InvalidateAll(@, ids)]

(* Every target leaves the tree with its subtree, and its ID goes. *)
DeletePara(d, ids) ==
    LET targets == {d.manifest.byId[i] : i \in ids}
    IN  [Invalidated(d) EXCEPT !.dom      = Without(@, Subtrees(d, targets)),
                               !.manifest = InvalidateAll(@, ids)]

SlipRegisteredAnew(d, id, by, hit, gone) ==
    LET t == d.manifest.byId[id]
    IN  [d EXCEPT !.body[t]  = Append(@, <<by, 0>>),
                  !.manifest = BindNew(InvalidateAll(@, {id}), <<t>>)]

(* A text edit of one paragraph.  Its matches may reach into the runs of   *)
(* its text boxes: the paragraphs in hit are changed with it, those in     *)
(* gone are dropped with a run the splice removed.  The index is left.     *)
TextEdit(d, id, by, hit, gone) ==
    LET t == d.manifest.byId[id]
    IN  [d EXCEPT
           !.body = [n \in DOMAIN @ |->
                       IF n \in {t} \cup hit THEN Append(@[n], <<by, 0>>) ELSE @[n]],
           !.dom  = Without(@, gone)]
-----------------------------------------------------------------------------
(* What a caller may do with the open document. *)

Fluent == 0     \* the op mark of edits made outside a batch

HasRoom(shape) == doc.fresh + Len(shape) - 1 <= MaxNodes

(* The bound on nesting: no text box is put into a text box. *)
MayHold(id, shape) ==
    doc.host[doc.manifest.byId[id]] # NoHost => \A k \in DOMAIN shape : ~shape[k]

Opened ==
    LET n  == Len(InitialShape)
        d0 == [dom |-> <<>>, host |-> <<>>, body |-> <<>>, fresh |-> 1,
               manifest |-> EmptyManifest, cached |-> FALSE, records |-> <<>>]
    IN  BuildIndex([d0 EXCEPT
            !.dom   = [i \in 1..n |-> i],
            !.host  = [i \in 1..n |-> HostIn(d0, NoHost, InitialShape, i)],
            !.body  = [i \in 1..n |-> <<>>],
            !.fresh = n + 1])

Init == doc = Opened

Targets == {i \in Ids(doc.manifest) : Resolves(doc, i)}

Insert ==
    \E id \in Targets, shape \in NewShapes :
        /\ HasRoom(shape) /\ MayHold(id, shape)
        /\ \/ doc' = InsertParaBefore(doc, id, shape, Fluent)
           \/ doc' = InsertParaAfter(doc, id, shape, Fluent)

Replace ==
    \E id \in Targets, shape \in NewShapes :
        /\ HasRoom(shape) /\ MayHold(id, shape)
        /\ doc' = ReplacePara(doc, id, shape, Fluent)

Delete ==
    \E ids \in SUBSET Targets :
        /\ ids # {}
        /\ doc' = DeletePara(doc, ids)

(* A fluent edit through a Paragraph handle, which resolves its ID anew on *)
(* each call; one that fails between two matches leaves the same kind of   *)
(* state, with an exception.                                               *)
EditText ==
    \E id \in Targets :
        LET t == doc.manifest.byId[id]
        IN  /\ Len(doc.body[t]) < MaxMarks
            /\ \E hit \in SUBSET Boxed(doc, t), gone \in SUBSET Boxed(doc, t) :
                 doc' = TextEdit(doc, id, Fluent, hit, gone)

Read == doc' = EnsureIndex(doc)

Next == Insert \/ Replace \/ Delete \/ EditText \/ Read

Spec == Init /\ [][Next]_doc
-----------------------------------------------------------------------------
(* The type invariant: every node mentioned anywhere is one that was used.  *)
Typed(d) ==
    LET Node == 1..(d.fresh - 1)
    IN  /\ d.fresh \in Nat \ {0}
        /\ d.dom \in Seq(Node)
        /\ d.host \in [Node -> Node \cup {NoHost}]
        /\ d.body \in [Node -> Seq(Mark)]
        /\ d.cached \in BOOLEAN
        /\ d.records \in Seq([id : Nat \ {0}, node : Node])
        /\ d.manifest.byId \in [Ids(d.manifest) -> Node]
        /\ d.manifest.byNode \in [DOMAIN d.manifest.byNode -> Nat \ {0}]
        /\ d.manifest.order \in Seq(Nat \ {0})
        /\ d.manifest.next \in Nat \ {0}

TypeOK == Typed(doc)

(* Whatever inserts, replacements, deletions, text edits and reads have     *)
(* happened, in any order: IDs and nodes are paired one to one, every ID    *)
(* has been allocated, and ordered_ids() lists the bound IDs, each once.    *)
ManifestSound == Sound(doc.manifest)

(* The only anchors that dangle are those of paragraphs in text boxes: a    *)
(* write that takes a paragraph out of the tree invalidates its ID, unless  *)
(* the paragraph went with the one it was inside of.                        *)
StaleOnlyInBoxes ==
    \A i \in Ids(doc.manifest) :
        Resolves(doc, i) \/ doc.host[doc.manifest.byId[i]] # NoHost

(* The cached index is never stale: a write that changes the tree drops it, *)
(* so its records are the paragraphs of the tree, in order, with their IDs. *)
IndexFresh ==
    doc.cached => doc.records = [i \in 1..Len(doc.dom) |->
                                   [id   |-> doc.manifest.byNode[doc.dom[i]],
                                    node |-> doc.dom[i]]]

(* The anchor promise, step by step: a bound ID keeps its node for as long *)
(* as it is bound, and an ID that becomes bound was never used before.     *)
AnchorStep ==
    \A i \in Ids(doc.manifest)' :
        IF i \in Ids(doc.manifest)
        THEN doc.manifest.byId'[i] = doc.manifest.byId[i]
        ELSE i >= doc.manifest.next
AnchorsStable == [][AnchorStep]_doc
=============================================================================
