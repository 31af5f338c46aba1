-------------------------- MODULE BatchProperties --------------------------
(***************************************************************************)
(* What the atomic batch promises, stated over module Batch.               *)
(***************************************************************************)
EXTENDS Batch, SequencesExt

(* The type invariant of the batch's own variables. *)
BatchTypeOK ==
    /\ TypeOK
    /\ phase \in {"idle", "executing", "failing", "split"}
    /\ ops \in Seq(Operations)
    /\ todo \subseteq [seq : DOMAIN ops, anchor : Nat]
    /\ DOMAIN results \subseteq DOMAIN ops
    /\ \A i \in DOMAIN results : results[i] \in Seq(Nat \ {0})
    /\ delta \in Int
    /\ pending \in Seq([seq : DOMAIN ops, ok : {TRUE}])
    /\ failure \in [audited : BOOLEAN]
    /\ log \in Seq([seq : Nat, ok : BOOLEAN]) /\ Len(log) <= LogLimit
-----------------------------------------------------------------------------
(* The reference: what a batch makes of a document, said in one expression *)
(* per original paragraph, with no plan, no steps and no moving cursor.    *)

(* The operations of the batch of this kind that name the ID, in order. *)
OpsOn(b, kind, id) ==
    SelectSeq([i \in 1..Len(b) |-> i], LAMBDA i : b[i].op = kind /\ id \in Names(b[i]))

(* The paragraphs those operations bring, as their contents. *)
Brought(b, kind, id) ==
    FlattenSeq([j \in 1..Len(OpsOn(b, kind, id)) |->
        LET i == OpsOn(b, kind, id)[j] IN [k \in 1..Len(b[i].shape) |-> <<<<i, k>>>>]])

Edited(b, body, id) ==
    body \o [j \in 1..Len(OpsOn(b, "text", id)) |-> <<OpsOn(b, "text", id)[j], 0>>]

InPlace(b, body, id) ==
    IF OpsOn(b, "delete_para", id) # <<>> THEN <<>>
    ELSE IF OpsOn(b, "replace_para", id) # <<>> THEN Brought(b, "replace_para", id)
    ELSE <<Edited(b, body, id)>>

Declared(d, b) ==
    FlattenSeq([p \in 1..Len(d.dom) |->
        LET n  == d.dom[p]
            id == d.manifest.byNode[n]
        IN  Brought(b, "insert_para_before", id) \o InPlace(b, d.body[n], id)
            \o Brought(b, "insert_para_after", id)])

Contents(d) == [p \in 1..Len(d.dom) |-> d.body[d.dom[p]]]

Committing == phase = "executing" /\ phase' = "idle"
RollingBack == phase = "failing" /\ phase' = "idle"
-----------------------------------------------------------------------------
(* A batch that commits has done what its operations say, taken together:   *)
(* the paragraphs, their order and their contents are those of the          *)
(* reference, whatever the grouping by anchor, the ranks within an anchor   *)
(* and the moving after_anchor made of the batch.  (Text boxes aside.)      *)
CommitStep == Committing => Contents(doc') = Declared(snap, ops)
CommitIsDeclared == [][CommitStep]_vars

(* EditResult: every operation of a committed batch has a result, and the   *)
(* new IDs it reports resolve, in item order, to the paragraphs it brought. *)
ResultStep ==
    Committing =>
        /\ DOMAIN results = DOMAIN ops
        /\ \A i \in DOMAIN ops :
             [k \in DOMAIN results[i] |-> doc'.body[doc'.manifest.byId[results[i][k]]]]
               = [k \in DOMAIN ops[i].shape |-> <<<<i, k>>>>]
        /\ \A i \in DOMAIN ops : \A id \in Elems(results[i]) : Resolves(doc, id)'
ResultsNameNewParagraphs == [][ResultStep]_vars

(* A paragraph that a committed batch neither deletes nor replaces keeps    *)
(* its ID and its node.                                                     *)
SurvivorStep ==
    Committing =>
        \A id \in Ids(snap.manifest) :
            \/ /\ id \in Ids(doc.manifest)'
               /\ doc.manifest.byId'[id] = snap.manifest.byId[id]
            \/ \E i \in DOMAIN ops : /\ id \in Names(ops[i])
                                     /\ ops[i].op \in {"delete_para", "replace_para"}
SurvivorsKeepAnchors == [][SurvivorStep]_vars

(* The bookkeeping of _execute_plan and the checks of _precommit_validate   *)
(* agree: a plan carried out to its end always passes them, so a batch that *)
(* fails, fails at one of its operations.  (Text boxes aside.)              *)
PlanPassesChecks == phase = "executing" /\ todo = {} => CommitChecks(EnsureIndex(doc))

(* A failed batch, wherever it failed and whatever it had done, leaves the  *)
(* paragraphs, their order and their contents as they were; and the anchors *)
(* too, provided ordered_ids() was in document order at the snapshot.  It   *)
(* fails to do so only if paragraphs lie in text boxes.                     *)
InDocumentOrder(d) ==
    [i \in DOMAIN d.manifest.order |-> d.manifest.byId[d.manifest.order[i]]] = d.dom
RollbackStep ==
    /\ RollingBack =>
         /\ doc'.dom = snap.dom /\ Contents(doc') = Contents(snap)
         /\ doc'.host = snap.host
         /\ Ids(doc.manifest)' = Ids(snap.manifest)
         /\ InDocumentOrder(snap) => doc.manifest.byId' = snap.manifest.byId
    /\ phase # "split" /\ phase' = "split" =>
         \E n \in Elems(snap.dom) : snap.host[n] # 0
RollbackRestores == [][RollbackStep]_vars

(* The change log of a committed batch: one entry per operation, in the     *)
(* order of execution, as far as the log has room; what it held stays.  Of  *)
(* a failed batch it has one entry or none, whatever was pending; and the   *)
(* operation that a failure is put down to is one that was not carried out, *)
(* the one that failed if the rest of the plan keeps the caller's order.    *)
LogStep ==
    /\ Committing =>
         /\ IsPrefix(log, log') /\ Len(log') <= LogLimit
         /\ Len(log) + Len(ops) <= LogLimit =>
              {log'[k].seq : k \in (Len(log) + 1)..Len(log')} = DOMAIN ops
    /\ RollingBack =>
         /\ log' = log \/ (log' = Append(log, Last(log')) /\ ~Last(log').ok)
         /\ Len(log') <= LogLimit
         /\ todo # {} => \E s \in todo : last'.blamed = s.seq
         /\ \A s \in todo : IsNext(s) /\ (\A t \in todo : s.seq <= t.seq) => last'.blamed = s.seq
LogRecordsCommit == [][LogStep]_vars

(* Seen by the caller, between its calls, the IDs obey the ledger: none is  *)
(* used again, although a rollback rewinds the counter.  The IDs of a batch *)
(* in flight are not seen.                                                  *)
Visible == IF phase \in {"executing", "failing"} THEN snap.manifest ELSE doc.manifest
Ledger == INSTANCE AnchorLedger WITH live <- Ids(Visible), issued <- Visible.next - 1
NeverReused == Ledger!LedgerSpec

(* Every batch_edit call ends: it commits, or rolls back, or fails to.  *)
BatchEnds == phase \in {"executing", "failing"} ~> phase \in {"idle", "split"}
-----------------------------------------------------------------------------
(* Statements of the documentation that the code does not meet. *)

(* "Any failure MUST restore all three states exactly": after a rollback    *)
(* every ID denotes the paragraph it denoted before the batch.              *)
ExactRollbackStep == RollingBack => doc.manifest.byId' = snap.manifest.byId
RollbackIsExact == [][ExactRollbackStep]_vars

(* "Deletion plus before-insertion SHALL execute insertion first": an       *)
(* accepted insert_para_before finds its anchor.                            *)
InsertionFirst ==
    \A s \in todo :
        phase = "executing" /\ IsNext(s) /\ ops[s.seq].op = "insert_para_before" =>
            HasRecord(EnsureIndex(doc), s.anchor)

(* "IDs never point to stale nodes": each bound ID resolves to a paragraph  *)
(* of the tree.                                                             *)
AnchorsLive == \A i \in Ids(doc.manifest) : Resolves(doc, i)

(* "roll back completely": the rollback itself never fails half-way. *)
RollbackCompletes == phase # "split"

(* "A failed batch MUST record only one bounded audit event": a rollback    *)
(* adds one entry to a log that has room for it.                            *)
AuditStep == RollingBack /\ Len(log) < LogLimit => Len(log') = Len(log) + 1
EveryFailureAudited == [][AuditStep]_vars

(* "Any operation ... failure SHALL raise BatchOperationError with          *)
(* operation index, `op_id`": the operation that is named is the one that   *)
(* was being executed.                                                      *)
BlameStep ==
    phase = "executing" /\ phase' = "failing" /\ todo # {} =>
        \E s \in todo : IsNext(s) /\ Blamed = s.seq
FailureIsBlamed == [][BlameStep]_vars
-----------------------------------------------------------------------------
(* Bound: the paragraphs that one loop registers or retires. *)
RunLength == 2
Runs(S) == {s \in UNION {[1..n -> S] : n \in 0..RunLength} : IsOneToOne(s)}

(* The loops of _register_new_paragraphs and _build_index, which allocate   *)
(* an ID and bind it, node after node, come to BindNew of them all; those   *)
(* of delete_para, in whatever order the targets stand, to InvalidateAll of *)
(* their set; and that of _rollback, which binds the listed IDs to the      *)
(* nodes of a new tree from an empty manifest, to Rebound.                  *)
LoopsAsWritten ==
    LET m     == doc.manifest
        nodes == [k \in 1..Len(m.order) |-> k]
    IN  /\ \A new \in Runs((doc.fresh)..(doc.fresh + RunLength)) : BindNew(m, new) = BindLoop(m, new)
        /\ \A ids \in Runs(1..m.next) : InvalidateAll(m, Elems(ids)) = InvalidateLoop(m, ids)
        /\ Rebound(m.order, nodes, m.next) = ReboundLoop(m.order, nodes, m.next)
=============================================================================
