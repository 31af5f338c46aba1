------------------------------- MODULE Batch -------------------------------
(***************************************************************************)
(* The atomic batch of batch.py over the document of module Document.      *)
(*                                                                         *)
(* BatchExecutor.run is one call of a single-threaded program, cut here at *)
(* the points where it may raise: prevalidation and planning, the          *)
(* snapshot, one action per executed operation, the commit checks, and the *)
(* rollback of a batch that failed.  Between batches the caller may use    *)
(* the document's own calls.                                               *)
(*                                                                         *)
(* An operation is a record: op (its kind; the four text operations are    *)
(* the one kind "text"), targets (a delete names several IDs, any other    *)
(* one), shape (the paragraphs its items expand to) and ok (its own fields *)
(* are well formed: one source of content, a selector that compiles, an    *)
(* occurrence of at least -1).                                             *)
(***************************************************************************)
EXTENDS Document

CONSTANTS
    Operations,     \* the operations a caller may put into a batch
    MaxOps,         \* bound: operations in one batch
    MaxCalls,       \* bound: batches and edits of a behaviour
    LogLimit        \* _CHANGE_LOG_LIMIT

Inserting == {"insert_para_before", "insert_para_after", "replace_para"}
Kinds == Inserting \cup {"delete_para", "text"}

Operation == [op : Kinds, targets : Seq(Nat), shape : Seq(BOOLEAN), ok : BOOLEAN]

ASSUME BatchAssumption ==
    /\ Operations \subseteq Operation
    /\ \A o \in Operations :
         /\ IsShape(o.shape)
         /\ o.op # "delete_para" => Len(o.targets) = 1
         /\ o.op \notin Inserting => o.shape = <<>>
    /\ MaxOps \in Nat /\ MaxCalls \in Nat /\ LogLimit \in Nat

VARIABLES
    phase,      \* "idle", "executing", "failing", or "split" (see RollbackFails)
    ops,        \* the batch, self._ops
    todo,       \* the planned steps not executed yet
    cursor,     \* anchor -> the after_anchor of its insert_para_after steps
    results,    \* results_by_seq: operation -> the new IDs it reports
    delta,      \* expected_delta
    pending,    \* pending_log
    snap,       \* the document when the snapshot was taken
    failure,    \* the exception in flight, of a failing batch
    log,        \* the document's change log
    last,       \* what the caller got from its last batch
    calls       \* the calls made so far, for the bound

batchVars == <<phase, ops, todo, cursor, results, delta, pending, snap, failure>>
vars == <<doc, phase, ops, todo, cursor, results, delta, pending, snap, failure, log, last, calls>>
-----------------------------------------------------------------------------
(* Prevalidation and conflicts. *)

Names(o) == Elems(o.targets)

(* _prevalidate finds nothing wrong with an operation. *)
Admissible(o) ==
    /\ o.ok
    /\ o.op \in Inserting => o.shape # <<>>
    /\ o.targets # <<>> /\ IsOneToOne(o.targets)
    /\ Names(o) \subseteq Elems(doc.manifest.order)

(* Two operations of one batch that _build_plan refuses to combine. *)
Conflict(o, p) ==
    /\ Names(o) \cap Names(p) # {}
    /\ {o.op, p.op} \in {{"replace_para"}, {"delete_para"},
                         {"replace_para", "delete_para"},
                         {"delete_para", "insert_para_after"}}

Accepted(b) ==
    /\ b # <<>>
    /\ \A i \in DOMAIN b : Admissible(b[i])
    /\ \A i, j \in DOMAIN b : i # j => ~Conflict(b[i], b[j])
-----------------------------------------------------------------------------
(* The plan: one step per operation, filed under an anchor.  Anchors are   *)
(* visited in the order the batch first names them; a delete is filed      *)
(* under the first of its targets to be visited.                           *)

Earlier(p, q) == p[1] < q[1] \/ (p[1] = q[1] /\ p[2] < q[2])

(* The places of a batch that name an ID: operation and target position. *)
Mentions(b, id) ==
    {p \in UNION {{<<i, k>> : k \in DOMAIN b[i].targets} : i \in DOMAIN b} :
        b[p[1]].targets[p[2]] = id}

FirstMention(b, id) ==
    CHOOSE p \in Mentions(b, id) : \A q \in Mentions(b, id) \ {p} : Earlier(p, q)

VisitedBefore(b, id1, id2) == Earlier(FirstMention(b, id1), FirstMention(b, id2))

Anchor(b, i) ==
    CHOOSE id \in Names(b[i]) :
        \A other \in Names(b[i]) \ {id} : VisitedBefore(b, id, other)

Plan(b) == {[seq |-> i, anchor |-> Anchor(b, i)] : i \in DOMAIN b}

(* The order of the steps of one anchor. *)
Rank(kind) ==
    CASE kind = "insert_para_before" -> 1
      [] kind = "insert_para_after"  -> 2
      [] kind = "text"               -> 3
      [] kind = "replace_para"       -> 4
      [] kind = "delete_para"        -> 5

Precedes(b, s, t) ==
    IF s.anchor # t.anchor
    THEN VisitedBefore(b, s.anchor, t.anchor)
    ELSE Earlier(<<Rank(b[s.seq].op), s.seq>>, <<Rank(b[t.seq].op), t.seq>>)

IsNext(s) == s \in todo /\ \A t \in todo \ {s} : Precedes(ops, s, t)
-----------------------------------------------------------------------------
(* Snapshot, commit checks, rollback. *)

(* _paragraph_hashes fingerprints a paragraph's serialized subtree. *)
Hash(d, n) ==
    [k \in 0..Cardinality(Boxed(d, n)) |-> d.body[d.dom[PosOf(d.dom, n) + k]]]

HashOf(d, id) == Hash(d, d.manifest.byId[id])

AllResolve(d) == \A i \in Elems(d.manifest.order) : Resolves(d, i)

CountAgrees(d) == Len(d.records) = Len(snap.manifest.order) + delta

RemovedAreGone(d) ==
    \A i \in DOMAIN ops :
        ops[i].op \in {"replace_para", "delete_para"} =>
            Names(ops[i]) \cap Elems(d.manifest.order) = {}

UntouchedKept(d) ==
    \A id \in Elems(snap.manifest.order) \ UNION {Names(ops[i]) : i \in DOMAIN ops} :
        id \in Elems(d.manifest.order) /\ HashOf(d, id) = HashOf(snap, id)

(* _precommit_validate, for a document whose index is built. *)
CommitChecks(d) ==
    CountAgrees(d) /\ RemovedAreGone(d) /\ AllResolve(d) /\ UntouchedKept(d)

(* The snapshot holds as many paragraphs as it lists IDs. *)
CanRollBack == Len(snap.dom) = Len(snap.manifest.order)

SlipContentsShared ==
    [snap EXCEPT !.manifest = Rebound(snap.manifest.order, snap.dom, snap.manifest.next),
                 !.body     = doc.body,
                 !.cached   = FALSE,
                 !.records  = <<>>]

SlipCounterRecounted ==
    [snap EXCEPT !.manifest = Rebound(snap.manifest.order, snap.dom, Len(snap.manifest.order) + 1),
                 !.cached   = FALSE,
                 !.records  = <<>>]

(* _rollback: the serialized tree is parsed again and the listed IDs are    *)
(* bound to its paragraphs in document order.  The nodes of the new tree   *)
(* keep the names of those they stand for: nothing refers to the old ones. *)
RolledBack ==
    [snap EXCEPT !.manifest = Rebound(snap.manifest.order, snap.dom, snap.manifest.next),
                 !.cached   = FALSE,
                 !.records  = <<>>]

SlipLimitOffByOne ==
    LET all == log \o pending
    IN  SubSeq(all, 1, IF Len(all) < LogLimit THEN Len(all) ELSE LogLimit - 1)

(* _flush_log: the log takes entries until it is full and drops the rest. *)
Flushed ==
    LET all == log \o pending
    IN  SubSeq(all, 1, IF Len(all) < LogLimit THEN Len(all) ELSE LogLimit)

(* _failure_context: the first operation without a result, or the last. *)
Blamed ==
    LET open == DOMAIN ops \ DOMAIN results
    IN  IF open = {} THEN Len(ops)
        ELSE CHOOSE i \in open : \A j \in open : i <= j
-----------------------------------------------------------------------------
NoFailure == [audited |-> FALSE]
NoBatch == [status |-> "none", blamed |-> 0]

BatchReset ==
    /\ ops' = <<>> /\ todo' = {} /\ cursor' = <<>> /\ results' = <<>>
    /\ delta' = 0 /\ pending' = <<>> /\ snap' = Opened /\ failure' = NoFailure

BatchInit ==
    /\ Init
    /\ phase = "idle"
    /\ ops = <<>> /\ todo = {} /\ cursor = <<>> /\ results = <<>>
    /\ delta = 0 /\ pending = <<>> /\ snap = Opened /\ failure = NoFailure
    /\ log = <<>>
    /\ last = NoBatch
    /\ calls = 0

Batches == UNION {[1..n -> Operations] : n \in 0..MaxOps}

(* The bounds on what a batch may ask for. *)
WithinBounds(b) ==
    /\ doc.fresh - 1 + Cardinality(UNION {{i} \X DOMAIN b[i].shape : i \in DOMAIN b}) <= MaxNodes
    /\ \A i \in DOMAIN b : \A id \in Names(b[i]) \cap Targets :
         /\ MayHold(id, b[i].shape)
         /\ b[i].op = "text" =>
              \A n \in Subtrees(doc, {doc.manifest.byId[id]}) :
                  Len(doc.body[n]) + Len(b) <= MaxMarks

(* Calls of the document outside a batch. *)
CallerEdits ==
    /\ phase = "idle" /\ calls < MaxCalls
    /\ Insert \/ Replace \/ Delete \/ EditText
    /\ calls' = calls + 1
    /\ UNCHANGED <<batchVars, log, last>>

CallerReads ==
    /\ phase = "idle"
    /\ Read
    /\ UNCHANGED <<batchVars, log, last, calls>>

(* _prevalidate or _build_plan raises: nothing has been done. *)
Reject ==
    /\ phase = "idle" /\ calls < MaxCalls
    /\ \E b \in Batches : WithinBounds(b) /\ ~Accepted(b)
    /\ last' = [NoBatch EXCEPT !.status = "rejected"]
    /\ calls' = calls + 1
    /\ UNCHANGED <<doc, batchVars, log>>

(* _snapshot raises: some listed ID does not resolve. *)
SnapshotFails ==
    /\ phase = "idle" /\ calls < MaxCalls
    /\ \E b \in Batches : WithinBounds(b) /\ Accepted(b)
    /\ ~AllResolve(doc)
    /\ last' = [NoBatch EXCEPT !.status = "no snapshot"]
    /\ calls' = calls + 1
    /\ UNCHANGED <<doc, batchVars, log>>

(* Prevalidation, the plan and the snapshot succeed. *)
Start ==
    /\ phase = "idle" /\ calls < MaxCalls
    /\ AllResolve(doc)
    /\ \E b \in Batches :
         /\ WithinBounds(b) /\ Accepted(b)
         /\ ops' = b
         /\ todo' = Plan(b)
         /\ cursor' = [id \in UNION {Names(b[i]) : i \in DOMAIN b} |-> id]
    /\ phase' = "executing"
    /\ snap' = doc
    /\ last' = NoBatch
    /\ calls' = calls + 1
    /\ UNCHANGED <<doc, results, delta, pending, failure, log>>

SlipReported(d, shape) ==
    LET n == Len(Tops(d, shape)) IN [j \in 1..n |-> d.manifest.next + n - j]

(* The IDs an insertion reports, in item order. *)
NewIds(d, shape) == NextIds(d.manifest, Len(Tops(d, shape)))

SlipDeleteCountsOne(o, new) ==
    CASE o.op = "replace_para" -> Len(new) - 1
      [] o.op = "delete_para"  -> -1
      [] OTHER                 -> Len(new)

(* What an operation adds to expected_delta, given the IDs it brought. *)
Delta(o, new) ==
    CASE o.op = "replace_para" -> Len(new) - 1
      [] o.op = "delete_para"  -> -Len(o.targets)
      [] OTHER                 -> Len(new)

SlipFirstInserted(after, anchor, new) == [after EXCEPT ![anchor] = new[1]]

(* after_anchor moves on to the last paragraph that was inserted. *)
Advanced(after, anchor, new) == [after EXCEPT ![anchor] = new[Len(new)]]

(* A step has been executed: its result, its log entry, the count. *)
Executed(s, new) ==
    /\ todo' = todo \ {s}
    /\ results' = [i \in DOMAIN results \cup {s.seq} |->
                      IF i = s.seq THEN new ELSE results[i]]
    /\ pending' = Append(pending, [seq |-> s.seq, ok |-> TRUE])
    /\ delta' = delta + Delta(ops[s.seq], new)
    /\ UNCHANGED <<phase, ops, snap, failure, log, last, calls>>

(* insert_para_before: the preview of the anchor is read first, so the     *)
(* index is built; the previews of the new paragraphs build it again.      *)
ExecInsertBefore(s) ==
    LET o == ops[s.seq]
        d == EnsureIndex(doc)
    IN  /\ phase = "executing" /\ IsNext(s) /\ o.op = "insert_para_before"
        /\ HasRecord(d, s.anchor)
        /\ doc' = EnsureIndex(InsertParaBefore(d, s.anchor, o.shape, s.seq))
        /\ Executed(s, NewIds(d, o.shape))
        /\ UNCHANGED cursor

(* insert_para_after: after the last paragraph the anchor's earlier        *)
(* insert_para_after steps have put there.                                 *)
ExecInsertAfter(s) ==
    LET o == ops[s.seq]
        d == EnsureIndex(doc)
        new == NewIds(d, o.shape)
    IN  /\ phase = "executing" /\ IsNext(s) /\ o.op = "insert_para_after"
        /\ HasRecord(d, s.anchor) /\ Resolves(d, cursor[s.anchor])
        /\ doc' = EnsureIndex(InsertParaAfter(d, cursor[s.anchor], o.shape, s.seq))
        /\ cursor' = Advanced(cursor, s.anchor, new)
        /\ Executed(s, new)

(* _exec_text_op resolves the anchor and edits; no index is involved. *)
ExecText(s) ==
    LET t == doc.manifest.byId[s.anchor]
    IN  /\ phase = "executing" /\ IsNext(s) /\ ops[s.seq].op = "text"
        /\ Resolves(doc, s.anchor)
        /\ \E hit \in SUBSET Boxed(doc, t), gone \in SUBSET Boxed(doc, t) :
             doc' = TextEdit(doc, s.anchor, s.seq, hit, gone)
        /\ Executed(s, <<>>)
        /\ UNCHANGED cursor

ExecReplace(s) ==
    LET o == ops[s.seq]
        d == EnsureIndex(doc)
    IN  /\ phase = "executing" /\ IsNext(s) /\ o.op = "replace_para"
        /\ HasRecord(d, s.anchor)
        /\ doc' = EnsureIndex(ReplacePara(d, s.anchor, o.shape, s.seq))
        /\ Executed(s, NewIds(d, o.shape))
        /\ UNCHANGED cursor

(* delete_para: every target is previewed, then all are deleted. *)
ExecDelete(s) ==
    LET o == ops[s.seq]
        d == EnsureIndex(doc)
    IN  /\ phase = "executing" /\ IsNext(s) /\ o.op = "delete_para"
        /\ \A id \in Names(o) : HasRecord(d, id)
        /\ doc' = DeletePara(d, Names(o))
        /\ Executed(s, <<>>)
        /\ UNCHANGED cursor

(* An exception ends the execution.  One that is no DocxKnifeError goes    *)
(* through unwrapped and leaves no audit event.                            *)
Raise(audited) ==
    /\ phase' = "failing"
    /\ failure' = [audited |-> audited]
    /\ UNCHANGED <<ops, todo, cursor, results, delta, pending, snap, log, last, calls>>

(* A paragraph the step needs is not there any more. *)
ExecFindsNothing(s) ==
    LET o == ops[s.seq]
        d == IF o.op = "text" THEN doc ELSE EnsureIndex(doc)
    IN  /\ phase = "executing" /\ IsNext(s)
        /\ IF o.op = "text" THEN ~Resolves(d, s.anchor)
           ELSE \E id \in Names(o) : ~HasRecord(d, id)
        /\ doc' = d
        /\ Raise(TRUE)

(* The items do not expand: a content file that is gone, a malformed raw   *)
(* fragment, a text XML cannot hold.                                       *)
ExecContentFails(s) ==
    /\ phase = "executing" /\ IsNext(s) /\ ops[s.seq].op \in Inserting
    /\ HasRecord(EnsureIndex(doc), s.anchor)
    /\ doc' = EnsureIndex(doc)
    /\ \E audited \in BOOLEAN : Raise(audited)

(* A text edit finds no match, or fails after some of its matches. *)
ExecTextFails(s) ==
    LET t == doc.manifest.byId[s.anchor]
    IN  /\ phase = "executing" /\ IsNext(s) /\ ops[s.seq].op = "text"
        /\ Resolves(doc, s.anchor)
        /\ \/ doc' = doc
           \/ \E hit \in SUBSET Boxed(doc, t), gone \in SUBSET Boxed(doc, t) :
                doc' = TextEdit(doc, s.anchor, s.seq, hit, gone)
        /\ \E audited \in BOOLEAN : Raise(audited)

(* Commit: the checks pass, the log takes what still fits. *)
Commit ==
    LET d == EnsureIndex(doc)
    IN  /\ phase = "executing" /\ todo = {}
        /\ CommitChecks(d)
        /\ doc' = d
        /\ log' = Flushed
        /\ last' = [NoBatch EXCEPT !.status = "committed"]
        /\ phase' = "idle"
        /\ BatchReset
        /\ UNCHANGED calls

ChecksFail ==
    LET d == EnsureIndex(doc)
    IN  /\ phase = "executing" /\ todo = {}
        /\ ~CommitChecks(d)
        /\ doc' = d
        /\ Raise(TRUE)

SlipRetried ==
    /\ phase = "failing" /\ CanRollBack
    /\ doc' = RolledBack
    /\ phase' = "executing"
    /\ todo' = Plan(ops)
    /\ cursor' = [id \in DOMAIN cursor |-> id]
    /\ results' = <<>> /\ delta' = 0 /\ pending' = <<>> /\ failure' = NoFailure
    /\ UNCHANGED <<ops, snap, log, last, calls>>

(* The audit event counts the paragraphs, which builds the index. *)
RollBack ==
    LET audit == failure.audited /\ Len(log) < LogLimit
    IN  /\ phase = "failing" /\ CanRollBack
        /\ doc' = IF audit THEN EnsureIndex(RolledBack) ELSE RolledBack
        /\ log' = IF audit THEN Append(log, [seq |-> Blamed, ok |-> FALSE]) ELSE log
        /\ last' = [status |-> "failed", blamed |-> Blamed]
        /\ phase' = "idle"
        /\ BatchReset
        /\ UNCHANGED calls

(* The listed IDs and the paragraphs differ in number: _rollback raises     *)
(* after it has put the new tree in place and before it has a manifest for *)
(* it.  Nothing the document does from then on is modelled.                *)
RollbackFails ==
    /\ phase = "failing" /\ ~CanRollBack
    /\ phase' = "split"
    /\ last' = [status |-> "split", blamed |-> Blamed]
    /\ UNCHANGED <<doc, ops, todo, cursor, results, delta, pending, snap, failure, log, calls>>

ExecStep ==
    \E s \in todo : \/ ExecFindsNothing(s) \/ ExecContentFails(s) \/ ExecTextFails(s)
                    \/ ExecInsertBefore(s) \/ ExecInsertAfter(s) \/ ExecText(s)
                    \/ ExecReplace(s) \/ ExecDelete(s)

(* The steps of a running batch_edit call. *)
Running == ExecStep \/ Commit \/ ChecksFail \/ RollBack \/ RollbackFails

BatchNext == CallerEdits \/ CallerReads \/ Reject \/ SnapshotFails \/ Start \/ Running

BatchSpec == BatchInit /\ [][BatchNext]_vars

(* The thread that called batch_edit runs it to its end. *)
FairBatchSpec == BatchSpec /\ WF_vars(Running)
=============================================================================
