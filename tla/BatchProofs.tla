---------------------------- MODULE BatchProofs -----------------------------
(***************************************************************************)
(* The atomic batch, for every file, every set of operations and every     *)
(* bound: the manifest stays sound through plans, failures and rollbacks,  *)
(* and seen from outside the IDs obey the ledger of AnchorLedger.          *)
(*                                                                         *)
(* A rollback builds a manifest of its own from the snapshot, and rewinds  *)
(* the counter, so neither fact follows from the document's own calls.     *)
(* The invariant adds to DocInv what a rollback and a commit need to know  *)
(* of the snapshot: it is a document too, and the manifest of a batch in   *)
(* flight follows the one in the snapshot.                                 *)
(***************************************************************************)
EXTENDS BatchProperties, DocumentProofs

InFlight == phase \in {"executing", "failing"}

(* The planned steps are about operations of the batch. *)
PlanOK ==
    /\ ops \in Seq(Operations)
    /\ \A s \in todo : s.seq \in DOMAIN ops

(* The inductive invariant. *)
BatchInv ==
    /\ DocInv(doc)
    /\ DocInv(snap)
    /\ InFlight => Follows(snap.manifest, doc.manifest)
    /\ PlanOK
-----------------------------------------------------------------------------
(* An operation of the batch brings a shape, and its number is a number. *)
LEMMA StepOperation ==
    ASSUME PlanOK, NEW s \in todo
    PROVE  s.seq \in Nat /\ IsShape(ops[s.seq].shape)
<1>1. ops \in Seq(Operations) /\ s.seq \in DOMAIN ops
  BY DEF PlanOK
<1>2. Len(ops) \in Nat /\ DOMAIN ops = 1..Len(ops) /\ ops \in [1..Len(ops) -> Operations]
  BY <1>1, LenProperties
<1>3. ops[s.seq] \in Operations
  BY <1>1, <1>2
<1> QED BY <1>1, <1>2, <1>3, BatchAssumption

(* HasRecord implies that the ID resolves. *)
LEMMA RecordResolves ==
    ASSUME NEW d, NEW id, HasRecord(d, id) PROVE Resolves(d, id)
BY DEF HasRecord

(* Raising leaves the plan and the snapshot alone. *)
LEMMA RaiseKeeps ==
    ASSUME NEW audited, Raise(audited)
    PROVE  phase' = "failing" /\ UNCHANGED <<ops, todo, snap>>
BY DEF Raise

(* A step of the plan, done or failed, takes the document to one that may  *)
(* come after it, and stays inside the batch.                              *)
LEMMA ExecStepKeeps ==
    ASSUME BatchInv, phase = "executing", ExecStep
    PROVE  /\ Step(doc, doc')
           /\ phase' \in {"executing", "failing"} /\ snap' = snap
           /\ ops' = ops /\ todo' \subseteq todo
<1> USE DEF BatchInv
<1>1. PICK s \in todo :
        \/ ExecInsertBefore(s) \/ ExecInsertAfter(s) \/ ExecText(s)
        \/ ExecReplace(s) \/ ExecDelete(s)
        \/ ExecFindsNothing(s) \/ ExecContentFails(s) \/ ExecTextFails(s)
  BY DEF ExecStep
<1>2. s.seq \in Nat /\ IsShape(ops[s.seq].shape)
  BY StepOperation
<1>3. PICK d : d = EnsureIndex(doc)
  OBVIOUS
<1>4. Step(doc, d) /\ DocInv(d)
  BY <1>3, EnsureIndexStep DEF Step
<1>5. Step(doc, doc)
  BY StepItself
<1>6. ASSUME NEW e, Step(d, e) PROVE Step(doc, e) /\ Step(doc, EnsureIndex(e))
  <2>1. Step(doc, e)
    BY <1>4, <1>6, StepTransitive
  <2>2. Step(e, EnsureIndex(e))
    BY <1>6, EnsureIndexStep DEF Step
  <2> QED BY <2>1, <2>2, StepTransitive
<1>7. CASE ExecInsertBefore(s)
  <2>1. /\ Resolves(d, s.anchor)
        /\ doc' = EnsureIndex(InsertParaBefore(d, s.anchor, ops[s.seq].shape, s.seq))
    BY <1>3, <1>7, RecordResolves DEF ExecInsertBefore
  <2>2. Step(doc, doc')
    BY <2>1, <1>2, <1>4, <1>6, InsertBeforeStep
  <2> QED BY <2>2, <1>7 DEF ExecInsertBefore, Executed
<1>8. CASE ExecInsertAfter(s)
  <2>1. /\ Resolves(d, cursor[s.anchor])
        /\ doc' = EnsureIndex(InsertParaAfter(d, cursor[s.anchor], ops[s.seq].shape, s.seq))
    BY <1>3, <1>8 DEF ExecInsertAfter
  <2>2. Step(doc, doc')
    BY <2>1, <1>2, <1>4, <1>6, InsertAfterStep
  <2> QED BY <2>2, <1>8 DEF ExecInsertAfter, Executed
<1>9. CASE ExecText(s)
  <2>1. PICK hit, gone : doc' = TextEdit(doc, s.anchor, s.seq, hit, gone)
    BY <1>9 DEF ExecText
  <2>2. Step(doc, doc')
    BY <2>1, <1>2, TextEditStep
  <2> QED BY <2>2, <1>9 DEF ExecText, Executed
<1>10. CASE ExecReplace(s)
  <2>1. /\ Resolves(d, s.anchor)
        /\ doc' = EnsureIndex(ReplacePara(d, s.anchor, ops[s.seq].shape, s.seq))
    BY <1>3, <1>10, RecordResolves DEF ExecReplace
  <2>2. Step(doc, doc')
    BY <2>1, <1>2, <1>4, <1>6, ReplaceStep
  <2> QED BY <2>2, <1>10 DEF ExecReplace, Executed
<1>11. CASE ExecDelete(s)
  <2>1. doc' = DeletePara(d, Names(ops[s.seq]))
    BY <1>3, <1>11 DEF ExecDelete
  <2>2. Step(doc, doc')
    BY <2>1, <1>4, <1>6, DeleteStep
  <2> QED BY <2>2, <1>11 DEF ExecDelete, Executed
<1>12. CASE ExecFindsNothing(s)
  <2>1. doc' = doc \/ doc' = d
    BY <1>3, <1>12 DEF ExecFindsNothing
  <2>2. Raise(TRUE)
    BY <1>12 DEF ExecFindsNothing
  <2> QED BY <2>1, <2>2, <1>4, <1>5, RaiseKeeps
<1>13. CASE ExecContentFails(s)
  <2>1. doc' = d
    BY <1>3, <1>13 DEF ExecContentFails
  <2>2. PICK audited : Raise(audited)
    BY <1>13 DEF ExecContentFails
  <2> QED BY <2>1, <2>2, <1>4, RaiseKeeps
<1>14. CASE ExecTextFails(s)
  <2>1. doc' = doc \/ \E hit, gone : doc' = TextEdit(doc, s.anchor, s.seq, hit, gone)
    BY <1>14 DEF ExecTextFails
  <2>2. Step(doc, doc')
    BY <2>1, <1>2, <1>5, TextEditStep
  <2>3. PICK audited : Raise(audited)
    BY <1>14 DEF ExecTextFails
  <2> QED BY <2>2, <2>3, RaiseKeeps
<1> QED BY <1>1, <1>7, <1>8, <1>9, <1>10, <1>11, <1>12, <1>13, <1>14

(* The document a rollback puts back: the IDs and the counter of the        *)
(* snapshot, bound anew.                                                    *)
LEMMA RolledBackOK ==
    ASSUME DocInv(snap), CanRollBack
    PROVE  /\ DocInv(RolledBack)
           /\ Ids(RolledBack.manifest) = Ids(snap.manifest)
           /\ RolledBack.manifest.next = snap.manifest.next
<1>1. PICK order, dom, next :
          order = snap.manifest.order /\ dom = snap.dom /\ next = snap.manifest.next
  OBVIOUS
<1>2. /\ IsManifest(snap.manifest) /\ Sound(snap.manifest)
      /\ snap.fresh \in Nat \ {0}
      /\ dom \in Seq(1..(snap.fresh - 1)) /\ IsOneToOne(dom)
  BY <1>1 DEF DocInv, ManifestOK, TreeOK
<1>3. /\ order \in Seq(Nat \ {0}) /\ IsOneToOne(order) /\ Elems(order) = Ids(snap.manifest)
      /\ next \in Nat \ {0} /\ \A i \in Elems(order) : i < next
      /\ Len(order) = Len(dom)
  BY <1>1, <1>2 DEF IsManifest, Sound, CanRollBack
<1>4. dom \in Seq(Nat) /\ Elems(dom) \subseteq 1..(snap.fresh - 1)
  <2>1. 1..(snap.fresh - 1) \subseteq Nat
    BY <1>2
  <2> QED BY <2>1, <1>2, SeqMono, ElemsInSet
<1>5. PICK m : m = Rebound(order, dom, next)
  OBVIOUS
<1>6. /\ IsManifest(m) /\ Sound(m) /\ Ids(m) = Elems(order)
      /\ DOMAIN m.byNode = Elems(dom) /\ m.next = next
  BY <1>2, <1>3, <1>4, <1>5, ReboundSound
<1>7. PICK e : e = RolledBack
  OBVIOUS
<1>8. e = [dom |-> snap.dom, host |-> snap.host, body |-> snap.body, fresh |-> snap.fresh,
           manifest |-> m, cached |-> FALSE, records |-> <<>>]
  <2>1. PICK c, r : c = FALSE /\ r = <<>>
    OBVIOUS
  <2>2. e = [snap EXCEPT !.manifest = m, !.cached = c, !.records = r]
    BY <2>1, <1>1, <1>5, <1>7 DEF RolledBack
  <2>3. e = [dom |-> snap.dom, host |-> snap.host, body |-> snap.body, fresh |-> snap.fresh,
             manifest |-> m, cached |-> c, records |-> r]
    BY <2>2 DEF DocInv, IsDocument
  <2> QED BY <2>1, <2>3
<1>9. IsDocument(e)
  BY <1>8 DEF IsDocument
<1>10. TreeOK(e)
  BY <1>8, EmptySeq DEF DocInv, TreeOK
<1>11. ManifestOK(e.manifest, e.fresh)
  BY <1>4, <1>6, <1>8 DEF ManifestOK
<1>12. e.manifest = m
  BY <1>8
<1> QED BY <1>1, <1>3, <1>6, <1>7, <1>9, <1>10, <1>11, <1>12 DEF DocInv
-----------------------------------------------------------------------------
(* The invariant is inductive, and every step is a call of the ledger. *)

(* What the ledger sees of two manifests, one after the other. *)
Issues(m, r) ==
    /\ r.next \in Nat \ {0} /\ m.next <= r.next
    /\ Ids(r) \subseteq Ids(m) \cup m.next..(r.next - 1)

LEMMA FollowsIssues ==
    ASSUME NEW m, NEW r, IsManifest(m), IsManifest(r), Sound(r), Follows(m, r)
    PROVE  Issues(m, r)
<1>1. m.next \in Nat \ {0} /\ r.next \in Nat \ {0} /\ m.next <= r.next
  BY DEF IsManifest, Follows
<1>2. ASSUME NEW i \in Ids(r) PROVE i \in Ids(m) \cup m.next..(r.next - 1)
  <2>1. i \in 1..(r.next - 1)
    BY DEF Sound
  <2>2. i \in Ids(m) \/ i >= m.next
    BY DEF Follows
  <2> QED BY <1>1, <2>1, <2>2
<1> QED BY <1>1, <1>2 DEF Issues

LEMMA StepIssues ==
    ASSUME NEW d, NEW e, DocInv(d), Step(d, e)
    PROVE  Issues(d.manifest, e.manifest)
BY FollowsIssues DEF Step, DocInv, ManifestOK

LEMMA IssuesItself ==
    ASSUME NEW d, DocInv(d) PROVE Issues(d.manifest, d.manifest)
BY StepIssues, StepItself

(* A batch at rest has no plan. *)
LEMMA ResetPlan ==
    ASSUME BatchReset PROVE PlanOK' /\ snap' = Opened
<1>1. ops' = <<>> /\ todo' = {} /\ snap' = Opened
  BY DEF BatchReset
<1> QED BY <1>1, EmptySeq DEF PlanOK

(* Calls of the document between batches. *)
LEMMA CallerStep ==
    ASSUME BatchInv, CallerEdits \/ CallerReads
    PROVE  BatchInv' /\ Issues(Visible, Visible')
<1>1. phase = "idle" /\ Next /\ UNCHANGED batchVars
  BY DEF CallerEdits, CallerReads, Next
<1>2. Step(doc, doc')
  BY <1>1, NextIsStep DEF BatchInv
<1>3. phase' = phase /\ snap' = snap /\ ops' = ops /\ todo' = todo
  BY <1>1 DEF batchVars
<1>4. BatchInv'
  BY <1>1, <1>2, <1>3 DEF BatchInv, Step, InFlight, PlanOK
<1>5. Issues(Visible, Visible')
  BY <1>1, <1>2, <1>3, StepIssues DEF BatchInv, Visible
<1> QED BY <1>4, <1>5

(* A batch that is refused changes nothing. *)
LEMMA RefusedStep ==
    ASSUME BatchInv, Reject \/ SnapshotFails
    PROVE  BatchInv' /\ Issues(Visible, Visible')
<1>1. /\ phase = "idle" /\ doc' = doc
      /\ phase' = phase /\ snap' = snap /\ ops' = ops /\ todo' = todo
  BY DEF Reject, SnapshotFails, batchVars
<1>2. BatchInv'
  BY <1>1 DEF BatchInv, InFlight, PlanOK
<1>3. Issues(Visible, Visible')
  BY <1>1, IssuesItself DEF BatchInv, Visible
<1> QED BY <1>2, <1>3

(* The start of a batch: the snapshot is the document. *)
LEMMA StartStep ==
    ASSUME BatchInv, Start
    PROVE  BatchInv' /\ Issues(Visible, Visible')
<1>1. /\ phase = "idle" /\ phase' = "executing" /\ snap' = doc /\ doc' = doc
  BY DEF Start
<1>2. PICK b \in Batches : ops' = b /\ todo' = Plan(b)
  BY DEF Start
<1>3. PlanOK'
  <2>1. PICK n \in 0..MaxOps : b \in [1..n -> Operations]
    BY DEF Batches
  <2>2. b \in Seq(Operations)
    <3>1. n \in Nat
      BY BatchAssumption
    <3> QED BY <2>1, <3>1, FunctionIsSeq
  <2>3. \A s \in Plan(b) : s.seq \in DOMAIN b
    BY DEF Plan
  <2> QED BY <1>2, <2>2, <2>3 DEF PlanOK
<1>4. Follows(doc.manifest, doc.manifest)
  BY FollowsItself DEF BatchInv, DocInv, ManifestOK
<1>5. BatchInv'
  BY <1>1, <1>3, <1>4 DEF BatchInv
<1>6. Issues(Visible, Visible')
  BY <1>1, IssuesItself DEF BatchInv, Visible
<1> QED BY <1>5, <1>6

(* Inside a batch, nothing is seen. *)
LEMMA InsideStep ==
    ASSUME BatchInv, ExecStep \/ ChecksFail
    PROVE  BatchInv' /\ Issues(Visible, Visible')
<1>1. phase = "executing"
  BY DEF ExecStep, ExecInsertBefore, ExecInsertAfter, ExecText, ExecReplace, ExecDelete,
         ExecFindsNothing, ExecContentFails, ExecTextFails, ChecksFail
<1>2. /\ Step(doc, doc')
      /\ phase' \in {"executing", "failing"} /\ snap' = snap
      /\ ops' = ops /\ todo' \subseteq todo
  <2>1. CASE ExecStep
    BY <1>1, <2>1, ExecStepKeeps
  <2>2. CASE ChecksFail
    <3>1. doc' = EnsureIndex(doc) /\ Raise(TRUE)
      BY <2>2 DEF ChecksFail
    <3> QED BY <3>1, EnsureIndexStep, RaiseKeeps DEF BatchInv
  <2> QED BY <2>1, <2>2
<1>3. Step(snap, doc) /\ DocInv(snap)
  BY <1>1 DEF BatchInv, InFlight, Step
<1>4. Step(snap, doc')
  BY <1>2, <1>3, StepTransitive
<1>5. BatchInv'
  BY <1>2, <1>3, <1>4 DEF BatchInv, InFlight, PlanOK, Step
<1>6. Issues(Visible, Visible')
  BY <1>1, <1>2, <1>3, IssuesItself DEF Visible
<1> QED BY <1>5, <1>6

(* A commit shows what the batch has done. *)
LEMMA CommitStepOK ==
    ASSUME BatchInv, Commit
    PROVE  BatchInv' /\ Issues(Visible, Visible')
<1>1. phase = "executing" /\ phase' = "idle" /\ doc' = EnsureIndex(doc) /\ BatchReset
  BY DEF Commit
<1>2. Step(snap, doc) /\ DocInv(snap) /\ Step(doc, doc')
  BY <1>1, EnsureIndexStep DEF BatchInv, InFlight, Step
<1>3. Step(snap, doc')
  BY <1>2, StepTransitive
<1>4. BatchInv'
  BY <1>1, <1>3, ResetPlan, OpenedOK DEF BatchInv, InFlight, Step
<1>5. Issues(Visible, Visible')
  BY <1>1, <1>2, <1>3, StepIssues DEF Visible
<1> QED BY <1>4, <1>5

(* A rollback shows the IDs of the snapshot, and perhaps new ones. *)
LEMMA RollBackOK ==
    ASSUME BatchInv, RollBack
    PROVE  BatchInv' /\ Issues(Visible, Visible')
<1>1. PICK d : d = RolledBack
  OBVIOUS
<1>2. /\ phase = "failing" /\ phase' = "idle" /\ CanRollBack /\ BatchReset
      /\ doc' = d \/ doc' = EnsureIndex(d)
  BY <1>1 DEF RollBack
<1>3. /\ DocInv(snap) /\ DocInv(d)
      /\ Ids(d.manifest) = Ids(snap.manifest) /\ d.manifest.next = snap.manifest.next
  BY <1>1, <1>2, RolledBackOK DEF BatchInv
<1>4. Step(d, doc')
  BY <1>2, <1>3, EnsureIndexStep, StepItself
<1>5. BatchInv'
  BY <1>2, <1>4, ResetPlan, OpenedOK DEF BatchInv, InFlight, Step
<1>6. Issues(d.manifest, doc'.manifest)
  BY <1>3, <1>4, StepIssues
<1>7. Issues(snap.manifest, doc'.manifest)
  BY <1>3, <1>6 DEF Issues
<1>8. Visible = snap.manifest /\ Visible' = doc'.manifest
  BY <1>2 DEF Visible
<1> QED BY <1>5, <1>7, <1>8

(* A rollback that raises leaves the batch's own document behind. *)
LEMMA RollbackFailsOK ==
    ASSUME BatchInv, RollbackFails
    PROVE  BatchInv' /\ Issues(Visible, Visible')
<1>1. /\ phase = "failing" /\ phase' = "split" /\ doc' = doc /\ snap' = snap
      /\ ops' = ops /\ todo' = todo
  BY DEF RollbackFails
<1>2. Step(snap, doc) /\ DocInv(snap)
  BY <1>1 DEF BatchInv, InFlight, Step
<1>3. BatchInv'
  BY <1>1 DEF BatchInv, InFlight, PlanOK
<1>4. Issues(Visible, Visible')
  BY <1>1, <1>2, StepIssues DEF Visible
<1> QED BY <1>3, <1>4

LEMMA BatchNextStep ==
    ASSUME BatchInv, BatchNext
    PROVE  BatchInv' /\ Issues(Visible, Visible')
BY CallerStep, RefusedStep, StartStep, InsideStep, CommitStepOK, RollBackOK, RollbackFailsOK
   DEF BatchNext, Running

LEMMA BatchStutter ==
    ASSUME BatchInv, UNCHANGED vars
    PROVE  BatchInv'
<1>1. doc' = doc /\ phase' = phase /\ snap' = snap /\ ops' = ops /\ todo' = todo
  BY DEF vars
<1> QED BY <1>1 DEF BatchInv, InFlight, PlanOK

LEMMA BatchStarts ==
    ASSUME BatchInit PROVE BatchInv
<1>1. doc = Opened /\ snap = Opened /\ phase = "idle" /\ ops = <<>> /\ todo = {}
  BY DEF BatchInit, Init
<1> QED BY <1>1, OpenedOK, EmptySeq DEF BatchInv, InFlight, PlanOK

(* BatchInv is an inductive invariant of the batch. *)
THEOREM BatchInvariant == BatchSpec => []BatchInv
<1>1. BatchInit => BatchInv
  BY BatchStarts
<1>2. BatchInv /\ [BatchNext]_vars => BatchInv'
  BY BatchNextStep, BatchStutter
<1> QED BY <1>1, <1>2, PTL DEF BatchSpec

(* Plans, failures at any step, rollbacks and the caller's own calls leave *)
(* the types as they are.                                                  *)
THEOREM BatchTypeCorrect == BatchSpec => []TypeOK
<1>1. BatchInv => TypeOK
  BY DocInvTyped DEF BatchInv, TypeOK
<1> QED BY <1>1, BatchInvariant, PTL

(* The manifest is sound, also the one a rollback builds.                   *)
THEOREM BatchManifestSound == BatchSpec => []ManifestSound
<1>1. BatchInv => ManifestSound
  BY DEF BatchInv, DocInv, ManifestOK, ManifestSound
<1> QED BY <1>1, BatchInvariant, PTL

(* The batch implements the ledger: although a rollback rewinds the counter *)
(* and batches that fail spend IDs, no ID that a caller has been shown is   *)
(* ever issued again.                                                       *)
THEOREM BatchImplementsLedger == BatchSpec => NeverReused
<1>1. BatchInit => Ledger!LedgerInit
  <2> SUFFICES ASSUME BatchInit PROVE Ledger!LedgerInit
    OBVIOUS
  <2>1. BatchInv /\ phase = "idle"
    BY BatchStarts DEF BatchInit
  <2>2. /\ Visible = doc.manifest
        /\ IsManifest(doc.manifest) /\ Sound(doc.manifest)
    BY <2>1 DEF Visible, BatchInv, DocInv, ManifestOK
  <2>3. /\ Visible.next - 1 \in Nat
        /\ Ids(Visible) \subseteq 1..(Visible.next - 1)
    BY <2>2 DEF IsManifest, Sound
  <2> QED BY <2>3 DEF Ledger!LedgerInit
<1>2. BatchInv /\ [BatchNext]_vars => [Ledger!Call]_<<Ids(Visible), Visible.next - 1>>
  <2>1. ASSUME BatchInv, BatchNext PROVE Ledger!Call
    <3>1. Issues(Visible, Visible')
      BY <2>1, BatchNextStep
    <3>2. Visible.next \in Nat
      BY <2>1 DEF Visible, BatchInv, DocInv, ManifestOK, IsManifest
    <3>3. /\ Visible'.next \in Nat \ {0} /\ Visible.next <= Visible'.next
          /\ Ids(Visible') \subseteq Ids(Visible) \cup Visible.next..(Visible'.next - 1)
      BY <3>1 DEF Issues
    <3>4. /\ (Visible.next - 1)' \in Nat
          /\ Visible.next - 1 <= (Visible.next - 1)'
          /\ Ids(Visible)' \subseteq
               Ids(Visible) \cup ((Visible.next - 1) + 1)..((Visible.next - 1)')
      BY <3>2, <3>3 DEF Ids
    <3> QED BY <3>4 DEF Ledger!Call
  <2>2. ASSUME UNCHANGED vars
        PROVE  UNCHANGED <<Ids(Visible), Visible.next - 1>>
    <3>1. doc' = doc /\ phase' = phase /\ snap' = snap
      BY <2>2 DEF vars
    <3> QED BY <3>1 DEF Visible, Ids
  <2> QED BY <2>1, <2>2
<1> QED BY <1>1, <1>2, BatchInvariant, PTL DEF BatchSpec, NeverReused, Ledger!LedgerSpec
(* A run is a sequence without repetitions. *)
LEMMA RunIs ==
    ASSUME NEW S, NEW s \in Runs(S)
    PROVE  s \in Seq(S) /\ IsOneToOne(s)
<1>1. PICK n \in 0..RunLength : s \in [1..n -> S]
  BY DEF Runs
<1>2. n \in Nat
  BY <1>1 DEF RunLength
<1> QED BY <1>1, <1>2 DEF Runs

(* The loops over a manifest whose nodes are below fresh. *)
LoopsAgree(m, fresh) ==
    /\ \A new \in Runs(fresh..(fresh + RunLength)) : BindNew(m, new) = BindLoop(m, new)
    /\ \A ids \in Runs(1..m.next) : InvalidateAll(m, Elems(ids)) = InvalidateLoop(m, ids)
    /\ LET nodes == [k \in 1..Len(m.order) |-> k]
       IN  Rebound(m.order, nodes, m.next) = ReboundLoop(m.order, nodes, m.next)

LEMMA LoopsOfOne ==
    ASSUME NEW fresh \in Nat \ {0}, NEW m, ManifestOK(m, fresh)
    PROVE  LoopsAgree(m, fresh)
<1>1. IsManifest(m) /\ Sound(m) /\ DOMAIN m.byNode \subseteq 1..(fresh - 1)
  BY DEF ManifestOK
<1>2. ASSUME NEW new \in Runs(fresh..(fresh + RunLength))
      PROVE  BindNew(m, new) = BindLoop(m, new)
  <2>1. PICK F : F = fresh..(fresh + RunLength)
    OBVIOUS
  <2>2. new \in Seq(F) /\ IsOneToOne(new)
    BY <2>1, RunIs
  <2>3. F \subseteq Nat /\ F \cap 1..(fresh - 1) = {}
    BY <2>1 DEF RunLength
  <2>4. new \in Seq(Nat)
    BY <2>2, <2>3, SeqMono
  <2>5. Elems(new) \subseteq F
    BY <2>2, ElemsInSet
  <2>6. Elems(new) \cap DOMAIN m.byNode = {}
    BY <1>1, <2>3, <2>5
  <2> QED BY <1>1, <2>2, <2>4, <2>6, BindLoopIs
<1>3. ASSUME NEW ids \in Runs(1..m.next)
      PROVE  InvalidateAll(m, Elems(ids)) = InvalidateLoop(m, ids)
  <2>1. PICK T : T = 1..m.next
    OBVIOUS
  <2>2. ids \in Seq(T)
    BY <2>1, RunIs
  <2> QED BY <1>1, <2>2, InvalidateLoopIs
<1>4. ASSUME NEW nodes, nodes = [k \in 1..Len(m.order) |-> k]
      PROVE  Rebound(m.order, nodes, m.next) = ReboundLoop(m.order, nodes, m.next)
  <2>1. PICK ids, P, next : ids = m.order /\ P = Nat \ {0} /\ next = m.next
    OBVIOUS
  <2>2. ids \in Seq(P) /\ IsOneToOne(ids) /\ next \in P
    BY <1>1, <2>1 DEF IsManifest, Sound
  <2>3. PICK n \in Nat : n = Len(ids)
    BY <2>2
  <2>4. nodes \in Seq(Nat) /\ Len(nodes) = n /\ \A k \in 1..n : nodes[k] = k
    BY <1>4, <2>1, <2>3
  <2>5. IsOneToOne(nodes)
    BY <2>4 DEF IsOneToOne
  <2>6. \A i \in Elems(ids) : i < next
    BY <1>1, <2>1, <2>2 DEF Sound
  <2>7. CanRebind(ids, nodes, next)
    BY <2>1, <2>2, <2>3, <2>4, <2>5, <2>6 DEF CanRebind
  <2> QED BY <2>1, <2>7, ReboundLoopIs
<1> QED BY <1>2, <1>3, <1>4 DEF LoopsAgree

(* The loops of _register_new_paragraphs, delete_para and _rollback leave   *)
(* the manifest that BindNew, InvalidateAll and Rebound describe, on every  *)
(* manifest a batch can leave behind: what the other theorems say of these  *)
(* three operators they say of the loops.                                   *)
THEOREM BatchLoopsAsWritten == BatchSpec => []LoopsAsWritten
<1>1. BatchInv => LoopsAsWritten
  <2> SUFFICES ASSUME BatchInv PROVE LoopsAsWritten
    OBVIOUS
  <2>1. doc.fresh \in Nat \ {0} /\ ManifestOK(doc.manifest, doc.fresh)
    BY DEF BatchInv, DocInv, TreeOK
  <2>2. LoopsAgree(doc.manifest, doc.fresh)
    BY <2>1, LoopsOfOne
  <2> QED BY <2>2 DEF LoopsAgree, LoopsAsWritten
<1> QED BY <1>1, BatchInvariant, PTL
-----------------------------------------------------------------------------
(***************************************************************************)
(* What batches promise: of a commit, of a rollback and of the change log, *)
(* for every document, batch, plan and failure.                            *)
(*                                                                         *)
(* The first part needs no assumption: which IDs are gone while a batch is *)
(* in flight (PlanInv), and what the log is about to get (LogInv).  The    *)
(* second is about batches that meet no text box (FlatBatch): deleting a   *)
(* paragraph takes the text boxes in it along, and then the counts, the    *)
(* index and the reports of a batch need not be those of the tree any more:*)
(* TLC finds each of the three broken on the instance MCBatch_boxes.       *)
(***************************************************************************)

(* The operations of the batch that have been carried out. *)
Done == DOMAIN ops \ {s.seq : s \in todo}

(* The IDs an operation retires. *)
Gone(o) == IF o.op \in {"replace_para", "delete_para"} THEN Names(o) ELSE {}

(* What holds of a batch in flight: the steps left are steps of the plan,   *)
(* each operation carried out has a result, every ID the batch names was    *)
(* bound and resolved at the snapshot, and of the IDs of the snapshot those *)
(* are gone that an operation carried out has retired, and no others.       *)
PlanInv ==
    /\ todo \subseteq Plan(ops)
    /\ DOMAIN results = Done
    /\ \A i \in DOMAIN ops : /\ Names(ops[i]) \subseteq Ids(snap.manifest)
                             /\ IsOneToOne(ops[i].targets)
    /\ \A i \in Ids(snap.manifest) : Resolves(snap, i)
    /\ Keeps(snap, doc, UNION {Gone(ops[k]) : k \in Done})

(* A batch at rest has reported, counted and logged nothing. *)
AtRest == results = <<>> /\ delta = 0 /\ pending = <<>>

(* The inductive invariant of the batch engine. *)
CommitInv ==
    /\ BatchInv
    /\ Linked(doc) /\ Linked(snap)
    /\ InFlight => PlanInv
    /\ phase = "idle" => AtRest
-----------------------------------------------------------------------------
(* An operation that names one paragraph is filed under that paragraph. *)
LEMMA SingleTarget ==
    ASSUME ops \in Seq(Operations), todo \subseteq Plan(ops), NEW s \in todo,
           ops[s.seq].op # "delete_para"
    PROVE  Names(ops[s.seq]) = {s.anchor}
<1>1. s.seq \in DOMAIN ops /\ s.anchor = Anchor(ops, s.seq)
  BY DEF Plan
<1>2. PICK o : o = ops[s.seq]
  OBVIOUS
<1>3. o \in Operations
  BY <1>1, <1>2, LenProperties
<1>4. Len(o.targets) = 1 /\ o.targets \in Seq(Nat)
  BY <1>2, <1>3, BatchAssumption DEF Operation
<1>5. PICK x : Names(o) = {x}
  <2>1. DOMAIN o.targets = 1..1
    BY <1>4, LenProperties
  <2>2. Names(o) = {o.targets[1]}
    BY <2>1 DEF Names, Elems
  <2> QED BY <2>2
<1>6. s.anchor \in Names(o)
  <2>1. \E id \in Names(o) : \A other \in Names(o) \ {id} : VisitedBefore(ops, id, other)
    BY <1>5
  <2> QED BY <2>1, <1>1, <1>2 DEF Anchor
<1> QED BY <1>2, <1>5, <1>6

(* The steps of a plan are told apart by their operations. *)
LEMMA StepOfOperation ==
    ASSUME todo \subseteq Plan(ops), NEW s \in todo, NEW t \in todo, s.seq = t.seq
    PROVE  s = t
BY DEF Plan

(* A step that leaves the plan has been done. *)
LEMMA OneMoreDone ==
    ASSUME todo \subseteq Plan(ops), NEW s \in todo, ops' = ops, todo' = todo \ {s}
    PROVE  Done' = Done \cup {s.seq} /\ s.seq \in DOMAIN ops /\ s.seq \notin Done
<1>1. \A t \in todo : t.seq \in DOMAIN ops /\ (t.seq = s.seq => t = s)
  BY StepOfOperation DEF Plan
<1> QED BY <1>1 DEF Done

(* What a call leaves of IDs and nodes when the index is built before it    *)
(* and after it.                                                            *)
LEMMA KeepsBetweenReads ==
    ASSUME NEW d, DocInv(d), Linked(d), NEW e, e = EnsureIndex(d),
           NEW f, Step(e, f), Linked(f),
           NEW ids, ids \subseteq Ids(e.manifest), Keeps(e, f, ids),
           NEW g, g = EnsureIndex(f)
    PROVE  /\ Keeps(d, f, ids) /\ Keeps(d, g, ids)
           /\ Linked(g) /\ Step(d, f) /\ Step(d, g)
<1>1. Step(d, e) /\ DocInv(e) /\ Keeps(d, e, {})
  BY EnsureIndexStep, EnsuredTree DEF Step
<1>2. Step(f, g) /\ Keeps(f, g, {}) /\ Linked(g)
  BY EnsureIndexStep, EnsuredTree DEF Step
<1>3. Keeps(e, g, ids) /\ Step(e, g)
  <2>1. Keeps(e, g, ids \cup {})
    BY <1>1, <1>2, KeepsTransitive
  <2>2. ids \cup {} = ids
    OBVIOUS
  <2> QED BY <1>1, <1>2, <2>1, <2>2, StepTransitive
<1>a. PICK none : none = {}
  OBVIOUS
<1>4. none \subseteq Ids(d.manifest) /\ none \cup ids = ids /\ Keeps(d, e, none)
  BY <1>a, <1>1
<1>5. Keeps(d, f, none \cup ids) /\ Keeps(d, g, none \cup ids)
  BY <1>1, <1>3, <1>4, KeepsTransitive
<1>6. Step(d, f) /\ Step(d, g)
  BY <1>1, <1>3, StepTransitive
<1> QED BY <1>2, <1>4, <1>5, <1>6
-----------------------------------------------------------------------------
(* The steps of a batch in flight. *)

(* A step that is carried out retires the IDs its operation is to retire,   *)
(* and no other.                                                            *)
LEMMA StepsRetireTheirs ==
    ASSUME BatchInv, Linked(doc), todo \subseteq Plan(ops), NEW s \in todo,
           \/ ExecInsertBefore(s) \/ ExecInsertAfter(s) \/ ExecText(s)
           \/ ExecReplace(s) \/ ExecDelete(s)
    PROVE  Linked(doc') /\ Keeps(doc, doc', Gone(ops[s.seq])) /\ Step(doc, doc')
<1>1. PICK o : o = ops[s.seq]
  OBVIOUS
<1>2. s.seq \in Nat /\ IsShape(o.shape)
  BY <1>1, StepOperation DEF BatchInv
<1>3. PICK d : d = EnsureIndex(doc)
  OBVIOUS
<1>4. DocInv(doc) /\ DocInv(d) /\ Linked(d)
  BY <1>3, EnsureIndexStep, EnsuredTree DEF Step, BatchInv
<1>5. CASE ExecInsertBefore(s)
  <2>1. PICK f : f = InsertParaBefore(d, s.anchor, o.shape, s.seq)
    OBVIOUS
  <2>2. Resolves(d, s.anchor) /\ doc' = EnsureIndex(f) /\ Gone(o) = {}
    BY <1>1, <1>3, <1>5, <2>1, RecordResolves DEF ExecInsertBefore, Gone
  <2>3. Step(d, f)
    BY <1>2, <1>4, <2>1, <2>2, InsertBeforeStep
  <2>4. Linked(f) /\ Keeps(d, f, {})
    BY <1>2, <1>4, <2>1, <2>2, InsertedTree
  <2> QED BY <1>1, <1>3, <1>4, <2>2, <2>3, <2>4, KeepsBetweenReads
<1>6. CASE ExecInsertAfter(s)
  <2>1. PICK f, at : at = cursor[s.anchor] /\ f = InsertParaAfter(d, at, o.shape, s.seq)
    OBVIOUS
  <2>2. Resolves(d, at) /\ doc' = EnsureIndex(f) /\ Gone(o) = {}
    BY <1>1, <1>3, <1>6, <2>1 DEF ExecInsertAfter, Gone
  <2>3. Step(d, f)
    BY <1>2, <1>4, <2>1, <2>2, InsertAfterStep
  <2>4. Linked(f) /\ Keeps(d, f, {})
    BY <1>2, <1>4, <2>1, <2>2, InsertedTree
  <2> QED BY <1>1, <1>3, <1>4, <2>2, <2>3, <2>4, KeepsBetweenReads
<1>7. CASE ExecText(s)
  <2>1. Gone(o) = {} /\ Resolves(doc, s.anchor)
    BY <1>1, <1>7 DEF ExecText, Gone
  <2>2. PICK hit, gone \in SUBSET Boxed(doc, doc.manifest.byId[s.anchor]) :
          doc' = TextEdit(doc, s.anchor, s.seq, hit, gone)
    BY <1>7 DEF ExecText
  <2>3. Linked(doc') /\ Keeps(doc, doc', {})
    BY <1>4, <2>1, <2>2, EditedTree
  <2>4. Step(doc, doc')
    BY <1>2, <1>4, <2>2, TextEditStep
  <2> QED BY <1>1, <2>1, <2>3, <2>4
<1>8. CASE ExecReplace(s)
  <2>1. PICK f : f = ReplacePara(d, s.anchor, o.shape, s.seq)
    OBVIOUS
  <2>2. Resolves(d, s.anchor) /\ doc' = EnsureIndex(f) /\ o.op = "replace_para"
    BY <1>1, <1>3, <1>8, <2>1, RecordResolves DEF ExecReplace
  <2>3. PICK ids : ids = Gone(o)
    OBVIOUS
  <2>4. ids = {s.anchor} /\ ids \subseteq Ids(d.manifest)
    BY <1>1, <2>2, <2>3, SingleTarget DEF Gone, BatchInv, PlanOK, Resolves
  <2>5. Step(d, f)
    BY <1>2, <1>4, <2>1, <2>2, ReplaceStep
  <2>6. Linked(f) /\ Keeps(d, f, ids)
    BY <1>2, <1>4, <2>1, <2>2, <2>4, ReplacedTree
  <2> QED BY <1>1, <1>3, <1>4, <2>2, <2>3, <2>4, <2>5, <2>6, KeepsBetweenReads
<1>9. CASE ExecDelete(s)
  <2>1. PICK ids : ids = Names(o)
    OBVIOUS
  <2>2. /\ Gone(o) = ids /\ doc' = DeletePara(d, ids)
        /\ \A i \in ids : Resolves(d, i)
    BY <1>1, <1>3, <1>9, <2>1, RecordResolves DEF ExecDelete, Gone
  <2>3. Step(d, doc') /\ ids \subseteq Ids(d.manifest)
    BY <1>4, <2>2, DeleteStep DEF Resolves
  <2>4. Linked(doc') /\ Keeps(d, doc', ids)
    BY <1>4, <2>2, DeletedTree
  <2>5. PICK g : g = EnsureIndex(doc')
    OBVIOUS
  <2> QED BY <1>1, <1>3, <1>4, <2>2, <2>3, <2>4, <2>5, KeepsBetweenReads
<1> QED BY <1>5, <1>6, <1>7, <1>8, <1>9

(* A step that fails retires none. *)
LEMMA FailuresRetireNone ==
    ASSUME BatchInv, Linked(doc), NEW s \in todo,
           ExecFindsNothing(s) \/ ExecContentFails(s) \/ ExecTextFails(s)
    PROVE  /\ Linked(doc') /\ Keeps(doc, doc', {}) /\ Step(doc, doc')
           /\ \E audited : Raise(audited)
<1>1. DocInv(doc) /\ s.seq \in Nat
  BY StepOperation DEF BatchInv
<1>2. Linked(doc) /\ Keeps(doc, doc, {}) /\ Step(doc, doc)
  BY <1>1, KeepsItself, StepItself
<1>3. PICK d : d = EnsureIndex(doc)
  OBVIOUS
<1>4. Linked(d) /\ Keeps(doc, d, {}) /\ Step(doc, d)
  BY <1>1, <1>3, EnsuredTree, EnsureIndexStep
<1>5. CASE ExecFindsNothing(s)
  <2>1. doc' = doc \/ doc' = d
    BY <1>3, <1>5 DEF ExecFindsNothing
  <2>2. Raise(TRUE)
    BY <1>5 DEF ExecFindsNothing
  <2> QED BY <2>1, <2>2, <1>2, <1>4
<1>6. CASE ExecContentFails(s)
  BY <1>3, <1>4, <1>6 DEF ExecContentFails
<1>7. CASE ExecTextFails(s)
  <2>1. Resolves(doc, s.anchor) /\ \E audited : Raise(audited)
    BY <1>7 DEF ExecTextFails
  <2>2. CASE doc' = doc
    BY <1>2, <2>1, <2>2
  <2>3. CASE doc' # doc
    <3>1. PICK hit, gone \in SUBSET Boxed(doc, doc.manifest.byId[s.anchor]) :
            doc' = TextEdit(doc, s.anchor, s.seq, hit, gone)
      BY <1>7, <2>3 DEF ExecTextFails
    <3>2. Linked(doc') /\ Keeps(doc, doc', {})
      BY <1>1, <2>1, <3>1, EditedTree
    <3>3. Step(doc, doc')
      BY <1>1, <3>1, TextEditStep
    <3> QED BY <2>1, <3>2, <3>3
  <2> QED BY <2>2, <2>3
<1> QED BY <1>5, <1>6, <1>7

(* The document of a batch in flight may come after the snapshot. *)
LEMMA SnapshotFirst ==
    ASSUME BatchInv, InFlight
    PROVE  DocInv(snap) /\ DocInv(doc) /\ Step(snap, doc)
BY DEF BatchInv, Step

(* What a batch has retired so far was bound at the snapshot. *)
LEMMA RetiredWereBound ==
    ASSUME PlanInv
    PROVE  UNION {Gone(ops[k]) : k \in Done} \subseteq Ids(snap.manifest)
BY DEF PlanInv, Done, Gone

(* Each step of the loop preserves the account of what is retired. *)
LEMMA StepKeepsPlan ==
    ASSUME CommitInv, phase = "executing", ExecStep
    PROVE  Linked(doc)' /\ Linked(snap)' /\ PlanInv'
<1>1. BatchInv /\ Linked(doc) /\ Linked(snap) /\ PlanInv /\ InFlight
  BY DEF CommitInv, InFlight
<1>2. PICK retired : retired = UNION {Gone(ops[k]) : k \in Done}
  OBVIOUS
<1>3. retired \subseteq Ids(snap.manifest) /\ Keeps(snap, doc, retired)
  BY <1>1, <1>2, RetiredWereBound DEF PlanInv
<1>4. DocInv(snap) /\ Step(snap, doc)
  BY <1>1, SnapshotFirst
<1>5. ASSUME NEW s \in todo,
             \/ ExecInsertBefore(s) \/ ExecInsertAfter(s) \/ ExecText(s)
             \/ ExecReplace(s) \/ ExecDelete(s)
      PROVE  Linked(doc)' /\ Linked(snap)' /\ PlanInv'
  <2>1. PICK ids : ids = Gone(ops[s.seq])
    OBVIOUS
  <2>2. Linked(doc') /\ Keeps(doc, doc', ids) /\ Step(doc, doc')
    BY <1>1, <1>5, <2>1, StepsRetireTheirs DEF PlanInv
  <2>3. \E new : Executed(s, new)
    BY <1>5 DEF ExecInsertBefore, ExecInsertAfter, ExecText, ExecReplace, ExecDelete
  <2>4. /\ ops' = ops /\ todo' = todo \ {s} /\ snap' = snap
        /\ DOMAIN results' = DOMAIN results \cup {s.seq}
    BY <2>3 DEF Executed
  <2>5. Done' = Done \cup {s.seq}
    BY <1>1, <2>4, OneMoreDone DEF PlanInv
  <2>6. Keeps(snap, doc', retired \cup ids)
    BY <1>3, <1>4, <2>2, KeepsTransitive
  <2>7. (UNION {Gone(ops[k]) : k \in Done})' = retired \cup ids
    BY <1>2, <2>1, <2>4, <2>5 DEF Gone, Names
  <2>8. (todo \subseteq Plan(ops))'
    <3>1. Plan(ops)' = Plan(ops)
      BY <2>4
    <3> QED BY <1>1, <2>4, <3>1 DEF PlanInv
  <2>9. (DOMAIN results = Done)'
    BY <1>1, <2>4, <2>5 DEF PlanInv
  <2>10. (/\ \A i \in DOMAIN ops : /\ Names(ops[i]) \subseteq Ids(snap.manifest)
                                  /\ IsOneToOne(ops[i].targets)
          /\ \A i \in Ids(snap.manifest) : Resolves(snap, i))'
    BY <1>1, <2>4 DEF PlanInv
  <2>11. Keeps(snap, doc, UNION {Gone(ops[k]) : k \in Done})'
    BY <2>4, <2>6, <2>7
  <2>12. PlanInv'
    BY <2>8, <2>9, <2>10, <2>11 DEF PlanInv
  <2> QED BY <1>1, <2>2, <2>4, <2>12
<1>6. ASSUME NEW s \in todo,
             ExecFindsNothing(s) \/ ExecContentFails(s) \/ ExecTextFails(s)
      PROVE  Linked(doc)' /\ Linked(snap)' /\ PlanInv'
  <2>1. /\ Linked(doc') /\ Keeps(doc, doc', {}) /\ Step(doc, doc')
        /\ \E audited : Raise(audited)
    BY <1>1, <1>6, FailuresRetireNone
  <2>2. ops' = ops /\ todo' = todo /\ snap' = snap /\ results' = results
    BY <2>1 DEF Raise
  <2>3. Keeps(snap, doc', retired \cup {})
    BY <1>3, <1>4, <2>1, KeepsTransitive
  <2>4. Keeps(snap, doc', retired)
    <3>1. retired \cup {} = retired
      OBVIOUS
    <3> QED BY <2>3, <3>1
  <2>5. (UNION {Gone(ops[k]) : k \in Done})' = retired
    BY <1>2, <2>2 DEF Done, Gone, Names
  <2>6. PlanInv'
    BY <1>1, <2>2, <2>4, <2>5 DEF PlanInv, Done
  <2> QED BY <1>1, <2>1, <2>2, <2>6
<1> QED BY <1>5, <1>6 DEF ExecStep

(* A batch that passes validation starts with nothing retired: its IDs      *)
(* have just been resolved.                                                 *)
LEMMA StartPlans ==
    ASSUME CommitInv, Start
    PROVE  Linked(doc)' /\ Linked(snap)' /\ PlanInv'
<1>1. /\ phase = "idle" /\ doc' = doc /\ snap' = doc /\ results' = results
      /\ AllResolve(doc)
  BY DEF Start
<1>2. PICK b \in Batches : Accepted(b) /\ ops' = b /\ todo' = Plan(b)
  BY DEF Start
<1>3. DocInv(doc) /\ Linked(doc) /\ results = <<>>
  BY <1>1 DEF CommitInv, BatchInv, AtRest
<1>4. Elems(doc.manifest.order) = Ids(doc.manifest)
  BY <1>3 DEF DocInv, ManifestOK, Sound
<1>5. Done' = {}
  <2>1. ASSUME NEW i \in DOMAIN b PROVE i \in {s.seq : s \in Plan(b)}
    <3>1. PICK s : s = [seq |-> i, anchor |-> Anchor(b, i)]
      OBVIOUS
    <3>2. s \in Plan(b) /\ s.seq = i
      BY <3>1 DEF Plan
    <3> QED BY <3>2
  <2> QED BY <1>2, <2>1 DEF Done
<1>6. \A i \in DOMAIN b : Names(b[i]) \subseteq Ids(doc.manifest) /\ IsOneToOne(b[i].targets)
  BY <1>2, <1>4 DEF Accepted, Admissible
<1>7. \A i \in Ids(doc.manifest) : Resolves(doc, i)
  BY <1>1, <1>4 DEF AllResolve
<1>8. Keeps(doc, doc, {})
  BY <1>3, KeepsItself
<1>9. (UNION {Gone(ops[k]) : k \in Done})' = {}
  BY <1>5
<1>10. Keeps(snap, doc, UNION {Gone(ops[k]) : k \in Done})'
  BY <1>1, <1>8, <1>9
<1>11. DOMAIN results' = Done'
  BY <1>1, <1>3, <1>5
<1>12. (todo \subseteq Plan(ops))'
  BY <1>2
<1>13. (/\ \A i \in DOMAIN ops : /\ Names(ops[i]) \subseteq Ids(snap.manifest)
                                /\ IsOneToOne(ops[i].targets)
        /\ \A i \in Ids(snap.manifest) : Resolves(snap, i))'
  BY <1>1, <1>2, <1>6, <1>7
<1> QED BY <1>1, <1>3, <1>10, <1>11, <1>12, <1>13 DEF PlanInv

(* An index that is built when every paragraph has an ID binds nothing. *)
LEMMA NothingToBind ==
    ASSUME NEW d, DocInv(d), Elems(d.dom) \subseteq DOMAIN d.manifest.byNode,
           NEW e, e = EnsureIndex(d)
    PROVE  /\ Ids(e.manifest) = Ids(d.manifest)
           /\ \A i \in Ids(e.manifest) : e.manifest.byId[i] = d.manifest.byId[i]
<1>1. CASE d.cached
  BY <1>1 DEF EnsureIndex
<1>2. CASE ~d.cached
  <2>1. PICK nodes : nodes = Without(d.dom, DOMAIN d.manifest.byNode)
    OBVIOUS
  <2>2. e.manifest = BindNew(d.manifest, nodes)
    <3>1. e = BuildIndex(d)
      BY <1>2 DEF EnsureIndex
    <3> QED BY <2>1, <3>1, BuiltFields
  <2>3. /\ d.dom \in Seq(1..(d.fresh - 1)) /\ IsOneToOne(d.dom) /\ d.fresh \in Nat
        /\ IsManifest(d.manifest) /\ Sound(d.manifest) /\ d.manifest.next \in Nat
    BY DEF DocInv, TreeOK, ManifestOK, IsManifest
  <2>4. /\ nodes \in Seq(1..(d.fresh - 1)) /\ IsOneToOne(nodes) /\ Elems(nodes) = {}
        /\ Elems(nodes) \cap DOMAIN d.manifest.byNode = {}
    BY <2>1, <2>3, WithoutProperties
  <2>5. nodes \in Seq(Nat) /\ Len(nodes) = 0
    <3>1. 1..(d.fresh - 1) \subseteq Nat
      BY <2>3
    <3>2. PICK n \in Nat : n = Len(nodes) /\ DOMAIN nodes = 1..n
      BY <2>4, LenProperties
    <3>3. 1 \notin 1..n
      BY <2>4, <3>2 DEF Elems
    <3>4. n = 0
      BY <3>3
    <3>5. nodes \in Seq(Nat)
      BY <2>4, <3>1, SeqMono
    <3> QED BY <3>2, <3>4, <3>5
  <2>6. PICK m, r : m = d.manifest /\ r = BindNew(m, nodes)
    OBVIOUS
  <2>7. /\ IsManifest(m) /\ Sound(m) /\ m.next \in Nat
        /\ Elems(nodes) \cap DOMAIN m.byNode = {}
        /\ nodes \in Seq(Nat) /\ IsOneToOne(nodes)
    BY <2>3, <2>4, <2>5, <2>6
  <2>8. /\ Ids(r) = Ids(m) \cup m.next..(m.next + Len(nodes) - 1)
        /\ DOMAIN r.byNode = DOMAIN m.byNode \cup Elems(nodes)
        /\ \A i \in Ids(m) : r.byId[i] = m.byId[i]
        /\ \A j \in 1..Len(nodes) : r.byId[m.next + j - 1] = nodes[j]
    BY <2>6, <2>7, BindNewSound
  <2>9. m.next..(m.next + Len(nodes) - 1) = {}
    BY <2>5, <2>7
  <2> QED BY <2>2, <2>6, <2>8, <2>9
<1> QED BY <1>1, <1>2

(* What a rollback puts back: the paragraphs of the snapshot, and its IDs   *)
(* bound to them in the order of the list.                                  *)
PutBack(e, d) ==
    /\ e.dom = d.dom /\ e.host = d.host /\ e.body = d.body /\ e.fresh = d.fresh
    /\ Ids(e.manifest) = Ids(d.manifest)
    /\ Elems(d.dom) = DOMAIN e.manifest.byNode
    /\ \A j \in DOMAIN d.manifest.order :
         e.manifest.byId[d.manifest.order[j]] = d.dom[j]

(* Restoring the tree and rebinding the IDs in list order puts the          *)
(* snapshot back, without an index.                                         *)
LEMMA RolledBackFields ==
    ASSUME DocInv(snap), CanRollBack
    PROVE  DocInv(RolledBack) /\ PutBack(RolledBack, snap) /\ ~RolledBack.cached
<1>1. DocInv(RolledBack)
  BY RolledBackOK
<1>2. PICK e : e = RolledBack
  OBVIOUS
<1>3. PICK m, r : m = Rebound(snap.manifest.order, snap.dom, snap.manifest.next) /\ r = <<>>
  OBVIOUS
<1>4. e = [snap EXCEPT !.manifest = m, !.cached = FALSE, !.records = r]
  BY <1>2, <1>3 DEF RolledBack
<1>5. /\ e.dom = snap.dom /\ e.host = snap.host /\ e.body = snap.body /\ e.fresh = snap.fresh
      /\ e.manifest = m /\ ~e.cached
  BY <1>4 DEF DocInv, IsDocument
<1>6. /\ IsManifest(snap.manifest) /\ Sound(snap.manifest)
      /\ snap.fresh \in Nat \ {0}
      /\ snap.dom \in Seq(1..(snap.fresh - 1)) /\ IsOneToOne(snap.dom)
  BY DEF DocInv, ManifestOK, TreeOK
<1>7. PICK order, dom, next :
        order = snap.manifest.order /\ dom = snap.dom /\ next = snap.manifest.next
  OBVIOUS
<1>8. /\ order \in Seq(Nat \ {0}) /\ IsOneToOne(order) /\ Elems(order) = Ids(snap.manifest)
      /\ next \in Nat \ {0} /\ \A i \in Elems(order) : i < next
      /\ Len(order) = Len(dom)
  BY <1>6, <1>7 DEF IsManifest, Sound, CanRollBack
<1>9. dom \in Seq(Nat) /\ IsOneToOne(dom) /\ m = Rebound(order, dom, next)
  <2>1. 1..(snap.fresh - 1) \subseteq Nat
    BY <1>6
  <2> QED BY <2>1, <1>3, <1>6, <1>7, SeqMono
<1>10. /\ Ids(m) = Elems(order) /\ DOMAIN m.byNode = Elems(dom)
       /\ \A j \in DOMAIN order : m.byId[order[j]] = dom[j]
  BY <1>8, <1>9, ReboundSound
<1>11. PutBack(e, snap)
  BY <1>5, <1>7, <1>8, <1>10 DEF PutBack
<1> QED BY <1>1, <1>2, <1>5, <1>11

(* A read after the rollback changes none of it. *)
LEMMA PutBackRead ==
    ASSUME NEW d, NEW e, DocInv(e), PutBack(e, d), NEW f, f = e \/ f = EnsureIndex(e)
    PROVE  /\ f.dom = d.dom /\ f.host = d.host /\ f.body = d.body
           /\ Ids(f.manifest) = Ids(d.manifest)
           /\ \A j \in DOMAIN d.manifest.order :
                d.manifest.order[j] \in Ids(f.manifest) =>
                  f.manifest.byId[d.manifest.order[j]] = d.dom[j]
           /\ Linked(f)
<1>1. Linked(e)
  BY DEF PutBack, Linked, LinkedBut, DocInv, ManifestOK, Sound
<1>2. PICK g : g = EnsureIndex(e)
  OBVIOUS
<1>3. Linked(g) /\ g.dom = e.dom /\ g.host = e.host /\ g.body = e.body
  BY <1>1, <1>2, EnsuredTree
<1>4. /\ Ids(g.manifest) = Ids(e.manifest)
      /\ \A i \in Ids(g.manifest) : g.manifest.byId[i] = e.manifest.byId[i]
  BY <1>2, NothingToBind DEF PutBack
<1>5. CASE f = e
  BY <1>1, <1>5 DEF PutBack
<1>6. CASE f = g
  BY <1>3, <1>4, <1>6 DEF PutBack
<1> QED BY <1>2, <1>5, <1>6
-----------------------------------------------------------------------------
(* CommitInv is inductive. *)

(* A batch that has ended rests, on a fresh snapshot. *)
LEMMA ResetRests ==
    ASSUME BatchReset PROVE AtRest' /\ Linked(snap)'
<1>1. results' = <<>> /\ delta' = 0 /\ pending' = <<>> /\ snap' = Opened
  BY DEF BatchReset
<1> QED BY <1>1, OpenedLinked DEF AtRest

(* Calls of the document between batches, and batches that are refused. *)
LEMMA IdleKeepsCommit ==
    ASSUME CommitInv, CallerEdits \/ CallerReads \/ Reject \/ SnapshotFails
    PROVE  CommitInv'
<1>1. BatchInv'
  BY CallerStep, RefusedStep DEF CommitInv
<1>2. phase = "idle" /\ phase' = "idle" /\ snap' = snap /\ AtRest'
  BY DEF CommitInv, CallerEdits, CallerReads, Reject, SnapshotFails, batchVars, AtRest
<1>3. Linked(doc')
  <2>1. CASE CallerEdits \/ CallerReads
    <3>1. Next
      BY <2>1 DEF CallerEdits, CallerReads, Next
    <3> QED BY <3>1, NextLinked DEF CommitInv, BatchInv
  <2>2. CASE Reject \/ SnapshotFails
    BY <2>2 DEF Reject, SnapshotFails, CommitInv
  <2> QED BY <2>1, <2>2
<1> QED BY <1>1, <1>2, <1>3 DEF CommitInv, InFlight

(* The start of a batch. *)
LEMMA StartKeepsCommit ==
    ASSUME CommitInv, Start PROVE CommitInv'
<1>1. BatchInv' /\ phase' = "executing"
  BY StartStep DEF CommitInv, Start
<1> QED BY <1>1, StartPlans DEF CommitInv

(* A step of the plan, carried out or failed. *)
LEMMA ExecKeepsCommit ==
    ASSUME CommitInv, ExecStep PROVE CommitInv'
<1>1. phase = "executing" /\ BatchInv
  BY DEF CommitInv, ExecStep, ExecInsertBefore, ExecInsertAfter, ExecText, ExecReplace,
         ExecDelete, ExecFindsNothing, ExecContentFails, ExecTextFails
<1>2. BatchInv' /\ phase' \in {"executing", "failing"}
  BY <1>1, InsideStep, ExecStepKeeps
<1> QED BY <1>1, <1>2, StepKeepsPlan DEF CommitInv

(* A commit check that fails. *)
LEMMA ChecksFailKeepCommit ==
    ASSUME CommitInv, ChecksFail PROVE CommitInv'
<1>1. phase = "executing" /\ doc' = EnsureIndex(doc) /\ Raise(TRUE)
  BY DEF ChecksFail
<1>2. BatchInv /\ BatchInv' /\ PlanInv /\ Linked(doc) /\ Linked(snap)
  BY <1>1, InsideStep DEF CommitInv, InFlight
<1>3. Linked(doc') /\ Keeps(doc, doc', {}) /\ Step(doc, doc')
  BY <1>1, <1>2, EnsuredTree, EnsureIndexStep DEF BatchInv
<1>4. /\ phase' = "failing" /\ snap' = snap /\ ops' = ops /\ todo' = todo
      /\ results' = results
  BY <1>1 DEF Raise
<1>5. PICK retired : retired = UNION {Gone(ops[k]) : k \in Done}
  OBVIOUS
<1>6. retired \subseteq Ids(snap.manifest) /\ Keeps(snap, doc, retired)
  BY <1>2, <1>5, RetiredWereBound DEF PlanInv
<1>7. DocInv(snap) /\ Step(snap, doc)
  BY <1>1, <1>2, SnapshotFirst DEF InFlight
<1>8. Keeps(snap, doc', retired \cup {})
  BY <1>3, <1>6, <1>7, KeepsTransitive
<1>9. retired \cup {} = retired
  OBVIOUS
<1>10. (UNION {Gone(ops[k]) : k \in Done})' = retired
  BY <1>4, <1>5 DEF Done, Gone, Names
<1>11. Keeps(snap, doc, UNION {Gone(ops[k]) : k \in Done})'
  BY <1>4, <1>8, <1>9, <1>10
<1>12. PlanInv'
  BY <1>2, <1>4, <1>11 DEF PlanInv, Done
<1> QED BY <1>2, <1>3, <1>4, <1>12 DEF CommitInv

(* The commit. *)
LEMMA CommitKeepsCommit ==
    ASSUME CommitInv, Commit PROVE CommitInv'
<1>1. phase' = "idle" /\ doc' = EnsureIndex(doc) /\ BatchReset
  BY DEF Commit
<1>2. BatchInv'
  BY CommitStepOK DEF CommitInv
<1>3. Linked(doc')
  BY <1>1, EnsuredTree DEF CommitInv, BatchInv
<1> QED BY <1>1, <1>2, <1>3, ResetRests DEF CommitInv, InFlight

(* The rollback. *)
LEMMA RollBackKeepsCommit ==
    ASSUME CommitInv, RollBack PROVE CommitInv'
<1>1. /\ phase' = "idle" /\ BatchReset /\ CanRollBack
      /\ doc' = RolledBack \/ doc' = EnsureIndex(RolledBack)
  BY DEF RollBack
<1>2. BatchInv'
  BY RollBackOK DEF CommitInv
<1>3. Linked(doc')
  BY <1>1, RolledBackFields, PutBackRead DEF CommitInv, BatchInv
<1> QED BY <1>1, <1>2, <1>3, ResetRests DEF CommitInv, InFlight

(* A rollback that cannot rebind the IDs. *)
LEMMA RollbackFailsKeepsCommit ==
    ASSUME CommitInv, RollbackFails PROVE CommitInv'
<1>1. phase' = "split" /\ doc' = doc /\ snap' = snap
  BY DEF RollbackFails
<1>2. BatchInv'
  BY RollbackFailsOK DEF CommitInv
<1> QED BY <1>1, <1>2 DEF CommitInv, InFlight

(* A document just opened, and no batch. *)
LEMMA CommitInit ==
    ASSUME BatchInit PROVE CommitInv
<1>1. /\ doc = Opened /\ snap = Opened /\ phase = "idle"
      /\ results = <<>> /\ delta = 0 /\ pending = <<>>
  BY DEF BatchInit, Init
<1> QED BY <1>1, BatchStarts, OpenedLinked DEF CommitInv, InFlight, AtRest

(* Steps that change nothing. *)
LEMMA CommitStutter ==
    ASSUME CommitInv, UNCHANGED vars PROVE CommitInv'
<1>1. /\ doc' = doc /\ phase' = phase /\ snap' = snap /\ ops' = ops /\ todo' = todo
      /\ results' = results /\ delta' = delta /\ pending' = pending
  BY DEF vars
<1>2. BatchInv'
  BY BatchStutter DEF CommitInv
<1>3. (UNION {Gone(ops[k]) : k \in Done})' = UNION {Gone(ops[k]) : k \in Done}
  BY <1>1 DEF Done, Gone, Names
<1>4. PlanInv => PlanInv'
  BY <1>1, <1>3 DEF PlanInv, Done
<1>5. InFlight' = InFlight /\ (AtRest => AtRest')
  BY <1>1 DEF InFlight, AtRest
<1> QED BY <1>1, <1>2, <1>4, <1>5 DEF CommitInv

(* All steps together. *)
LEMMA CommitNext ==
    ASSUME CommitInv, BatchNext PROVE CommitInv'
BY IdleKeepsCommit, StartKeepsCommit, ExecKeepsCommit, ChecksFailKeepCommit,
   CommitKeepsCommit, RollBackKeepsCommit, RollbackFailsKeepsCommit DEF BatchNext, Running

(* CommitInv is an inductive invariant of the batch. *)
THEOREM CommitInvariant == BatchSpec => []CommitInv
<1>1. BatchInit => CommitInv
  BY CommitInit
<1>2. CommitInv /\ [BatchNext]_vars => CommitInv'
  BY CommitNext, CommitStutter
<1> QED BY <1>1, <1>2, PTL DEF BatchSpec

(* Through batches, their failures and their rollbacks too, an ID dangles   *)
(* only if its paragraph was in a text box.                                 *)
THEOREM BatchAnchorsDangleOnlyInBoxes == BatchSpec => []StaleOnlyInBoxes
<1>1. CommitInv => StaleOnlyInBoxes
  BY LinkedStale DEF CommitInv, BatchInv
<1> QED BY <1>1, CommitInvariant, PTL
-----------------------------------------------------------------------------
(* What a commit leaves. *)

(* When the plan has been carried out, all of it is done. *)
LEMMA AllDone ==
    ASSUME todo = {} PROVE Done = DOMAIN ops
BY DEF Done

(* A paragraph that no operation retires keeps its ID and its node through  *)
(* the batch.                                                               *)
LEMMA Survives ==
    ASSUME CommitInv, InFlight, todo = {}, NEW e, e = EnsureIndex(doc),
           NEW id \in Ids(snap.manifest),
           ~\E i \in DOMAIN ops : /\ id \in Names(ops[i])
                                  /\ ops[i].op \in {"delete_para", "replace_para"}
    PROVE  /\ id \in Ids(e.manifest)
           /\ e.manifest.byId[id] = snap.manifest.byId[id]
<1>1. BatchInv /\ PlanInv /\ Linked(doc)
  BY DEF CommitInv
<1>2. DocInv(snap) /\ DocInv(doc) /\ Step(snap, doc)
  BY <1>1, SnapshotFirst
<1>3. Step(doc, e) /\ Keeps(doc, e, {})
  BY <1>1, <1>2, EnsureIndexStep, EnsuredTree
<1>4. Step(snap, e)
  BY <1>2, <1>3, StepTransitive
<1>5. id \notin UNION {Gone(ops[k]) : k \in Done}
  BY AllDone DEF Gone
<1>6. id \in Ids(doc.manifest)
  BY <1>1, <1>5 DEF PlanInv, Keeps
<1>7. id \in Ids(e.manifest)
  BY <1>3, <1>6 DEF Keeps
<1>8. e.manifest.byId[id] = snap.manifest.byId[id]
  BY <1>4, <1>7 DEF Step, Follows
<1> QED BY <1>7, <1>8

(* Only Commit ends a batch that was being carried out. *)
LEMMA OnlyCommitCommits ==
    ASSUME BatchNext, Committing
    PROVE  Commit
<1>1. phase = "executing" /\ phase' = "idle"
  BY DEF Committing
<1>2. CASE ExecStep
  BY <1>1, <1>2 DEF ExecStep, ExecInsertBefore, ExecInsertAfter, ExecText, ExecReplace,
     ExecDelete, ExecFindsNothing, ExecContentFails, ExecTextFails, Executed, Raise
<1> QED BY <1>1, <1>2 DEF BatchNext, Running, CallerEdits, CallerReads, Reject, SnapshotFails,
        Start, ChecksFail, RollBack, RollbackFails, Raise, batchVars

(* The commit keeps the anchors of the survivors. *)
LEMMA SurvivorsStep ==
    ASSUME CommitInv, [BatchNext]_vars PROVE SurvivorStep
<1>1. SUFFICES ASSUME Committing PROVE SurvivorStep
  BY DEF SurvivorStep
<1>2. BatchNext
  BY <1>1 DEF Committing, vars
<1>3. Commit
  BY <1>1, <1>2, OnlyCommitCommits
<1>4. doc' = EnsureIndex(doc) /\ todo = {} /\ InFlight
  BY <1>3 DEF Commit, InFlight
<1>5. PICK e : e = EnsureIndex(doc)
  OBVIOUS
<1>6. ASSUME NEW id \in Ids(snap.manifest),
             ~\E i \in DOMAIN ops : /\ id \in Names(ops[i])
                                    /\ ops[i].op \in {"delete_para", "replace_para"}
      PROVE  /\ id \in Ids(e.manifest)
             /\ e.manifest.byId[id] = snap.manifest.byId[id]
  BY <1>4, <1>5, <1>6, Survives
<1> QED BY <1>4, <1>5, <1>6 DEF SurvivorStep, Ids

(* A paragraph that a committed batch neither deletes nor replaces is still *)
(* named by its ID afterwards, and it is the same node of the tree, whatever*)
(* the batch has inserted, moved the cursor past or edited around it.       *)
THEOREM SurvivorsKeepTheirAnchors == BatchSpec => SurvivorsKeepAnchors
<1>1. CommitInv /\ [BatchNext]_vars => SurvivorStep
  BY SurvivorsStep
<1> QED BY <1>1, CommitInvariant, PTL DEF BatchSpec, SurvivorsKeepAnchors
-----------------------------------------------------------------------------
(* What a rollback leaves. *)

(* A document has as many paragraphs as it lists IDs if every ID resolves   *)
(* and no paragraph lies in a text box.                                     *)
LEMMA CountsAgree ==
    ASSUME NEW d, DocInv(d), Linked(d), \A i \in Ids(d.manifest) : Resolves(d, i),
           \A n \in Elems(d.dom) : d.host[n] = NoHost
    PROVE  Len(d.dom) = Len(d.manifest.order)
<1>1. /\ d.dom \in Seq(1..(d.fresh - 1)) /\ IsOneToOne(d.dom)
      /\ d.manifest.order \in Seq(Nat \ {0}) /\ IsOneToOne(d.manifest.order)
      /\ Sound(d.manifest)
  BY DEF DocInv, TreeOK, ManifestOK, IsManifest, Sound
<1>2. PICK A, B : A = Elems(d.manifest.order) /\ B = Elems(d.dom)
  OBVIOUS
<1>3. /\ IsFiniteSet(A) /\ Cardinality(A) = Len(d.manifest.order)
      /\ IsFiniteSet(B) /\ Cardinality(B) = Len(d.dom)
  BY <1>1, <1>2, LenIsCardinality
<1>4. A = Ids(d.manifest) /\ B \subseteq DOMAIN d.manifest.byNode
  BY <1>1, <1>2 DEF Sound, Linked, LinkedBut
<1>5. PICK f : f = [i \in A |-> d.manifest.byId[i]]
  OBVIOUS
<1>6. f \in [A -> B] /\ \A i, j \in A : f[i] = f[j] => i = j
  BY <1>1, <1>2, <1>4, <1>5 DEF Sound, Resolves, InTree
<1>7. \A n \in B : \E i \in A : f[i] = n
  BY <1>1, <1>4, <1>5 DEF Sound
<1>8. f \in Bijection(A, B)
  BY <1>6, <1>7 DEF Bijection, Injection, Surjection, IsInjective
<1>9. ExistsBijection(A, B)
  BY <1>8 DEF ExistsBijection
<1> QED BY <1>3, <1>9, FS_Bijection

(* Only RollBack and RollbackFails end a failing batch. *)
LEMMA OnlyRollBackRollsBack ==
    ASSUME BatchNext, phase = "failing", phase' # "failing"
    PROVE  RollBack \/ RollbackFails
<1>1. ~ExecStep
  BY DEF ExecStep, ExecInsertBefore, ExecInsertAfter, ExecText, ExecReplace,
     ExecDelete, ExecFindsNothing, ExecContentFails, ExecTextFails
<1> QED BY <1>1 DEF BatchNext, Running, CallerEdits, CallerReads, Reject, SnapshotFails,
        Start, ChecksFail, Commit

(* Only RollbackFails leaves a batch split. *)
LEMMA OnlyRollbackFailsSplits ==
    ASSUME BatchNext, phase # "split", phase' = "split"
    PROVE  RollbackFails
<1>1. ~ExecStep
  BY DEF ExecStep, ExecInsertBefore, ExecInsertAfter, ExecText, ExecReplace,
     ExecDelete, ExecFindsNothing, ExecContentFails, ExecTextFails, Executed, Raise
<1> QED BY <1>1 DEF BatchNext, Running, CallerEdits, CallerReads, Reject, SnapshotFails,
        Start, ChecksFail, Commit, RollBack, Raise, batchVars

(* The anchors that are put back in the order of the list are those of the  *)
(* snapshot if that order is the order of the paragraphs.                   *)
LEMMA AnchorsPutBack ==
    ASSUME NEW d, DocInv(d), InDocumentOrder(d),
           NEW f, DocInv(f), Ids(f.manifest) = Ids(d.manifest),
           \A j \in DOMAIN d.manifest.order :
              d.manifest.order[j] \in Ids(f.manifest) =>
                f.manifest.byId[d.manifest.order[j]] = d.dom[j]
    PROVE  f.manifest.byId = d.manifest.byId
<1>1. /\ IsManifest(d.manifest) /\ IsManifest(f.manifest)
      /\ Elems(d.manifest.order) = Ids(d.manifest)
  BY DEF DocInv, ManifestOK, Sound
<1>2. ASSUME NEW id \in Ids(d.manifest)
      PROVE  f.manifest.byId[id] = d.manifest.byId[id]
  <2>1. PICK j \in DOMAIN d.manifest.order : d.manifest.order[j] = id
    BY <1>1 DEF Elems
  <2>2. d.manifest.byId[d.manifest.order[j]] = d.dom[j]
    BY DEF InDocumentOrder
  <2> QED BY <2>1, <2>2
<1>3. /\ d.manifest.byId = [i \in Ids(d.manifest) |-> d.manifest.byId[i]]
      /\ f.manifest.byId = [i \in Ids(d.manifest) |-> f.manifest.byId[i]]
  BY <1>1 DEF IsManifest, Ids
<1> QED BY <1>2, <1>3

(* The rollback, whether it succeeds or not, does what RollbackStep says. *)
LEMMA RestoresStep ==
    ASSUME CommitInv, [BatchNext]_vars PROVE RollbackStep
<1>1. BatchInv /\ Linked(snap)
  BY DEF CommitInv
<1>2. ASSUME RollingBack
      PROVE  /\ doc'.dom = snap.dom /\ Contents(doc') = Contents(snap)
             /\ doc'.host = snap.host
             /\ Ids(doc.manifest)' = Ids(snap.manifest)
             /\ InDocumentOrder(snap) => doc.manifest.byId' = snap.manifest.byId
  <2>1. BatchNext /\ phase = "failing" /\ phase' = "idle"
    BY <1>2 DEF RollingBack, vars
  <2>2. RollBack
    BY <2>1, OnlyRollBackRollsBack DEF RollbackFails
  <2>3. PICK f : f = doc'
    OBVIOUS
  <2>4. CanRollBack /\ (f = RolledBack \/ f = EnsureIndex(RolledBack)) /\ DocInv(snap)
    BY <1>1, <2>2, <2>3 DEF RollBack, BatchInv
  <2>5. /\ f.dom = snap.dom /\ f.host = snap.host /\ f.body = snap.body
        /\ Ids(f.manifest) = Ids(snap.manifest)
        /\ \A j \in DOMAIN snap.manifest.order :
              snap.manifest.order[j] \in Ids(f.manifest) =>
                f.manifest.byId[snap.manifest.order[j]] = snap.dom[j]
    BY <2>4, RolledBackFields, PutBackRead
  <2>6. DocInv(f)
    BY <1>1, <2>2, <2>3, RollBackOK DEF BatchInv
  <2>7. InDocumentOrder(snap) => f.manifest.byId = snap.manifest.byId
    BY <2>4, <2>5, <2>6, AnchorsPutBack
  <2>8. Contents(f) = Contents(snap)
    BY <2>5 DEF Contents
  <2> QED BY <2>3, <2>5, <2>7, <2>8 DEF Ids
<1>3. ASSUME phase # "split", phase' = "split"
      PROVE  \E n \in Elems(snap.dom) : snap.host[n] # 0
  <2>1. RollbackFails
    BY <1>3, OnlyRollbackFailsSplits DEF vars
  <2>2. ~CanRollBack /\ PlanInv
    BY <2>1 DEF RollbackFails, CommitInv, InFlight
  <2>3. SUFFICES ASSUME \A n \in Elems(snap.dom) : snap.host[n] = NoHost PROVE FALSE
    BY DEF NoHost
  <2>4. Len(snap.dom) = Len(snap.manifest.order)
    BY <1>1, <2>2, <2>3, CountsAgree DEF BatchInv, PlanInv
  <2> QED BY <2>2, <2>4 DEF CanRollBack
<1> QED BY <1>2, <1>3 DEF RollbackStep

(* A batch that fails, at whatever step and for whatever reason, leaves the *)
(* paragraphs, their order and their contents as they were and the same IDs *)
(* bound, to the same paragraphs if the list of IDs was in document order;  *)
(* it leaves the document split only if paragraphs lie in text boxes.       *)
THEOREM RollbackRestoresTheDocument == BatchSpec => RollbackRestores
<1>1. CommitInv /\ [BatchNext]_vars => RollbackStep
  BY RestoresStep
<1> QED BY <1>1, CommitInvariant, PTL DEF BatchSpec, RollbackRestores
-----------------------------------------------------------------------------
(* The change log. *)

(* An entry of a log: the operation, and whether it was carried out. *)
Entry == [seq : Nat, ok : BOOLEAN]

(* The operations that a log names, and that it names each of them once. *)
Seqs(p) == {p[k].seq : k \in DOMAIN p}
Once(p) == \A j, k \in DOMAIN p : p[j].seq = p[k].seq => j = k

(* An operation that was not named yet is appended. *)
LEMMA Entered ==
    ASSUME NEW p \in Seq(Entry), Once(p), NEW e \in Entry, e.seq \notin Seqs(p),
           NEW q, q = Append(p, e)
    PROVE  q \in Seq(Entry) /\ Once(q) /\ Seqs(q) = Seqs(p) \cup {e.seq}
<1>1. PICK n \in Nat : n = Len(p)
  BY LenProperties
<1>2. /\ q \in Seq(Entry) /\ Len(q) = n + 1
      /\ \A i \in 1..n : q[i] = p[i]
      /\ q[n + 1] = e
  BY <1>1, AppendProperties
<1>3. DOMAIN p = 1..n /\ DOMAIN q = 1..(n + 1)
  BY <1>1, <1>2, LenProperties
<1>4. ASSUME NEW k \in DOMAIN q
      PROVE  (k \in DOMAIN p /\ q[k] = p[k]) \/ (k = n + 1 /\ q[k] = e)
  BY <1>2, <1>3
<1>5. Once(q)
  BY <1>4 DEF Once, Seqs
<1>6. \A k \in DOMAIN p : k \in DOMAIN q /\ q[k] = p[k]
  BY <1>2, <1>3
<1>7. n + 1 \in DOMAIN q
  BY <1>3
<1>8. Seqs(q) = Seqs(p) \cup {e.seq}
  BY <1>2, <1>4, <1>6, <1>7 DEF Seqs
<1> QED BY <1>2, <1>5, <1>8

(* A log that names each of n operations once has n entries. *)
LEMMA OnePerOperation ==
    ASSUME NEW p \in Seq(Entry), Once(p), NEW n \in Nat, Seqs(p) = 1..n
    PROVE  Len(p) = n
<1>1. PICK l \in Nat : l = Len(p) /\ DOMAIN p = 1..l
  BY LenProperties
<1>2. PICK q : q = [k \in 1..l |-> p[k].seq]
  OBVIOUS
<1>3. q \in [1..l -> 1..n] /\ DOMAIN q = 1..l
  BY <1>1, <1>2 DEF Seqs
<1>4. q \in Seq(1..n) /\ Len(q) = l
  BY <1>3, FunctionIsSeq
<1>5. IsOneToOne(q)
  BY <1>1, <1>2, <1>3 DEF Once, IsOneToOne
<1>6. Elems(q) = 1..n
  BY <1>1, <1>2, <1>3 DEF Seqs, Elems
<1>7. Cardinality(1..n) = l
  BY <1>4, <1>5, <1>6, LenIsCardinality
<1>8. Cardinality(1..n) = n
  <2>1. 1 \in Int /\ n \in Int
    OBVIOUS
  <2>2. Cardinality(1..n) = IF 1 > n THEN 0 ELSE n - 1 + 1
    BY <2>1, FS_Interval
  <2> QED BY <2>2
<1> QED BY <1>1, <1>7, <1>8

(* The log r holds what l held, and all of p if there is room for it. *)
Grown(l, p, limit, r) ==
    /\ r \in Seq(Entry) /\ IsPrefix(l, r) /\ Len(r) <= limit
    /\ Len(l) + Len(p) <= limit =>
         /\ Len(r) = Len(l) + Len(p)
         /\ \A k \in 1..Len(p) : r[Len(l) + k] = p[k]

(* What a log of limited length holds after entries have been added. *)
LEMMA Truncated ==
    ASSUME NEW l \in Seq(Entry), NEW p \in Seq(Entry), NEW limit \in Nat, Len(l) <= limit,
           NEW n, n = (IF Len(l \o p) < limit THEN Len(l \o p) ELSE limit),
           NEW r, r = SubSeq(l \o p, 1, n)
    PROVE  Grown(l, p, limit, r)
<1>1. PICK a, b \in Nat : a = Len(l) /\ b = Len(p)
  BY LenProperties
<1>2. PICK all : all = l \o p
  OBVIOUS
<1>3. /\ all \in Seq(Entry) /\ Len(all) = a + b
      /\ \A i \in 1..(a + b) : all[i] = IF i <= a THEN l[i] ELSE p[i - a]
  BY <1>1, <1>2, ConcatProperties
<1>4. n \in Nat /\ n <= a + b /\ n <= limit /\ a <= n /\ (a + b <= limit => n = a + b)
  <2>1. n = IF a + b < limit THEN a + b ELSE limit
    BY <1>2, <1>3
  <2>2. a <= limit
    BY <1>1
  <2>3. CASE a + b < limit
    <3>1. n = a + b
      BY <2>1, <2>3
    <3> QED BY <3>1, <2>3
  <2>4. CASE ~(a + b < limit)
    <3>1. n = limit
      BY <2>1, <2>4
    <3> QED BY <3>1, <2>2, <2>4
  <2> QED BY <2>3, <2>4
<1>5. /\ r \in Seq(Entry) /\ Len(r) = n
      /\ \A i \in 1..n : r[i] = all[i]
  <2>1. \A i \in 1..n : all[i] \in Entry
    BY <1>3, <1>4, ElementOfSeq
  <2>2. /\ r \in Seq(Entry) /\ Len(r) = IF 1 <= n THEN n - 1 + 1 ELSE 0
        /\ \A i \in 1..(n - 1 + 1) : r[i] = all[1 + i - 1]
    BY <2>1, <1>2, <1>4, SubSeqProperties
  <2> QED BY <2>2, <1>4
<1>6. \A i \in 1..a : r[i] = l[i]
  BY <1>3, <1>4, <1>5
<1>7. IsPrefix(l, r)
  <2>1. PICK x : x = SubSeq(r, 1, a)
    OBVIOUS
  <2>2. \A i \in 1..a : r[i] \in Entry
    BY <1>4, <1>5, ElementOfSeq
  <2>3. /\ x \in Seq(Entry) /\ Len(x) = IF 1 <= a THEN a - 1 + 1 ELSE 0
        /\ \A i \in 1..(a - 1 + 1) : x[i] = r[1 + i - 1]
    BY <2>1, <2>2, <1>1, SubSeqProperties
  <2>4. Len(x) = a /\ \A i \in 1..a : x[i] = l[i]
    BY <2>3, <1>1, <1>6
  <2>5. x = l
    BY <2>3, <2>4, <1>1, SeqEqual
  <2>6. SubSeq(l, 1, Len(l)) = l
    BY SubSeqFull
  <2> QED BY <2>1, <2>5, <2>6, <1>1, <1>4, <1>5 DEF IsPrefix
<1>8. ASSUME a + b <= limit PROVE \A k \in 1..b : r[a + k] = p[k]
  BY <1>3, <1>4, <1>5, <1>8
<1> QED BY <1>1, <1>4, <1>5, <1>7, <1>8 DEF Grown

(* The operation that a failure is put down to is one of those left, and    *)
(* the first of them.                                                       *)
LEMMA BlamedIsFirst ==
    ASSUME BatchInv, PlanInv, NEW first \in todo
    PROVE  /\ \E s \in todo : Blamed = s.seq
           /\ \A s \in todo : Blamed <= s.seq
           /\ Blamed \in Nat
<1>1. PICK open : open = DOMAIN ops \ DOMAIN results
  OBVIOUS
<1>2. PICK n \in Nat : n = Len(ops) /\ DOMAIN ops = 1..n
  BY LenProperties DEF BatchInv, PlanOK
<1>3. open = {s.seq : s \in todo}
  BY <1>1 DEF PlanInv, Done, BatchInv, PlanOK
<1>4. open \in SUBSET (1..n) /\ open # {}
  BY <1>1, <1>2, <1>3
<1>5. \E i \in open : \A j \in open : i <= j
  BY <1>4, SmallestExists
<1>6. Blamed \in open /\ \A j \in open : Blamed <= j
  BY <1>1, <1>4, <1>5 DEF Blamed
<1> QED BY <1>3, <1>4, <1>6

(* An audit entry has an operation's number, or that of the last. *)
LEMMA BlamedIsNumber ==
    ASSUME BatchInv, PlanInv PROVE Blamed \in Nat
<1>1. CASE todo # {}
  BY <1>1, BlamedIsFirst
<1>2. CASE todo = {}
  <2>1. DOMAIN ops \ DOMAIN results = {}
    BY <1>2, AllDone DEF PlanInv
  <2>2. Blamed = Len(ops)
    BY <2>1 DEF Blamed
  <2> QED BY <2>2, LenProperties DEF BatchInv, PlanOK
<1> QED BY <1>1, <1>2

(* The log and what a batch in flight is to add to it: an entry for each    *)
(* operation carried out.                                                   *)
Reported == pending \in Seq(Entry) /\ Once(pending) /\ Seqs(pending) = Done

(* The inductive invariant of the log. *)
LogInv ==
    /\ CommitInv
    /\ log \in Seq(Entry) /\ Len(log) <= LogLimit
    /\ InFlight => Reported

(* A batch that starts has nothing to report. *)
LEMMA StartReports ==
    ASSUME CommitInv, Start PROVE Reported'
<1>1. PICK p : p = pending'
  OBVIOUS
<1>2. p = <<>>
  BY <1>1 DEF CommitInv, AtRest, Start
<1>3. p \in Seq(Entry) /\ DOMAIN p = {}
  <2>1. p \in Seq(Entry) /\ Len(p) = 0
    BY <1>2, EmptySeq
  <2> QED BY <2>1, LenProperties
<1>4. DOMAIN results' = {}
  BY DEF CommitInv, AtRest, Start
<1>5. PlanInv'
  BY StartPlans
<1>6. Done' = {}
  BY <1>4, <1>5 DEF PlanInv
<1>7. Once(p) /\ Seqs(p) = {}
  BY <1>3 DEF Once, Seqs
<1> QED BY <1>1, <1>3, <1>6, <1>7 DEF Reported, Once, Seqs

(* A step that is carried out is entered, one that fails is not. *)
LEMMA StepReports ==
    ASSUME CommitInv, Reported, phase = "executing", ExecStep PROVE Reported'
<1>1. BatchInv /\ PlanInv
  BY DEF CommitInv, InFlight
<1>2. ASSUME NEW s \in todo, NEW new, Executed(s, new) PROVE Reported'
  <2>1. PICK p, e : p = pending' /\ e = [seq |-> s.seq, ok |-> TRUE]
    OBVIOUS
  <2>2. p = Append(pending, e) /\ ops' = ops /\ todo' = todo \ {s}
    BY <1>2, <2>1 DEF Executed
  <2>3. Done' = Done \cup {s.seq} /\ s.seq \notin Done
    BY <1>1, <2>2, OneMoreDone DEF PlanInv
  <2>4. e \in Entry /\ e.seq = s.seq
    BY <1>1, <2>1, StepOperation DEF BatchInv, Entry
  <2>5. p \in Seq(Entry) /\ Once(p) /\ Seqs(p) = Seqs(pending) \cup {e.seq}
    BY <2>2, <2>3, <2>4, Entered DEF Reported
  <2>6. Seqs(pending) \cup {e.seq} = Done'
    BY <2>3, <2>4 DEF Reported
  <2>7. p \in Seq(Entry) /\ Once(p) /\ Seqs(p) = Done'
    BY <2>5, <2>6
  <2> QED BY <2>1, <2>7 DEF Reported, Once, Seqs
<1>3. ASSUME NEW audited, Raise(audited) PROVE Reported'
  BY <1>3 DEF Raise, Reported, Done, Once, Seqs
<1> QED BY <1>2, <1>3 DEF ExecStep, ExecInsertBefore, ExecInsertAfter, ExecText, ExecReplace,
        ExecDelete, ExecFindsNothing, ExecContentFails, ExecTextFails

(* What a commit and a rollback make of the log. *)
LEMMA CommitLogs ==
    ASSUME LogInv, Commit
    PROVE  /\ log' \in Seq(Entry) /\ IsPrefix(log, log') /\ Len(log') <= LogLimit
           /\ Len(log) + Len(ops) <= LogLimit =>
                {log'[k].seq : k \in (Len(log) + 1)..Len(log')} = DOMAIN ops
<1>1. InFlight /\ log' = Flushed /\ todo = {}
  BY DEF Commit, InFlight
<1>2. /\ log \in Seq(Entry) /\ Len(log) <= LogLimit /\ LogLimit \in Nat
      /\ pending \in Seq(Entry) /\ Once(pending) /\ Seqs(pending) = DOMAIN ops
      /\ ops \in Seq(Operations)
  BY <1>1, AllDone, BatchAssumption DEF LogInv, Reported, CommitInv, BatchInv, PlanOK
<1>3. PICK l, r : l = log /\ r = log'
  OBVIOUS
<1>4. r = SubSeq(l \o pending, 1,
                 IF Len(l \o pending) < LogLimit THEN Len(l \o pending) ELSE LogLimit)
  BY <1>1, <1>3 DEF Flushed
<1>5. /\ r \in Seq(Entry) /\ IsPrefix(l, r) /\ Len(r) <= LogLimit
      /\ Len(l) + Len(pending) <= LogLimit =>
           /\ Len(r) = Len(l) + Len(pending)
           /\ \A k \in 1..Len(pending) : r[Len(l) + k] = pending[k]
  <2>1. PICK p, n : /\ p = pending
                    /\ n = IF Len(l \o p) < LogLimit THEN Len(l \o p) ELSE LogLimit
    OBVIOUS
  <2>2. r = SubSeq(l \o p, 1, n)
    BY <1>4, <2>1
  <2>3. l \in Seq(Entry) /\ p \in Seq(Entry) /\ Len(l) <= LogLimit /\ LogLimit \in Nat
    BY <1>2, <1>3, <2>1
  <2>4. Grown(l, p, LogLimit, r)
    BY <2>1, <2>2, <2>3, Truncated
  <2> QED BY <2>1, <2>4 DEF Grown
<1>6. PICK a, b \in Nat : a = Len(l) /\ b = Len(pending) /\ DOMAIN pending = 1..b
  BY <1>2, <1>3, LenProperties
<1>7. b = Len(ops)
  <2>1. Len(ops) \in Nat /\ DOMAIN ops = 1..Len(ops)
    BY <1>2, LenProperties
  <2> QED BY <2>1, <1>2, <1>6, OnePerOperation
<1>8. ASSUME a + b <= LogLimit
      PROVE  {r[k].seq : k \in (a + 1)..Len(r)} = DOMAIN ops
  <2>1. Len(r) = a + b /\ \A k \in 1..b : r[a + k] = pending[k]
    BY <1>5, <1>6, <1>8
  <2>2. ASSUME NEW k \in (a + 1)..(a + b) PROVE r[k].seq \in Seqs(pending)
    <3>1. PICK j \in Int : j = k - a
      OBVIOUS
    <3>2. j \in 1..b /\ k = a + j
      BY <3>1
    <3> QED BY <3>2, <2>1, <1>6 DEF Seqs
  <2>3. ASSUME NEW j \in 1..b
        PROVE  \E k \in (a + 1)..(a + b) : r[k].seq = pending[j].seq
    <3>1. a + j \in (a + 1)..(a + b)
      OBVIOUS
    <3> QED BY <3>1, <2>1
  <2>4. Seqs(pending) \subseteq {r[k].seq : k \in (a + 1)..(a + b)}
    BY <2>3, <1>6 DEF Seqs
  <2> QED BY <2>1, <2>2, <2>4, <1>2
<1> QED BY <1>3, <1>5, <1>6, <1>7, <1>8

(* A rollback adds at most the audit entry, if there is room. *)
LEMMA RollBackLogs ==
    ASSUME LogInv, RollBack
    PROVE  /\ log' \in Seq(Entry) /\ Len(log') <= LogLimit
           /\ log' = log \/ (log' = Append(log, Last(log')) /\ ~Last(log').ok)
<1>1. BatchInv /\ PlanInv /\ log \in Seq(Entry) /\ Len(log) <= LogLimit /\ LogLimit \in Nat
  BY BatchAssumption DEF LogInv, CommitInv, RollBack, InFlight
<1>2. PICK e : e = [seq |-> Blamed, ok |-> FALSE]
  OBVIOUS
<1>3. e \in Entry /\ ~e.ok
  BY <1>1, <1>2, BlamedIsNumber DEF Entry
<1>4. log' = log \/ (log' = Append(log, e) /\ Len(log) < LogLimit)
  BY <1>2 DEF RollBack
<1>5. PICK l, r : l = log /\ r = log'
  OBVIOUS
<1>6. CASE r = Append(l, e) /\ Len(l) < LogLimit
  <2>1. r \in Seq(Entry) /\ Len(r) = Len(l) + 1 /\ r[Len(l) + 1] = e /\ Len(l) \in Nat
    BY <1>1, <1>3, <1>5, <1>6, AppendProperties, LenProperties
  <2>2. Last(r) = e /\ Len(r) <= LogLimit
    BY <2>1, <1>1, <1>6 DEF Last
  <2> QED BY <2>1, <2>2, <1>3, <1>5, <1>6
<1> QED BY <1>1, <1>4, <1>5, <1>6

(* All steps preserve LogInv. *)
LEMMA LogNext ==
    ASSUME LogInv, BatchNext PROVE LogInv'
<1>1. CommitInv /\ CommitInv'
  BY CommitNext DEF LogInv
<1>2. CASE CallerEdits \/ CallerReads \/ Reject \/ SnapshotFails
  <2>1. log' = log /\ phase' = "idle"
    BY <1>2 DEF CallerEdits, CallerReads, Reject, SnapshotFails, batchVars
  <2> QED BY <1>1, <2>1 DEF LogInv, InFlight
<1>3. CASE Start
  <2>1. log' = log
    BY <1>3 DEF Start
  <2> QED BY <1>1, <1>3, <2>1, StartReports DEF LogInv
<1>4. CASE ExecStep
  <2>1. log' = log /\ phase = "executing"
    BY <1>4 DEF ExecStep, ExecInsertBefore, ExecInsertAfter, ExecText, ExecReplace,
       ExecDelete, ExecFindsNothing, ExecContentFails, ExecTextFails, Executed, Raise
  <2> QED BY <1>1, <1>4, <2>1, StepReports DEF LogInv, InFlight
<1>5. CASE ChecksFail
  <2>1. phase = "executing" /\ Raise(TRUE)
    BY <1>5 DEF ChecksFail
  <2>2. Reported /\ log' = log
    BY <2>1 DEF LogInv, InFlight, Raise
  <2>3. Reported'
    BY <2>1, <2>2 DEF Raise, Reported, Done, Once, Seqs
  <2> QED BY <1>1, <2>2, <2>3 DEF LogInv
<1>6. CASE Commit
  <2>1. phase' = "idle"
    BY <1>6 DEF Commit
  <2> QED BY <1>1, <1>6, <2>1, CommitLogs DEF LogInv, InFlight
<1>7. CASE RollBack
  <2>1. phase' = "idle"
    BY <1>7 DEF RollBack
  <2> QED BY <1>1, <1>7, <2>1, RollBackLogs DEF LogInv, InFlight
<1>8. CASE RollbackFails
  <2>1. phase' = "split" /\ log' = log
    BY <1>8 DEF RollbackFails
  <2> QED BY <1>1, <2>1 DEF LogInv, InFlight
<1> QED BY <1>2, <1>3, <1>4, <1>5, <1>6, <1>7, <1>8 DEF BatchNext, Running

(* So do those that change nothing. *)
LEMMA LogStutter ==
    ASSUME LogInv, UNCHANGED vars PROVE LogInv'
<1>1. CommitInv'
  BY CommitStutter DEF LogInv
<1>2. /\ log' = log /\ pending' = pending /\ ops' = ops /\ todo' = todo /\ phase' = phase
  BY DEF vars
<1>3. Reported => Reported'
  BY <1>2 DEF Reported, Done, Once, Seqs
<1> QED BY <1>1, <1>2, <1>3 DEF LogInv, InFlight

(* The log stays within its limit, and a batch in flight is about to        *)
(* report exactly the operations it has carried out.                        *)
THEOREM LogInvariant == BatchSpec => []LogInv
<1>1. BatchInit => LogInv
  <2> SUFFICES ASSUME BatchInit PROVE LogInv
    OBVIOUS
  <2>1. CommitInv
    BY CommitInit
  <2>2. log \in Seq(Entry) /\ Len(log) = 0 /\ LogLimit \in Nat /\ phase = "idle"
    BY EmptySeq, BatchAssumption DEF BatchInit
  <2> QED BY <2>1, <2>2 DEF LogInv, InFlight
<1>2. LogInv /\ [BatchNext]_vars => LogInv'
  BY LogNext, LogStutter
<1> QED BY <1>1, <1>2, PTL DEF BatchSpec

(* Every step does to the log what LogStep says. *)
LEMMA LogStepHolds ==
    ASSUME LogInv, [BatchNext]_vars PROVE LogStep
<1>1. ASSUME Committing
      PROVE  /\ IsPrefix(log, log') /\ Len(log') <= LogLimit
             /\ Len(log) + Len(ops) <= LogLimit =>
                  {log'[k].seq : k \in (Len(log) + 1)..Len(log')} = DOMAIN ops
  <2>1. BatchNext
    BY <1>1 DEF Committing, vars
  <2>2. Commit
    BY <1>1, <2>1, OnlyCommitCommits
  <2> QED BY <2>2, CommitLogs
<1>2. ASSUME RollingBack
      PROVE  /\ log' = log \/ (log' = Append(log, Last(log')) /\ ~Last(log').ok)
             /\ Len(log') <= LogLimit
             /\ todo # {} => \E s \in todo : last'.blamed = s.seq
             /\ \A s \in todo : IsNext(s) /\ (\A t \in todo : s.seq <= t.seq)
                                   => last'.blamed = s.seq
  <2>1. BatchNext /\ phase = "failing" /\ phase' = "idle"
    BY <1>2 DEF RollingBack, vars
  <2>2. RollBack
    BY <2>1, OnlyRollBackRollsBack DEF RollbackFails
  <2>3. /\ log' = log \/ (log' = Append(log, Last(log')) /\ ~Last(log').ok)
        /\ Len(log') <= LogLimit
    BY <2>2, RollBackLogs
  <2>4. last'.blamed = Blamed
    BY <2>2 DEF RollBack
  <2>5. BatchInv /\ PlanInv
    BY <2>1 DEF LogInv, CommitInv, InFlight
  <2>6. ASSUME todo # {} PROVE \E s \in todo : last'.blamed = s.seq
    BY <2>4, <2>5, <2>6, BlamedIsFirst
  <2>7. ASSUME NEW s \in todo, \A t \in todo : s.seq <= t.seq
        PROVE  last'.blamed = s.seq
    <3>1. PICK b \in Nat, n \in Nat : b = Blamed /\ n = s.seq
      BY <2>5, BlamedIsFirst, StepOperation DEF BatchInv
    <3>2. b <= n
      BY <2>5, <3>1, BlamedIsFirst
    <3>3. n <= b
      <4>1. PICK t \in todo : Blamed = t.seq
        BY <2>5, BlamedIsFirst
      <4> QED BY <3>1, <4>1, <2>7
    <3> QED BY <2>4, <3>1, <3>2, <3>3
  <2> QED BY <2>3, <2>6, <2>7
<1> QED BY <1>1, <1>2 DEF LogStep

(* A committed batch adds one entry for each operation to the log if they   *)
(* all fit, and never changes what the log held; a failed one adds at most  *)
(* the audit entry; and the failure is put down to an operation that was    *)
(* not carried out, the failed one if the plan keeps the caller's order.    *)
THEOREM LogRecordsTheBatch == BatchSpec => LogRecordsCommit
<1>1. LogInv /\ [BatchNext]_vars => LogStep
  BY LogStepHolds
<1> QED BY <1>1, LogInvariant, PTL DEF BatchSpec, LogRecordsCommit
-----------------------------------------------------------------------------
(* Batches that never meet a text box. *)

(* Neither the document nor what operations insert has a text box. *)
FlatBatch == NoBoxes /\ \A o \in Operations : FlatShape(o.shape)

(* The paragraphs that the IDs stand for. *)
NodesOf(d, ids) == {d.manifest.byId[i] : i \in ids \cap Ids(d.manifest)}

(* The IDs in new, none of them older than floor, denote in e the           *)
(* paragraphs of shape, in their order.                                     *)
Reports(e, new, floor, shape, by) ==
    /\ DOMAIN new = 1..Len(shape)
    /\ \A j \in 1..Len(shape) :
         /\ new[j] \in Ids(e.manifest) /\ new[j] >= floor
         /\ e.body[e.manifest.byId[new[j]]] = <<<<by, j>>>>

(* The index is fresh, and no paragraph is in a text box. *)
FlatDoc(d) == DocInv(d) /\ Linked(d) /\ Flat(d) /\ FreshIndex(d)

(* What a step of the plan does to a document without text boxes: it writes *)
(* only in the paragraphs of ids, and diff paragraphs have come.            *)
FlatStep(d, e, ids, diff) ==
    /\ FlatDoc(e)
    /\ Step(d, e)
    /\ SameBodies(d, e, NodesOf(d, ids))
    /\ diff \in Int /\ LongerBy(d, e, diff)

(* A read of a document without text boxes: the index is built if there is  *)
(* none, and no ID is bound.                                                *)
LEMMA FlatRead ==
    ASSUME NEW d, FlatDoc(d), NEW e, e = EnsureIndex(d)
    PROVE  /\ FlatDoc(e) /\ Step(d, e) /\ Keeps(d, e, {})
           /\ e.dom = d.dom /\ e.body = d.body /\ e.fresh = d.fresh
           /\ Len(e.records) = Len(d.dom)
BY EnsureIndexStep, EnsuredTree, FlatEnsured DEF FlatDoc, Step

(* An operation between two reads. *)
LEMMA FlatBetweenReads ==
    ASSUME NEW d, FlatDoc(d), NEW e, e = EnsureIndex(d),
           NEW f, FlatDoc(f), Step(e, f), SameBodies(e, f, {}),
           NEW diff \in Int, LongerBy(e, f, diff),
           NEW g, g = f \/ g = EnsureIndex(f), NEW ids
    PROVE  /\ FlatStep(d, g, ids, diff)
           /\ g.body = f.body /\ Keeps(f, g, {}) /\ Step(f, g)
<1>1. /\ FlatDoc(e) /\ Step(d, e) /\ e.dom = d.dom /\ e.body = d.body /\ e.fresh = d.fresh
  BY FlatRead
<1>2. FlatDoc(g) /\ Step(f, g) /\ Keeps(f, g, {}) /\ g.dom = f.dom /\ g.body = f.body
  BY FlatRead, StepItself, KeepsItself DEF FlatDoc
<1>3. Step(d, g)
  <2>1. DocInv(d)
    BY DEF FlatDoc
  <2>2. Step(d, f)
    BY <2>1, <1>1, StepTransitive
  <2> QED BY <2>1, <2>2, <1>2, StepTransitive
<1>4. SameBodies(d, g, NodesOf(d, ids))
  BY <1>1, <1>2 DEF SameBodies
<1> QED BY <1>1, <1>2, <1>3, <1>4 DEF FlatStep, LongerBy

(* The IDs an operation reports are those it has bound. *)
LEMMA NewIdsReport ==
    ASSUME NEW d, FlatDoc(d), NEW floor \in Nat, floor <= d.manifest.next,
           NEW shape, IsShape(shape), FlatShape(shape),
           NEW by, NEW f, NamedAnew(d, f, shape, by), DocInv(f),
           NEW g, g.body = f.body, Keeps(f, g, {}), Step(f, g),
           NEW new, new = NewIds(d, shape)
    PROVE  Reports(g, new, floor, shape, by) /\ Len(new) = Len(shape)
<1>1. /\ d.fresh \in Nat \ {0} /\ shape \in Seq(BOOLEAN) /\ Len(shape) \in Nat
      /\ d.manifest.next \in Nat
  BY LenProperties DEF FlatDoc, DocInv, TreeOK, ManifestOK, IsManifest, IsShape
<1>2. Len(Tops(d, shape)) = Len(shape)
  BY <1>1, FlatTops
<1>3. new = [k \in 1..Len(shape) |-> d.manifest.next + k - 1]
  BY <1>2 DEF NewIds, NextIds
<1>4. ASSUME NEW j \in 1..Len(shape)
      PROVE  /\ new[j] \in Ids(g.manifest) /\ new[j] >= floor
             /\ g.body[g.manifest.byId[new[j]]] = <<<<by, j>>>>
  <2>1. PICK i : i = new[j]
    OBVIOUS
  <2>2. i = d.manifest.next + j - 1 /\ i >= floor
    BY <1>1, <1>3, <2>1
  <2>3. i \in Ids(f.manifest) /\ f.body[f.manifest.byId[i]] = <<<<by, j>>>>
    BY <2>2 DEF NamedAnew
  <2>4. i \in Ids(g.manifest) /\ g.manifest.byId[i] = f.manifest.byId[i]
    BY <2>3 DEF Keeps, Step, Follows
  <2> QED BY <2>1, <2>2, <2>3, <2>4
<1>5. Len(new) = Len(shape)
  BY <1>1, <1>3
<1> QED BY <1>3, <1>4, <1>5 DEF Reports

(* An operation of a batch, as the lemmas above need it. *)
LEMMA FlatOperation ==
    ASSUME FlatBatch, BatchInv, PlanInv, NEW s \in todo, NEW o, o = ops[s.seq]
    PROVE  /\ IsShape(o.shape) /\ FlatShape(o.shape) /\ Len(o.shape) \in Nat
           /\ s.seq \in Nat /\ o.op \in Kinds
           /\ o.targets \in Seq(Nat) /\ IsOneToOne(o.targets)
           /\ Names(o) \subseteq Ids(snap.manifest)
           /\ o.op \notin Inserting => o.shape = <<>>
<1>1. ops \in Seq(Operations) /\ s.seq \in DOMAIN ops
  BY DEF BatchInv, PlanOK
<1>2. o \in Operations
  BY <1>1, LenProperties
<1>3. o \in Operation
  BY <1>2, BatchAssumption
<1>4. o.targets \in Seq(Nat) /\ o.op \in Kinds
  BY <1>3 DEF Operation
<1>5. Len(o.shape) \in Nat
  BY <1>2, BatchAssumption, LenProperties DEF IsShape
<1>6. s.seq \in Nat
  BY StepOperation DEF BatchInv
<1> QED BY <1>1, <1>2, <1>4, <1>5, <1>6, BatchAssumption DEF FlatBatch, PlanInv

(* A text edit, whether it ends well or not, writes in its own paragraph    *)
(* and leaves the tree as it is.                                            *)
LEMMA FlatText ==
    ASSUME BatchInv, PlanInv, FlatDoc(doc), NEW s \in todo, ops[s.seq].op = "text",
           Resolves(doc, s.anchor),
           \E hit, gone \in SUBSET Boxed(doc, doc.manifest.byId[s.anchor]) :
             doc' = TextEdit(doc, s.anchor, s.seq, hit, gone)
    PROVE  FlatStep(doc, doc', Names(ops[s.seq]), 0)
<1>1. PICK id, t, ids, by : /\ id = s.anchor /\ t = doc.manifest.byId[id]
                            /\ ids = Names(ops[s.seq]) /\ by = s.seq
  OBVIOUS
<1>2. PICK hit, gone \in SUBSET Boxed(doc, t) : doc' = TextEdit(doc, id, by, hit, gone)
  BY <1>1
<1>3. /\ DocInv(doc) /\ Linked(doc) /\ Flat(doc) /\ FreshIndex(doc)
      /\ by \in Nat /\ Resolves(doc, id)
  BY <1>1, StepOperation DEF FlatDoc, BatchInv
<1>4. hit = {} /\ Flat(doc') /\ FreshIndex(doc') /\ doc'.dom = doc.dom
  BY <1>1, <1>2, <1>3, FlatEdited
<1>5. Linked(doc') /\ SameBodies(doc, doc', {t} \cup hit)
  BY <1>1, <1>2, <1>3, EditedTree
<1>6. Step(doc, doc')
  BY <1>2, <1>3, TextEditStep
<1>7. t \in NodesOf(doc, ids)
  <2>1. ids = {id}
    BY <1>1, SingleTarget DEF BatchInv, PlanOK, PlanInv
  <2> QED BY <2>1, <1>1, <1>3 DEF NodesOf, Resolves
<1>8. SameBodies(doc, doc', NodesOf(doc, ids))
  BY <1>4, <1>5, <1>7 DEF SameBodies
<1>9. LongerBy(doc, doc', 0)
  <2>1. Len(doc.dom) \in Nat
    BY <1>3, LenProperties DEF DocInv, TreeOK
  <2> QED BY <2>1, <1>4 DEF LongerBy
<1> QED BY <1>1, <1>4, <1>5, <1>6, <1>8, <1>9 DEF FlatStep, FlatDoc, Step

(* Doing nothing, or only reading. *)
LEMMA FlatIdle ==
    ASSUME NEW d, FlatDoc(d), NEW e, e = d \/ e = EnsureIndex(d), NEW ids
    PROVE  FlatStep(d, e, ids, 0) /\ Keeps(d, e, {})
<1>1. FlatDoc(e) /\ Step(d, e) /\ Keeps(d, e, {}) /\ e.dom = d.dom /\ e.body = d.body
  BY FlatRead, StepItself, KeepsItself DEF FlatDoc
<1>2. LongerBy(d, e, 0)
  <2>1. Len(d.dom) \in Nat
    BY LenProperties DEF FlatDoc, DocInv, TreeOK
  <2> QED BY <2>1, <1>1 DEF LongerBy
<1> QED BY <1>1, <1>2 DEF FlatStep, SameBodies

(* An operation that brings no paragraph reports none. *)
LEMMA NothingReported ==
    ASSUME NEW e, NEW floor, NEW by, NEW shape, shape = <<>>, NEW new, new = <<>>
    PROVE  Reports(e, new, floor, shape, by) /\ Len(new) = 0 /\ Len(shape) = 0
<1>1. Len(shape) = 0 /\ Len(new) = 0 /\ DOMAIN new = 1..0
  <2>1. new \in Seq(Nat) /\ Len(new) = 0
    BY EmptySeq
  <2> QED BY <2>1, LenProperties
<1> QED BY <1>1 DEF Reports

(* Each step that is carried out brings the paragraphs it reports, and      *)
(* counts them.                                                             *)
LEMMA FlatPlanStep ==
    ASSUME FlatBatch, BatchInv, PlanInv, FlatDoc(doc), NEW s \in todo, Step(snap, doc),
           \/ ExecInsertBefore(s) \/ ExecInsertAfter(s) \/ ExecText(s)
           \/ ExecReplace(s) \/ ExecDelete(s)
    PROVE  \E new : /\ Executed(s, new)
                    /\ FlatStep(doc, doc', Names(ops[s.seq]), Delta(ops[s.seq], new))
                    /\ Reports(doc', new, snap.manifest.next, ops[s.seq].shape, s.seq)
<1>1. PICK o, by : o = ops[s.seq] /\ by = s.seq
  OBVIOUS
<1>2. /\ IsShape(o.shape) /\ FlatShape(o.shape) /\ Len(o.shape) \in Nat
      /\ by \in Nat /\ o.op \in Kinds
      /\ o.targets \in Seq(Nat) /\ IsOneToOne(o.targets)
      /\ o.op \notin Inserting => o.shape = <<>>
  BY <1>1, FlatOperation
<1>3. PICK d : d = EnsureIndex(doc)
  OBVIOUS
<1>4. FlatDoc(d) /\ Step(doc, d)
  BY <1>3, FlatRead
<1>5. PICK floor \in Nat : floor = snap.manifest.next /\ floor <= d.manifest.next
  <2>1. Step(snap, d)
    BY <1>4, StepTransitive DEF BatchInv
  <2> QED BY <2>1 DEF Step, Follows, BatchInv, DocInv, ManifestOK, IsManifest
<1>6. PICK shape : shape = o.shape
  OBVIOUS
<1>7. PICK l \in Nat : l = Len(shape)
  BY <1>2, <1>6
<1>8. ASSUME NEW f, DocInv(f), Linked(f), SameBodies(d, f, {}), Step(d, f),
             Flat(f) /\ FreshIndex(f) /\ NamedAnew(d, f, shape, by),
             NEW diff \in Int, LongerBy(d, f, diff),
             doc' = EnsureIndex(f), NEW new, new = NewIds(d, shape)
      PROVE  /\ FlatStep(doc, doc', Names(o), diff)
             /\ Reports(doc', new, floor, shape, by) /\ Len(new) = l
  <2>1. FlatDoc(f)
    BY <1>8 DEF FlatDoc
  <2>2. PICK g, ids : g = EnsureIndex(f) /\ ids = Names(o)
    OBVIOUS
  <2>3. FlatStep(doc, g, ids, diff) /\ g.body = f.body /\ Keeps(f, g, {}) /\ Step(f, g)
    BY <2>1, <2>2, <1>3, <1>8, FlatBetweenReads
  <2>4. Reports(g, new, floor, shape, by) /\ Len(new) = Len(shape)
    BY <2>3, <1>2, <1>4, <1>5, <1>6, <1>8, NewIdsReport
  <2> QED BY <2>2, <2>3, <2>4, <1>7, <1>8
<1>9. DocInv(d) /\ Linked(d) /\ Flat(d)
  BY <1>4 DEF FlatDoc
<1>10. CASE ExecInsertBefore(s)
  <2>1. PICK f : f = InsertParaBefore(d, s.anchor, shape, by)
    OBVIOUS
  <2>2. /\ Resolves(d, s.anchor) /\ doc' = EnsureIndex(f) /\ Executed(s, NewIds(d, shape))
        /\ o.op = "insert_para_before"
    BY <1>1, <1>3, <1>6, <1>10, <2>1, RecordResolves DEF ExecInsertBefore
  <2>3. Step(d, f)
    BY <1>2, <1>6, <1>9, <2>1, <2>2, InsertBeforeStep
  <2>4. Linked(f) /\ SameBodies(d, f, {})
    BY <1>2, <1>6, <1>9, <2>1, <2>2, InsertedTree
  <2>5. /\ Flat(f) /\ FreshIndex(f) /\ NamedAnew(d, f, shape, by)
        /\ LongerBy(d, f, l)
    BY <1>2, <1>6, <1>7, <1>9, <2>1, <2>2, FlatInserted
  <2>6. PICK new : new = NewIds(d, shape)
    OBVIOUS
  <2>7. /\ FlatStep(doc, doc', Names(o), l)
        /\ Reports(doc', new, floor, shape, by) /\ Len(new) = l
    BY <2>2, <2>3, <2>4, <2>5, <2>6, <1>8 DEF Step
  <2>8. Delta(o, new) = l
    BY <2>2, <2>7 DEF Delta
  <2> QED BY <1>1, <1>5, <1>6, <2>2, <2>6, <2>7, <2>8
<1>11. CASE ExecInsertAfter(s)
  <2>1. PICK f, at : at = cursor[s.anchor] /\ f = InsertParaAfter(d, at, shape, by)
    OBVIOUS
  <2>2. /\ Resolves(d, at) /\ doc' = EnsureIndex(f) /\ Executed(s, NewIds(d, shape))
        /\ o.op = "insert_para_after"
    BY <1>1, <1>3, <1>6, <1>11, <2>1 DEF ExecInsertAfter
  <2>3. Step(d, f)
    BY <1>2, <1>6, <1>9, <2>1, <2>2, InsertAfterStep
  <2>4. Linked(f) /\ SameBodies(d, f, {})
    BY <1>2, <1>6, <1>9, <2>1, <2>2, InsertedTree
  <2>5. /\ Flat(f) /\ FreshIndex(f) /\ NamedAnew(d, f, shape, by)
        /\ LongerBy(d, f, l)
    BY <1>2, <1>6, <1>7, <1>9, <2>1, <2>2, FlatInserted
  <2>6. PICK new : new = NewIds(d, shape)
    OBVIOUS
  <2>7. /\ FlatStep(doc, doc', Names(o), l)
        /\ Reports(doc', new, floor, shape, by) /\ Len(new) = l
    BY <2>2, <2>3, <2>4, <2>5, <2>6, <1>8 DEF Step
  <2>8. Delta(o, new) = l
    BY <2>2, <2>7 DEF Delta
  <2> QED BY <1>1, <1>5, <1>6, <2>2, <2>6, <2>7, <2>8
<1>12. CASE ExecReplace(s)
  <2>1. PICK f : f = ReplacePara(d, s.anchor, shape, by)
    OBVIOUS
  <2>2. /\ Resolves(d, s.anchor) /\ doc' = EnsureIndex(f) /\ Executed(s, NewIds(d, shape))
        /\ o.op = "replace_para"
    BY <1>1, <1>3, <1>6, <1>12, <2>1, RecordResolves DEF ExecReplace
  <2>3. Step(d, f)
    BY <1>2, <1>6, <1>9, <2>1, <2>2, ReplaceStep
  <2>4. Linked(f) /\ SameBodies(d, f, {})
    BY <1>2, <1>6, <1>9, <2>1, <2>2, ReplacedTree
  <2>5. /\ Flat(f) /\ FreshIndex(f) /\ NamedAnew(d, f, shape, by)
        /\ LongerBy(d, f, Len(shape) - 1)
    BY <1>2, <1>6, <1>9, <2>1, <2>2, FlatReplaced
  <2>6. PICK new : new = NewIds(d, shape)
    OBVIOUS
  <2>a. PICK diff \in Int : diff = l - 1
    OBVIOUS
  <2>b. LongerBy(d, f, diff)
    BY <2>5, <2>a, <1>7
  <2>7. /\ FlatStep(doc, doc', Names(o), diff)
        /\ Reports(doc', new, floor, shape, by) /\ Len(new) = l
    BY <2>2, <2>3, <2>4, <2>5, <2>6, <2>b, <1>8 DEF Step
  <2>8. Delta(o, new) = diff
    BY <2>2, <2>7, <2>a DEF Delta
  <2> QED BY <1>1, <1>5, <1>6, <2>2, <2>6, <2>7, <2>8
<1>13. CASE ExecDelete(s)
  <2>1. PICK ids, f : ids = Names(o) /\ f = DeletePara(d, ids)
    OBVIOUS
  <2>2. /\ doc' = f /\ Executed(s, <<>>) /\ o.op = "delete_para"
        /\ \A i \in ids : Resolves(d, i)
    BY <1>1, <1>3, <1>13, <2>1, RecordResolves DEF ExecDelete
  <2>3. Step(d, f)
    BY <1>9, <2>1, <2>2, DeleteStep
  <2>4. Linked(f) /\ SameBodies(d, f, {})
    BY <1>9, <2>1, <2>2, DeletedTree
  <2>5. Flat(f) /\ FreshIndex(f) /\ Len(f.dom) = Len(d.dom) - Cardinality(ids)
    BY <1>9, <2>1, <2>2, FlatDeleted
  <2>6. Cardinality(ids) = Len(o.targets) /\ Len(o.targets) \in Nat
    BY <1>2, <2>1, LenIsCardinality, LenProperties DEF Names
  <2>7. Len(d.dom) \in Nat
    BY <1>9, LenProperties DEF DocInv, TreeOK
  <2>8. PICK diff \in Int : diff = -Len(o.targets)
    BY <2>6
  <2>9. LongerBy(d, f, diff)
    BY <2>5, <2>6, <2>7, <2>8 DEF LongerBy
  <2>10. FlatDoc(f)
    BY <2>3, <2>4, <2>5 DEF FlatDoc, Step
  <2>11. FlatStep(doc, f, ids, diff)
    BY <1>3, <2>3, <2>4, <2>9, <2>10, FlatBetweenReads
  <2>12. PICK new : new = <<>>
    OBVIOUS
  <2>13. Reports(f, new, floor, shape, by)
    BY <1>2, <1>6, <2>2, <2>12, NothingReported DEF Inserting
  <2>14. Delta(o, new) = diff
    BY <2>2, <2>8 DEF Delta
  <2> QED BY <1>1, <1>5, <1>6, <2>1, <2>2, <2>11, <2>12, <2>13, <2>14
<1>14. CASE ExecText(s)
  <2>1. /\ Executed(s, <<>>) /\ o.op = "text" /\ FlatStep(doc, doc', Names(o), 0)
    BY <1>1, <1>14, FlatText DEF ExecText
  <2>2. PICK new : new = <<>>
    OBVIOUS
  <2>3. Reports(doc', new, floor, shape, by) /\ Len(new) = 0
    BY <1>2, <1>6, <2>1, <2>2, NothingReported DEF Inserting
  <2>4. Delta(o, new) = 0
    BY <2>1, <2>3 DEF Delta
  <2> QED BY <1>1, <1>5, <1>6, <2>1, <2>2, <2>3, <2>4
<1> QED BY <1>10, <1>11, <1>12, <1>13, <1>14
-----------------------------------------------------------------------------
(* The account of a batch in flight: how many paragraphs there are, which   *)
(* of the old ones may have been written, and which new ones each operation *)
(* carried out has brought.                                                 *)

(* The IDs that the batch names. *)
Touched == UNION {Names(ops[i]) : i \in DOMAIN ops}

(* The account. *)
Accounted ==
    /\ delta \in Int /\ LongerBy(snap, doc, delta)
    /\ SameBodies(snap, doc, NodesOf(snap, Touched))
    /\ \A k \in Done : Reports(doc, results[k], snap.manifest.next, ops[k].shape, k)

(* The inductive invariant of batches that meet no text box. *)
FlatInv ==
    /\ CommitInv
    /\ FlatDoc(doc) /\ Flat(snap)
    /\ InFlight => Accounted

(* The paragraphs an operation has brought are not written by later ones,   *)
(* which name IDs of the snapshot, and keep their IDs.                      *)
LEMMA ReportsKept ==
    ASSUME NEW d, DocInv(d), NEW e, NEW ids, Step(d, e), SameBodies(d, e, NodesOf(d, ids)),
           NEW gone, Keeps(d, e, gone),
           NEW floor \in Nat, \A i \in ids \cup gone : i \in Nat /\ i < floor,
           NEW new, NEW shape, NEW by, Reports(d, new, floor, shape, by)
    PROVE  Reports(e, new, floor, shape, by)
<1>1. ASSUME NEW j \in 1..Len(shape)
      PROVE  /\ new[j] \in Ids(e.manifest) /\ new[j] >= floor
             /\ e.body[e.manifest.byId[new[j]]] = <<<<by, j>>>>
  <2>1. PICK i, n : i = new[j] /\ n = d.manifest.byId[i]
    OBVIOUS
  <2>2. i \in Ids(d.manifest) /\ i >= floor /\ d.body[n] = <<<<by, j>>>>
    BY <2>1 DEF Reports
  <2>3. /\ Sound(d.manifest) /\ i \in 1..(d.manifest.next - 1)
        /\ DOMAIN d.manifest.byNode \subseteq 1..(d.fresh - 1)
    BY <2>2 DEF DocInv, ManifestOK, Sound
  <2>4. i \notin ids /\ i \notin gone
    BY <2>2, <2>3
  <2>5. i \in Ids(e.manifest) /\ e.manifest.byId[i] = n
    BY <2>1, <2>2, <2>4 DEF Keeps, Step, Follows
  <2>6. n \in 1..(d.fresh - 1) /\ n \notin NodesOf(d, ids)
    BY <2>1, <2>2, <2>3, <2>4 DEF Sound, NodesOf
  <2>7. e.body[n] = d.body[n]
    BY <2>6 DEF SameBodies
  <2> QED BY <2>1, <2>2, <2>5, <2>7
<1> QED BY <1>1 DEF Reports

(* The account after a call that writes only in paragraphs the batch        *)
(* names.                                                                   *)
LEMMA AccountKept ==
    ASSUME CommitInv, InFlight, FlatDoc(doc), Accounted,
           NEW e, NEW ids, ids \subseteq Ids(snap.manifest) \cap Touched,
           NEW diff, FlatStep(doc, e, ids, diff),
           NEW gone, gone \subseteq Ids(snap.manifest), Keeps(doc, e, gone)
    PROVE  /\ delta + diff \in Int /\ LongerBy(snap, e, delta + diff)
           /\ SameBodies(snap, e, NodesOf(snap, Touched))
           /\ \A k \in Done : Reports(e, results[k], snap.manifest.next, ops[k].shape, k)
<1>1. DocInv(snap) /\ DocInv(doc) /\ Step(snap, doc)
  BY SnapshotFirst DEF CommitInv
<1>2. LongerBy(snap, e, delta + diff) /\ delta + diff \in Int
  <2>1. PICK a \in Nat, b \in Int, c \in Int : a = Len(snap.dom) /\ b = delta /\ c = diff
    BY <1>1, LenProperties DEF DocInv, TreeOK, Accounted, FlatStep
  <2>2. PICK x, y : x = Len(doc.dom) /\ y = Len(e.dom)
    OBVIOUS
  <2>3. x = a + b /\ y = x + c
    BY <2>1, <2>2 DEF Accounted, FlatStep, LongerBy
  <2>4. y = a + (b + c) /\ b + c \in Int
    BY <2>3
  <2> QED BY <2>1, <2>2, <2>4 DEF LongerBy
<1>3. SameBodies(snap, e, NodesOf(snap, Touched))
  <2>1. PICK S, T : S = NodesOf(snap, Touched) /\ T = NodesOf(doc, ids)
    OBVIOUS
  <2>2. T \subseteq S
    <3>1. \A i \in ids \cap Ids(doc.manifest) :
             /\ i \in Touched \cap Ids(snap.manifest)
             /\ doc.manifest.byId[i] = snap.manifest.byId[i]
      BY <1>1 DEF Step, Follows
    <3> QED BY <2>1, <3>1 DEF NodesOf
  <2>3. snap.fresh <= doc.fresh
    BY DEF CommitInv, PlanInv, Keeps
  <2>4. SameBodies(snap, e, S \cup T)
    BY <1>1, <2>1, <2>3, SameBodiesTransitive DEF Accounted, FlatStep
  <2>5. S \cup T = S
    BY <2>2
  <2> QED BY <2>1, <2>4, <2>5
<1>4. ASSUME NEW k \in Done
      PROVE  Reports(e, results[k], snap.manifest.next, ops[k].shape, k)
  <2>1. PICK floor \in Nat : floor = snap.manifest.next
    BY <1>1 DEF DocInv, ManifestOK, IsManifest
  <2>2. \A i \in ids \cup gone : i \in Nat /\ i < floor
    BY <1>1, <2>1 DEF DocInv, ManifestOK, Sound
  <2>3. PICK new, shape : new = results[k] /\ shape = ops[k].shape
    OBVIOUS
  <2>4. Reports(doc, new, floor, shape, k)
    BY <2>1, <2>3 DEF Accounted
  <2>5. Reports(e, new, floor, shape, k)
    BY <1>1, <2>2, <2>4, ReportsKept DEF FlatStep
  <2> QED BY <2>1, <2>3, <2>5
<1> QED BY <1>2, <1>3, <1>4

(* What an operation names and retires is accounted for. *)
LEMMA TouchedOf ==
    ASSUME BatchInv, PlanInv, NEW s \in todo
    PROVE  /\ Names(ops[s.seq]) \subseteq Ids(snap.manifest) \cap Touched
           /\ Gone(ops[s.seq]) \subseteq Ids(snap.manifest)
BY DEF BatchInv, PlanOK, PlanInv, Touched, Gone

(* A step that is carried out is accounted for. *)
LEMMA FlatExecuted ==
    ASSUME FlatBatch, FlatInv, phase = "executing", NEW s \in todo,
           \/ ExecInsertBefore(s) \/ ExecInsertAfter(s) \/ ExecText(s)
           \/ ExecReplace(s) \/ ExecDelete(s)
    PROVE  FlatDoc(doc)' /\ Accounted'
<1>1. /\ CommitInv /\ BatchInv /\ PlanInv /\ Accounted /\ FlatDoc(doc) /\ InFlight
      /\ Linked(doc) /\ todo \subseteq Plan(ops)
  BY DEF FlatInv, CommitInv, InFlight, PlanInv
<1>2. Step(snap, doc)
  BY <1>1, SnapshotFirst
<1>3. PICK new : /\ Executed(s, new)
                 /\ FlatStep(doc, doc', Names(ops[s.seq]), Delta(ops[s.seq], new))
                 /\ Reports(doc', new, snap.manifest.next, ops[s.seq].shape, s.seq)
  BY <1>1, <1>2, FlatPlanStep
<1>4. PICK e, ids, gone, diff :
        /\ e = doc' /\ ids = Names(ops[s.seq]) /\ gone = Gone(ops[s.seq])
        /\ diff = Delta(ops[s.seq], new)
  OBVIOUS
<1>5. FlatStep(doc, e, ids, diff) /\ Keeps(doc, e, gone)
  BY <1>1, <1>3, <1>4, StepsRetireTheirs
<1>6. ids \subseteq Ids(snap.manifest) \cap Touched /\ gone \subseteq Ids(snap.manifest)
  BY <1>1, <1>4, TouchedOf
<1>7. /\ delta + diff \in Int /\ LongerBy(snap, e, delta + diff)
      /\ SameBodies(snap, e, NodesOf(snap, Touched))
      /\ \A k \in Done : Reports(e, results[k], snap.manifest.next, ops[k].shape, k)
  BY <1>1, <1>5, <1>6, AccountKept
<1>8. /\ ops' = ops /\ snap' = snap /\ todo' = todo \ {s} /\ delta' = delta + diff
      /\ results' = [i \in DOMAIN results \cup {s.seq} |->
                        IF i = s.seq THEN new ELSE results[i]]
  BY <1>3, <1>4 DEF Executed
<1>9. Done' = Done \cup {s.seq} /\ s.seq \notin Done /\ DOMAIN results = Done
  BY <1>1, <1>8, OneMoreDone DEF PlanInv
<1>10. ASSUME NEW k \in Done'
       PROVE  Reports(e, results'[k], snap.manifest.next, ops[k].shape, k)
  <2>1. CASE k = s.seq
    BY <2>1, <1>3, <1>4, <1>8
  <2>2. CASE k # s.seq
    BY <2>2, <1>7, <1>8, <1>9
  <2> QED BY <2>1, <2>2
<1>11. (NodesOf(snap, Touched))' = NodesOf(snap, Touched)
  BY <1>8 DEF NodesOf, Touched, Names, Elems, Ids
<1>12. LongerBy(snap, doc, delta)' /\ delta' \in Int
  BY <1>4, <1>7, <1>8
<1>13. SameBodies(snap, doc, NodesOf(snap, Touched))'
  BY <1>4, <1>7, <1>8, <1>11
<1>14. (\A k \in Done : Reports(doc, results[k], snap.manifest.next, ops[k].shape, k))'
  BY <1>4, <1>8, <1>10
<1>15. FlatDoc(doc')
  BY <1>4, <1>5 DEF FlatStep
<1> QED BY <1>12, <1>13, <1>14, <1>15 DEF Accounted

(* A step that fails and a read change nothing of the account. *)
LEMMA FlatUnchanged ==
    ASSUME FlatInv, InFlight, NEW ids, ids \subseteq Ids(snap.manifest) \cap Touched,
           FlatStep(doc, doc', ids, 0), Keeps(doc, doc', {}),
           ops' = ops, todo' = todo, snap' = snap, results' = results, delta' = delta
    PROVE  FlatDoc(doc)' /\ Accounted'
<1>1. PICK e, gone : e = doc' /\ gone = {}
  OBVIOUS
<1>2. FlatStep(doc, e, ids, 0) /\ Keeps(doc, e, gone) /\ gone \subseteq Ids(snap.manifest)
  BY <1>1
<1>3. CommitInv /\ Accounted /\ FlatDoc(doc)
  BY DEF FlatInv
<1>4. /\ delta + 0 \in Int /\ LongerBy(snap, e, delta + 0)
      /\ SameBodies(snap, e, NodesOf(snap, Touched))
      /\ \A k \in Done : Reports(e, results[k], snap.manifest.next, ops[k].shape, k)
  <2>1. PICK diff : diff = 0
    OBVIOUS
  <2>2. FlatStep(doc, e, ids, diff)
    BY <1>2, <2>1
  <2>3. /\ delta + diff \in Int /\ LongerBy(snap, e, delta + diff)
        /\ SameBodies(snap, e, NodesOf(snap, Touched))
        /\ \A k \in Done : Reports(e, results[k], snap.manifest.next, ops[k].shape, k)
    BY <1>2, <1>3, <2>2, AccountKept
  <2> QED BY <2>1, <2>3
<1>5. delta + 0 = delta /\ delta \in Int
  BY <1>3 DEF Accounted
<1>6. (NodesOf(snap, Touched))' = NodesOf(snap, Touched) /\ Done' = Done
  BY DEF NodesOf, Touched, Names, Elems, Ids, Done
<1>7. LongerBy(snap, doc, delta)' /\ delta' \in Int
  BY <1>1, <1>4, <1>5
<1>8. SameBodies(snap, doc, NodesOf(snap, Touched))'
  BY <1>1, <1>4, <1>6
<1>9. (\A k \in Done : Reports(doc, results[k], snap.manifest.next, ops[k].shape, k))'
  BY <1>1, <1>4, <1>6
<1>10. FlatDoc(doc')
  BY <1>1, <1>2 DEF FlatStep
<1> QED BY <1>7, <1>8, <1>9, <1>10 DEF Accounted

(* A step that fails leaves the account as it is. *)
LEMMA FlatFailed ==
    ASSUME FlatBatch, FlatInv, phase = "executing", NEW s \in todo,
           ExecFindsNothing(s) \/ ExecContentFails(s) \/ ExecTextFails(s)
    PROVE  FlatDoc(doc)' /\ Accounted'
<1>1. /\ BatchInv /\ PlanInv /\ FlatDoc(doc) /\ InFlight /\ Linked(doc)
  BY DEF FlatInv, CommitInv, InFlight
<1>2. PICK ids : ids = Names(ops[s.seq])
  OBVIOUS
<1>3. ids \subseteq Ids(snap.manifest) \cap Touched
  BY <1>1, <1>2, TouchedOf
<1>4. Keeps(doc, doc', {}) /\ \E audited : Raise(audited)
  BY <1>1, FailuresRetireNone
<1>5. ops' = ops /\ todo' = todo /\ snap' = snap /\ results' = results /\ delta' = delta
  BY <1>4 DEF Raise
<1>6. FlatStep(doc, doc', ids, 0)
  <2>1. CASE doc' = doc \/ doc' = EnsureIndex(doc)
    BY <2>1, <1>1, FlatIdle
  <2>2. CASE ~(doc' = doc \/ doc' = EnsureIndex(doc))
    <3>1. ExecTextFails(s)
      BY <2>2 DEF ExecFindsNothing, ExecContentFails
    <3>2. /\ ops[s.seq].op = "text" /\ Resolves(doc, s.anchor)
          /\ \E hit, gone \in SUBSET Boxed(doc, doc.manifest.byId[s.anchor]) :
               doc' = TextEdit(doc, s.anchor, s.seq, hit, gone)
      BY <2>2, <3>1 DEF ExecTextFails
    <3> QED BY <1>1, <1>2, <3>2, FlatText
  <2> QED BY <2>1, <2>2
<1> QED BY <1>1, <1>3, <1>4, <1>5, <1>6, FlatUnchanged

(* A batch starts with a clean account. *)
LEMMA FlatStarts ==
    ASSUME FlatInv, Start PROVE Accounted' /\ FlatDoc(doc)' /\ Flat(snap)'
<1>1. doc' = doc /\ snap' = doc /\ results' = <<>> /\ delta' = 0
  BY DEF Start, FlatInv, CommitInv, AtRest
<1>2. FlatDoc(doc)
  BY DEF FlatInv
<1>3. SameBodies(doc, doc, {}) /\ Len(doc.dom) \in Nat
  BY <1>2, KeepsItself, LenProperties DEF FlatDoc, DocInv, TreeOK
<1>4. PICK S : S = (NodesOf(snap, Touched))'
  OBVIOUS
<1>5. SameBodies(doc, doc, S) /\ LongerBy(doc, doc, 0)
  BY <1>3 DEF SameBodies, LongerBy
<1>6. Done' = {}
  <2>1. PlanInv'
    BY StartPlans DEF FlatInv
  <2>2. DOMAIN results' = {}
    BY <1>1
  <2> QED BY <2>1, <2>2 DEF PlanInv
<1>7. LongerBy(snap, doc, delta)' /\ delta' \in Int
  BY <1>1, <1>5
<1>8. SameBodies(snap, doc, NodesOf(snap, Touched))'
  BY <1>1, <1>4, <1>5
<1>9. (\A k \in Done : Reports(doc, results[k], snap.manifest.next, ops[k].shape, k))'
  BY <1>6
<1> QED BY <1>1, <1>2, <1>7, <1>8, <1>9 DEF Accounted, FlatDoc

(* A rollback leaves a document without text boxes, and no stale index. *)
LEMMA FlatRolledBack ==
    ASSUME FlatInv, RollBack PROVE FlatDoc(doc)'
<1>1. PICK e : e = RolledBack
  OBVIOUS
<1>2. CanRollBack /\ (doc' = e \/ doc' = EnsureIndex(e)) /\ DocInv(snap) /\ Flat(snap)
  BY <1>1 DEF RollBack, FlatInv, CommitInv, BatchInv
<1>3. DocInv(e) /\ PutBack(e, snap) /\ ~e.cached
  BY <1>1, <1>2, RolledBackFields
<1>4. Linked(e)
  BY <1>3, PutBackRead
<1>5. FlatDoc(e)
  BY <1>2, <1>3, <1>4 DEF FlatDoc, Flat, PutBack, FreshIndex
<1> QED BY <1>2, <1>5, FlatRead

(* All steps preserve FlatInv. *)
LEMMA FlatNext ==
    ASSUME FlatBatch, FlatInv, BatchNext PROVE FlatInv'
<1>1. /\ CommitInv /\ CommitInv' /\ FlatDoc(doc) /\ Flat(snap)
      /\ DocInv(doc) /\ Linked(doc) /\ Flat(doc) /\ FreshIndex(doc)
  BY CommitNext DEF FlatInv, FlatDoc
<1>2. DocInv(doc') /\ Linked(doc')
  BY <1>1 DEF CommitInv, BatchInv
<1>3. CASE CallerEdits \/ CallerReads \/ Reject \/ SnapshotFails
  <2>1. phase' = "idle" /\ snap' = snap /\ (Next \/ doc' = doc)
    BY <1>3 DEF CallerEdits, CallerReads, Reject, SnapshotFails, batchVars, Next
  <2>2. Flat(doc') /\ FreshIndex(doc')
    BY <1>1, <2>1, NextFlat DEF FlatBatch
  <2> QED BY <1>1, <1>2, <2>1, <2>2 DEF FlatInv, FlatDoc, InFlight
<1>4. CASE Start
  BY <1>1, <1>4, FlatStarts DEF FlatInv
<1>5. CASE ExecStep
  <2>1. PICK s \in todo :
          \/ ExecInsertBefore(s) \/ ExecInsertAfter(s) \/ ExecText(s)
          \/ ExecReplace(s) \/ ExecDelete(s)
          \/ ExecFindsNothing(s) \/ ExecContentFails(s) \/ ExecTextFails(s)
    BY <1>5 DEF ExecStep
  <2>2. phase = "executing" /\ snap' = snap
    BY <2>1 DEF ExecInsertBefore, ExecInsertAfter, ExecText, ExecReplace,
       ExecDelete, ExecFindsNothing, ExecContentFails, ExecTextFails, Executed, Raise
  <2>3. FlatDoc(doc)' /\ Accounted'
    BY <2>1, <2>2, FlatExecuted, FlatFailed
  <2> QED BY <1>1, <2>2, <2>3 DEF FlatInv
<1>6. CASE ChecksFail
  <2>1. /\ InFlight /\ doc' = EnsureIndex(doc) /\ snap' = snap
        /\ ops' = ops /\ todo' = todo /\ results' = results /\ delta' = delta
    BY <1>6 DEF ChecksFail, Raise, InFlight
  <2>2. PICK ids : ids = {}
    OBVIOUS
  <2>3. FlatStep(doc, doc', ids, 0) /\ Keeps(doc, doc', {})
    BY <1>1, <2>1, FlatIdle
  <2>4. FlatDoc(doc)' /\ Accounted'
    BY <2>1, <2>2, <2>3, FlatUnchanged
  <2> QED BY <1>1, <2>1, <2>4 DEF FlatInv
<1>7. CASE Commit
  <2>1. phase' = "idle" /\ doc' = EnsureIndex(doc) /\ snap' = Opened
    BY <1>7 DEF Commit, BatchReset
  <2>2. FlatDoc(doc') /\ Flat(Opened)
    BY <1>1, <2>1, FlatRead, OpenedFlat DEF FlatBatch, NoBoxes
  <2> QED BY <1>1, <2>1, <2>2 DEF FlatInv, InFlight, FlatDoc
<1>8. CASE RollBack
  <2>1. phase' = "idle" /\ snap' = Opened
    BY <1>8 DEF RollBack, BatchReset
  <2>2. Flat(Opened)
    BY OpenedFlat DEF FlatBatch, NoBoxes
  <2> QED BY <1>1, <1>8, <2>1, <2>2, FlatRolledBack DEF FlatInv, InFlight
<1>9. CASE RollbackFails
  <2>1. phase' = "split" /\ doc' = doc /\ snap' = snap
    BY <1>9 DEF RollbackFails
  <2> QED BY <1>1, <2>1 DEF FlatInv, InFlight, FlatDoc
<1> QED BY <1>3, <1>4, <1>5, <1>6, <1>7, <1>8, <1>9 DEF BatchNext, Running

(* So do those that change nothing. *)
LEMMA FlatStutter ==
    ASSUME FlatInv, UNCHANGED vars PROVE FlatInv'
<1>1. CommitInv'
  BY CommitStutter DEF FlatInv
<1>2. /\ doc' = doc /\ phase' = phase /\ snap' = snap /\ ops' = ops /\ todo' = todo
      /\ results' = results /\ delta' = delta
  BY DEF vars
<1>3. FlatDoc(doc)' /\ Flat(snap)'
  BY <1>2 DEF FlatInv, FlatDoc
<1>4. ASSUME InFlight PROVE Accounted'
  <2>1. PICK ids : ids = {}
    OBVIOUS
  <2>2. FlatStep(doc, doc', ids, 0) /\ Keeps(doc, doc', {})
    BY <1>2, FlatIdle DEF FlatInv
  <2> QED BY <1>2, <1>4, <2>1, <2>2, FlatUnchanged
<1> QED BY <1>1, <1>2, <1>3, <1>4 DEF FlatInv, InFlight

(* FlatInv is an inductive invariant of batches that meet no text box. *)
THEOREM FlatInvariant ==
    ASSUME FlatBatch PROVE BatchSpec => []FlatInv
<1>1. BatchInit => FlatInv
  <2> SUFFICES ASSUME BatchInit PROVE FlatInv
    OBVIOUS
  <2>1. doc = Opened /\ snap = Opened /\ phase = "idle"
    BY DEF BatchInit, Init
  <2>2. CommitInv /\ Flat(Opened) /\ FreshIndex(Opened)
    BY CommitInit, OpenedFlat DEF FlatBatch, NoBoxes
  <2> QED BY <2>1, <2>2 DEF FlatInv, FlatDoc, InFlight, CommitInv, BatchInv
<1>2. FlatInv /\ [BatchNext]_vars => FlatInv'
  BY FlatNext, FlatStutter
<1> QED BY <1>1, <1>2, PTL DEF BatchSpec

(* No batch, committed, failed or rolled back, leaves a stale index behind  *)
(* where there are no text boxes.                                           *)
THEOREM BatchIndexStaysFresh ==
    ASSUME FlatBatch PROVE BatchSpec => []IndexFresh
<1>1. FlatInv => IndexFresh
  BY DEF FlatInv, FlatDoc, FreshIndex, ListsTree, IndexFresh
<1> QED BY <1>1, FlatInvariant, PTL
-----------------------------------------------------------------------------
(* The checks before the commit. *)

(* The fingerprint of a paragraph that was not written. *)
LEMMA SameHash ==
    ASSUME NEW d, DocInv(d), Flat(d), NEW n \in Elems(d.dom)
    PROVE  Hash(d, n) = [k \in 0..0 |-> d.body[n]]
<1>1. Boxed(d, n) = {} /\ Cardinality({}) = 0
  BY FlatBoxed, FS_EmptySet
<1>2. d.dom[PosOf(d.dom, n)] = n /\ PosOf(d.dom, n) \in Nat
  BY PosOfProperties, LenProperties DEF DocInv, TreeOK
<1>3. \A k \in 0..0 : PosOf(d.dom, n) + k = PosOf(d.dom, n)
  BY <1>2
<1> QED BY <1>1, <1>2, <1>3 DEF Hash

(* The count of paragraphs is right, and the paragraphs that no operation   *)
(* names are unwritten: the checks find nothing.                            *)
LEMMA PassesChecks ==
    ASSUME FlatInv, phase = "executing", todo = {}, NEW d, d = EnsureIndex(doc)
    PROVE  CommitChecks(d)
<1>1. /\ CommitInv /\ BatchInv /\ PlanInv /\ Accounted /\ Linked(snap) /\ Flat(snap)
      /\ FlatDoc(doc) /\ Done = DOMAIN ops /\ InFlight
  BY AllDone DEF FlatInv, CommitInv, InFlight
<1>2. DocInv(snap) /\ Step(snap, doc) /\ Sound(snap.manifest)
  BY <1>1, SnapshotFirst DEF DocInv, ManifestOK
<1>3. /\ FlatDoc(d) /\ Step(doc, d) /\ Keeps(doc, d, {})
      /\ d.dom = doc.dom /\ d.body = doc.body /\ d.fresh = doc.fresh
      /\ Len(d.records) = Len(doc.dom)
  BY <1>1, FlatRead
<1>4. /\ DocInv(d) /\ Flat(d) /\ Linked(d)
      /\ Sound(d.manifest) /\ Elems(d.manifest.order) = Ids(d.manifest)
  BY <1>3 DEF FlatDoc, DocInv, ManifestOK, Sound
<1>5. Step(snap, d)
  BY <1>2, <1>3, StepTransitive
<1>6. PICK gone : gone = UNION {Gone(ops[k]) : k \in Done}
  OBVIOUS
<1>7. Keeps(snap, d, gone)
  <2>1. gone \subseteq Ids(snap.manifest) /\ Keeps(snap, doc, gone)
    BY <1>1, <1>6, RetiredWereBound DEF PlanInv
  <2>2. Keeps(snap, d, gone \cup {})
    BY <1>2, <1>3, <2>1, KeepsTransitive
  <2>3. gone \cup {} = gone
    OBVIOUS
  <2> QED BY <2>2, <2>3
<1>8. CountAgrees(d)
  <2>1. \A n \in Elems(snap.dom) : snap.host[n] = NoHost
    <3>1. Elems(snap.dom) \subseteq 1..(snap.fresh - 1)
      BY <1>2, ElemsInSet DEF DocInv, TreeOK
    <3> QED BY <3>1, <1>1 DEF Flat
  <2>2. Len(snap.dom) = Len(snap.manifest.order)
    BY <1>1, <1>2, <2>1, CountsAgree DEF PlanInv
  <2> QED BY <1>1, <1>3, <2>2 DEF CountAgrees, Accounted, LongerBy
<1>9. RemovedAreGone(d)
  <2>1. ASSUME NEW i \in DOMAIN ops, ops[i].op \in {"replace_para", "delete_para"}
        PROVE  Names(ops[i]) \cap Ids(d.manifest) = {}
    <3>1. Names(ops[i]) \subseteq gone
      BY <1>1, <1>6, <2>1 DEF Gone
    <3> QED BY <3>1, <1>7 DEF Keeps
  <2> QED BY <2>1, <1>4 DEF RemovedAreGone
<1>10. AllResolve(d)
  BY <1>4, FlatLinked DEF AllResolve
<1>11. UntouchedKept(d)
  <2>1. ASSUME NEW id \in Ids(snap.manifest) \ Touched
        PROVE  id \in Ids(d.manifest) /\ HashOf(d, id) = HashOf(snap, id)
    <3>1. id \notin gone
      BY <1>1, <1>6 DEF Gone, Touched
    <3>2. id \in Ids(d.manifest)
      BY <3>1, <1>7 DEF Keeps
    <3>3. PICK n : n = snap.manifest.byId[id]
      OBVIOUS
    <3>4. d.manifest.byId[id] = n
      BY <3>2, <3>3, <1>5 DEF Step, Follows
    <3>5. n \in Elems(d.dom) /\ n \in Elems(snap.dom)
      BY <3>2, <3>3, <3>4, <1>1, <1>4, FlatLinked DEF PlanInv, Resolves, InTree
    <3>6. n \in 1..(snap.fresh - 1) /\ n \notin NodesOf(snap, Touched)
      <4>1. n \in 1..(snap.fresh - 1)
        BY <3>5, <1>2, ElemsInSet DEF DocInv, TreeOK
      <4>2. n \notin NodesOf(snap, Touched)
        BY <3>3, <1>2 DEF NodesOf, Sound
      <4> QED BY <4>1, <4>2
    <3>7. d.body[n] = snap.body[n]
      BY <3>6, <1>1, <1>3 DEF Accounted, SameBodies
    <3>8. Hash(d, n) = Hash(snap, n)
      BY <3>5, <3>7, <1>1, <1>2, <1>4, SameHash
    <3> QED BY <3>2, <3>3, <3>4, <3>8 DEF HashOf
  <2>2. Elems(snap.manifest.order) = Ids(snap.manifest)
    BY <1>2 DEF Sound
  <2> QED BY <2>1, <2>2, <1>4 DEF UntouchedKept, Touched
<1> QED BY <1>8, <1>9, <1>10, <1>11 DEF CommitChecks

(* A plan that has been carried out to its end passes the commit checks: a  *)
(* batch that fails, fails at one of its operations.                        *)
THEOREM PlansPassTheChecks ==
    ASSUME FlatBatch PROVE BatchSpec => []PlanPassesChecks
<1>1. FlatInv => PlanPassesChecks
  BY PassesChecks DEF PlanPassesChecks
<1> QED BY <1>1, FlatInvariant, PTL
-----------------------------------------------------------------------------
(* What a committed batch reports. *)

(* The commit reports the new paragraphs. *)
LEMMA ReportStep ==
    ASSUME FlatInv, [BatchNext]_vars PROVE ResultStep
<1>1. SUFFICES ASSUME Committing PROVE ResultStep
  BY DEF ResultStep
<1>2. BatchNext
  BY <1>1 DEF Committing, vars
<1>3. Commit
  BY <1>1, <1>2, OnlyCommitCommits
<1>4. doc' = EnsureIndex(doc) /\ todo = {} /\ InFlight
  BY <1>3 DEF Commit, InFlight
<1>5. PICK d : d = EnsureIndex(doc)
  OBVIOUS
<1>6. /\ PlanInv /\ Accounted /\ FlatDoc(doc) /\ Done = DOMAIN ops
      /\ BatchInv /\ DOMAIN results = DOMAIN ops /\ DocInv(doc)
  BY <1>4, AllDone DEF FlatInv, CommitInv, PlanInv, FlatDoc
<1>7. /\ FlatDoc(d) /\ Step(doc, d) /\ Keeps(doc, d, {}) /\ d.body = doc.body
      /\ DocInv(d) /\ Flat(d) /\ Linked(d)
  BY <1>5, <1>6, FlatRead DEF FlatDoc
<1>8. ASSUME NEW i \in DOMAIN ops
      PROVE  Reports(d, results[i], snap.manifest.next, ops[i].shape, i)
  <2>1. PICK floor \in Nat : floor = snap.manifest.next
    BY <1>6 DEF BatchInv, DocInv, ManifestOK, IsManifest
  <2>2. PICK ids, new, shape : ids = {} /\ new = results[i] /\ shape = ops[i].shape
    OBVIOUS
  <2>3. Reports(doc, new, floor, shape, i)
    BY <1>6, <2>1, <2>2 DEF Accounted
  <2>4. SameBodies(doc, d, NodesOf(doc, ids)) /\ Keeps(doc, d, ids)
        /\ \A j \in ids \cup ids : j \in Nat /\ j < floor
    BY <1>7, <2>2 DEF SameBodies
  <2>5. Reports(d, new, floor, shape, i)
    BY <1>6, <1>7, <2>3, <2>4, ReportsKept
  <2> QED BY <2>1, <2>2, <2>5
<1>9. ASSUME NEW i \in DOMAIN ops
      PROVE  [k \in DOMAIN results[i] |-> d.body[d.manifest.byId[results[i][k]]]]
               = [k \in DOMAIN ops[i].shape |-> <<<<i, k>>>>]
  <2>1. DOMAIN ops[i].shape = 1..Len(ops[i].shape)
    <3>1. ops[i] \in Operations
      BY <1>6, LenProperties DEF BatchInv, PlanOK
    <3> QED BY <3>1, BatchAssumption, LenProperties DEF IsShape
  <2> QED BY <2>1, <1>8 DEF Reports
<1>10. ASSUME NEW i \in DOMAIN ops, NEW id \in Elems(results[i])
       PROVE  Resolves(d, id)
  <2>1. PICK k \in DOMAIN results[i] : id = results[i][k]
    BY DEF Elems
  <2>2. id \in Ids(d.manifest)
    BY <2>1, <1>8 DEF Reports
  <2> QED BY <2>2, <1>7, FlatLinked
<1> QED BY <1>4, <1>5, <1>6, <1>9, <1>10 DEF ResultStep, Resolves, InTree, Ids, Elems

(* Every operation of a committed batch has a result, and the IDs it names, *)
(* which resolve, denote in order the paragraphs the operation has brought. *)
THEOREM ResultsNameTheirParagraphs ==
    ASSUME FlatBatch PROVE BatchSpec => ResultsNameNewParagraphs
<1>1. FlatInv /\ [BatchNext]_vars => ResultStep
  BY ReportStep
<1> QED BY <1>1, FlatInvariant, PTL DEF BatchSpec, ResultsNameNewParagraphs
=============================================================================
