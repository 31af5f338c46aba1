# docx-knife in TLA+

docx-knife is a patch engine for DOCX files: a caller opens a document, reads
its paragraphs under stable IDs, edits them directly or in atomic batches, and
saves. This directory holds the models of its core, the TLC runs that check
them on small instances, and theorems about them that TLAPS proves for every
instance. Paths below are relative to the repository's `docx_knife/` unless
they say otherwise.

The library is single-threaded; what is hard in it is not concurrency inside
the process but

- long sequences of legal calls over shared mutable structure (an XML tree, an
  ID table, a cached index, a counter), where one call leaves a trap for a
  later one;
- a batch that plans, reorders and executes operations against a moving tree,
  may fail anywhere, and has to put everything back;
- edits inside a paragraph that cut runs up while other matches of the same
  edit are still waiting at their old offsets;
- several views of the same text (plain text, text map, escaped literals,
  nodes) between which offsets and matches are carried over;
- a save that races other programs, I/O errors and crashes over the files, and
  content that is read from files and commands which change meanwhile.

## 1. Inventory

| Part | State | Operations | Works with | What makes it correct |
| --- | --- | --- | --- | --- |
| Anchor manifest, `anchors.py` | two tables ID <-> node, the order of binding, a counter | allocate, bind, invalidate, resolve, ordered_ids | held by Document; rebuilt by a rollback | the tables are inverse, no ID is reused or moves |
| Open document, `document.py` | the tree, the manifest, the cached index, the change log | insert before/after, replace, delete, text edits, replace_all, copy, reads | calls paragraph.py for text; is driven by batch.py | the index is never stale, removed paragraphs lose their IDs, replace_all changes matches only |
| Atomic batch, `batch.py` | operations, plan, snapshot, results, pending log, count delta | prevalidate, plan, snapshot, execute, precommit checks, commit, rollback, audit | calls Document's operations, resolves content | all or nothing; the committed document is what the operations declare; the log records it |
| Paragraph text edits, `paragraph.py`, `textmap.py` | none of its own (works on the tree) | text map, selectors, capability check, split, splice, insert, clean up; escape and restore markers | called by Document's handles, batches and replace_all | visible text, formats and revisions are those of the declared edit; the rest is untouched; text reads back as it was written |
| Safe save and lifecycle, `save.py`, `document.py` | source fingerprint, scratch package, destination, `.bak` | open, drift check, rebuild, validate, back up, replace, re-fingerprint, close | the file system, other programs | no damaged package, no lost version, no false alarm |
| Content sources and normalization, `content.py` | resolver configuration, the JSON cache of a call | resolve literal/jsonpath/file/command items, roots, normalize | called while items are expanded | roots are respected, one version per call, no source touched twice; normalize is stable |
| Sections and search, `document.py` | none | list_sections, get_section, find_text, count_matches, grep_paragraphs | read the index | sections nest and are copied whole; every match is found once |
| OOXML helpers, `_ooxml.py` | none | iterate editable paragraphs, table contexts, plain text | everywhere | numbers and places of paragraphs, whatever is nested |
| Paragraph construction, `_paragraph_ops.py` | none | build or parse new paragraphs, detect protected structures | called by insert and replace | one paragraph per item, run format copied |
| Models, schema, errors | none | records, field validation, error types | everywhere | - |
| benchmarks/, skills/ | - | task sets, documentation | - | - |

`PROJECT.json` lists the same parts with their status, and the hazards (what a
test would hardly reach), each at its line with the properties that watch it.

## 2. Modules

| Module | Models | Composition |
| --- | --- | --- |
| `AnchorManifest` | the class AnchorManifest as a record, each method an operator; loops that bind or invalidate several paragraphs in closed form | - |
| `Document` | the open document as one record `doc`; each operation an operator from document to document; calls as actions | EXTENDS AnchorManifest |
| `Batch` | BatchExecutor.run as a state machine around those operators | EXTENDS Document |
| `BatchProperties` | the declarative reference of a batch and its properties | EXTENDS Batch; INSTANCE AnchorLedger |
| `AnchorLedger` | abstract: what a caller is promised about IDs, with no tree, table or batch | refined by Batch |
| `SafeSave` | open, edit, save, close, one action per file-system step | INSTANCE AtomicSave; the tree is a version number |
| `AtomicSave` | abstract: a save happens at once or not at all, over a file the backup holds | refined by SafeSave |
| `Sources` | resolve_items under a batch or a direct call, with files and commands that change and fail | stands beside Batch, which has the failures as `ExecContentFails` |
| `Normalize` | normalize and its two passes | stands alone |
| `TextSplice` | text edits inside one paragraph, down to runs and their nodes | stands beside Document, which has a text edit as one abstract step |
| `Markers` | escaping and parsing of reserved markers, in edits and in new paragraphs | beside TextSplice, which has a marker as one node |
| `ReplaceAll` | replace_all: matches of any length, counted in one view of the text and replaced in the other | beside TextSplice and Document |
| `Outline` | sections under every write, with the styles that writes give | beside Document |
| `Locations` | the walk that makes the index: numbers, table contexts, content controls | - |
| `Search` | matchers, node ranges, paged search over the index | EXTENDS Locations |
| `MC...` | instances for TLC | one per module that has runs |
| `Selections` | the comprehensions of the source, what of a list is in a set, without recursion | used where a definition is proved about |
| `SequenceLemmas` | lemmas: smallest elements, recursion on numbers, FlattenSeq, `Those`, `Spread` | EXTENDS Selections |
| `DocumentProofs`, `SafeSaveProofs`, `SourcesProofs`, `OutlineProofs` | theorems | each EXTENDS the module it is about |
| `BatchProofs` | theorems about batches: the ledger; what a commit, a rollback and the log promise; the manifest's loops | EXTENDS BatchProperties and DocumentProofs |
| `SearchProofs` | theorems about the walk, the pages and the node ranges | EXTENDS Search, whose client walks first |
| `ReplaceAllProofs` | theorems about the matchers, and about what replace_all changes, counts and leaves | EXTENDS ReplaceAll |

Definitions named `Slip...` are plausible mistakes in the definition that
follows them. Nothing uses them; replacing the definition by its slip shows
that a property is able to notice (`mutants` in `PROJECT.json`).

### AnchorManifest and Document

An ID `pNNNN` is its number, a node a number of its own. `doc.dom` is the
editable paragraphs in document order; `host` says which paragraph's text box
a paragraph lies in. Text boxes matter: `iter_editable_paragraphs` yields the
paragraphs in them, they leave the tree with their host, and only the host's
ID is invalidated. Content is a sequence of marks, one per edit, enough to
tell which edit wrote it. Tables and content controls decide nothing about
which paragraph an operation acts on; text boxes do not nest (a bound).

A text edit (`TextEdit`) marks the paragraph, and may change or drop the
paragraphs in its text boxes, whose text is in the same text map: which of
them is left open. It does not drop the cached index, as in the code.

### Batch

One `batch_edit` call is cut at the points where it may raise:
`Reject` (prevalidation or a conflict), `SnapshotFails`, `Start`, one
`Exec...` action per operation of the plan, `Commit` or `ChecksFail`,
`RollBack` or `RollbackFails`. The plan is the code's: anchors in the order
the batch first names them, operations ranked within an anchor, a delete of
several paragraphs at the first of them to be visited, `insert_para_after`
chained on a moving `cursor`. `ExecContentFails` and `ExecTextFails` stand for
every error an operation may meet half-way, a text edit that fails after some
of its matches included (Sources and TextSplice say what the errors are);
`audited` says whether it is a DocxKnifeError, which
decides whether there is an audit event. Between batches the caller uses the
document's own calls. After `RollbackFails` nothing more is modelled: the
document then has a new tree and the manifest of the old one.

### TextSplice

A paragraph is its runs and point markers in document order, with the wrapper
(`w:ins`, `w:del`, link, `w:sdt`) each lies in. `Positions` is the text map;
`SplitBefore`, `SplitAfter`, `SpliceNode`, `SpliceNodes`, `InsertAtBoundary`,
`Cleanup` and `Prune` follow the functions of the same names. An edit is
`Begin`, then `EditMatch` or `Refuse` per match, from right to left, so that a
refusal after some splices is a state of the model. Left out: escapes
(see Markers), wrappers inside wrappers, text boxes (see Document), selectors
that match nothing or too often (they change nothing).

### SafeSave

A package is known by where its parts come from: its main part (the outside
version it was opened from, and the last edit) and the rest. Every read of a
fingerprint is two steps, bytes then time, as in the code. `Exposed` names the
steps before which another program may write, `Faulty` those that may fail
with an I/O error; `CloseOrCrash` may come at any step. Assumed of the file
system: `os.replace` is atomic, other programs replace a file in one piece, a
file that is open is read as it was, a new version has a new time. Temporary
files have names of their own; those a crash leaves are not looked at again.

The pipeline refines `AtomicSave` with the obvious mapping: `file` and `bak` as
they are, `draft` the tree in memory (`dom`), `seen` the version of the source
that was opened or saved last (`known`). The
commit point is the rename.

### Sources

A call is the sequence of items of one operation; a batch is a sequence of
calls in plan order. `Prevalidate` and `BeginCall` are the checks of
ContentItem; `Locate` and then `FromCache`, `ReadJson` or `ReadFile` are the two
halves of reading a path, between which the file may change or go; a command is
`StartCommand` and then `Succeeds`, `ExitsBadly` or `TimesOut`; `Apply` changes
the document and moves on. `Write` is another program, or the command itself.
Errors are those that content.py turns into InvalidContentError ("invalid") and
the OSErrors it does not catch ("escaped"). A text is the version of the file
it came from, which is all the properties look at. Where a path leads is fixed.

### Normalize

A character is its class, nine of them in texts that come in and two more for
the full-width marks. `InUrl`, `InEmail` and `InCode` are the protected spans
of `_find_protected_ranges` as sets of positions; `ConvertPunct` and
`ApplySpacing` are the two passes, each of which looks for the spans again in
what it is given. `CallAgain` is a caller that passes a result in once more.

### Markers

Text is a sequence of tokens, the pieces that a reserved marker can be cut
into. `TextMap` and `Escaped` are the text a reader is shown, with literals
escaped; `RestoreMarkers` and `Projected` parse what is written; an edit
replaces a range of the shown text, a new paragraph is built from a text. The client is "careful" (brackets and backslashes only as
whole markers and escapes) or "any".

### ReplaceAll

A paragraph is a sequence of cells: a character or a tab, and the wrapper it
lies in (`w:del`, `w:sdt`, a link, or none). `PlainText` and `MapText` are the
two views of one loop: matches are counted in the plain text, found again in the
text map and replaced there. Deleted text is in neither, text of content
controls in the plain one only, and a tab is three characters of the map. A
pattern is the words it matches, in the order in which they are tried: a literal
has one, `ab|a` two. `Matches` is compile_selector, `Owner` the positions of the
map, `Refused` the capability check. `Visit` is one record of the loop; `Splice`
replaces one match, from the right, at the offsets it had when the paragraph was
visited, with all that is hidden between its ends; `Refuse` ends the call there;
`Begin` is the same call over again. `Inert` is the condition under which
nothing can match anew: the new text is not empty and shows no character of a
word. Without it the statements are false, in the code as in the model
(section 6).

### Outline

A paragraph is its ID, heading level and place. Each write gives the new
paragraphs the level of its style anchor, as `_paragraph_ops.py` and
document.py choose it; `DuplicateSection` is get_section, copy_paragraphs_from
and insert_para_after together, the way the documentation tells callers to
copy a section. The sections that list_sections returns are a set here: their
order is that of their headings.

### Locations and Search

A document is its elements in document order, each with its tag and parent.
`NextParagraph` is one iteration of iter_editable_paragraphs. When the walk has
ended the client of Search asks for a pattern (a literal, or `c*` for all
regular expressions that can match nothing) and a page size, and reads page by
page (`Grep`) with `start` moved on by the page size.

## 3. Runs

| Run | Instance | Checks |
| --- | --- | --- |
| `batch_history` | 2 paragraphs, 2 calls, batches of up to 2 operations, log limit 3 | `RollbackRestores`, `LogRecordsCommit`, `IndexFresh`, `BatchEnds` |
| `batch_merge` | 2 paragraphs, one batch of up to 3 operations | `CommitIsDeclared`, `PlanPassesChecks`, `ResultsNameNewParagraphs`, `SurvivorsKeepAnchors`; the manifest's closed forms against the loops (`LoopsAsWritten`) |
| `batch_boxes` | 3 paragraphs with a box, 2 calls of up to 2 operations, boxed items | `ManifestSound`, `StaleOnlyInBoxes`, `NeverReused` (refinement of AnchorLedger) |
| `save_calls` | 2 paths, 6 versions, other programs up to the end of the drift check, faults and crashes after | `OnlyWholePackages`, `NoSilentOverwrite`, `SavesAgain`, `SavesAtomically` (refinement of AtomicSave) |
| `text_edits` | 4 paragraphs of up to 4 characters, 2 edits of 1 or 2 matches | `EditIsDeclared`, `PointsInPlace` |
| `source_calls` | 9 calls and batches of 1 to 3 items over one file inside the roots and one outside, 2 writes by others | `OneSnapshot`, `Fresh`, `AllOrNothing`, `TouchedOnce`, `CallEnds` |
| `normalize_passes` | every text of up to 5 characters over 9 classes, and its results again | `Stable`, `TokensKept`, `Spaced` |
| `replace_all_calls` | 2 paragraphs of up to 3 cells of 7 kinds, or up to 5 of fewer kinds, 8 patterns of 1 or 2 words of up to 3 characters, 6 replacements, the call and a retry | `NothingLeft`, `CountExplained`, `OnlyMatchesChange`, `RetryChangesNothing` |
| `outline_writes` | up to 3 paragraphs of 2 heading levels or none, one of them perhaps in a cell, 6 IDs | `OutlineNests`, `TextKeepsOutline`, `SectionsCopyWhole` |
| `markers_calls` | 2 paragraphs; every text of up to 3 of 6 tokens and longer ones, one call; 7 careful texts, two calls | `TextIsAString`, `BuiltReadsBack`, `ReadsBack` |
| `search_pages` | 406 documents with tables nested up to 2 deep, 354 plain ones of 2 or 3 paragraphs with all sorts of nodes, 4 patterns, pages of 1 and 3 | `PlacesInOrder`, `NestingKeepsPlaces`, `PagesShowAll`, `NodesAreWhereTheTextIs` |
| `v_rollback` | 2 paragraphs, 2 calls of one operation | `RollbackIsExact`, a statement of the documentation that the code does not meet (section 6) |

Why the bounds are enough to be worth it. The interesting cases need: an
insertion that puts the binding order out of document order, followed by a
failing batch (2 calls); a delete of two paragraphs whose targets carry other
operations (2 operations, 2 anchors); two insertions after one anchor followed
by anything (3 operations); a log that fills up inside the second batch (limit
3, batches of 2); a box paragraph that is not indexed yet when the batch
starts (2 calls, boxed items); two matches in one run, in two runs, in two
wrappers, and around a hidden one; two saves in a row with a foreign write
between any two of their steps (6 versions: two edits, two saves, two foreign
writes); two items of one call over one file and a write between them, and one
more between two calls (2 writes); a token, a boundary and a mark that touch
each other (5 characters); a match around deleted text or a content control, one
that a tab's literal or a link is part of, a refusal left of a match (3 cells),
and matches side by side whose replacement may make another (5 cells); a section with a subsection, copied, with
something before or after it (3 paragraphs, 6 IDs); an escape, a marker and
text between (3 tokens, longer ones by hand); a nested table before the cell
one asks about, and a merged one before that (2 rows of 2 cells).

`IndexFresh`, `CommitIsDeclared` and `PlanPassesChecks` are checked without
text boxes because the code does not keep them with text boxes: a text edit or
a deletion of the host takes the inner paragraphs along without the index, or
the expected count, being told. `ReadsBack` is a promise to the careful client
alone: text that other writes leave need not read back (section 6).

Deadlock is tested in `batch_history`, `batch_merge` and `save_calls`, where the
caller can always do something. The others say `CHECK_DEADLOCK FALSE` because
their instances really stop: after `RollbackFails` in `batch_boxes`; when the
call has returned or raised in `source_calls`; when the text is its own result
in `normalize_passes`; when the calls or edits of the bound have been made
(`text_edits`, `replace_all_calls`, `markers_calls`), every paragraph is
deleted (`outline_writes`), or the last page has been read (`search_pages`).

A caution for whoever extends the modules: TLC 2.19 takes `\E a, b \in SUBSET S`
to be false when S is empty, so that a text edit of a paragraph without boxes
would silently never happen. `EditText`, `ExecText` and `ExecTextFails` bind
their two sets separately for that reason.

Fairness. `BatchEnds` (`batch_history`) is under `WF_vars(Running)`: one
`batch_edit` call runs on the thread that called it and no step of it waits
for anything, so once begun it keeps taking steps. `CallEnds` (`source_calls`)
is under `WF_vars(Resolver)`: the same thread, and the time of a command, which
runs out (`TimesOut`). A command's own exit is not in it: it may hang. Nothing
is assumed of the caller, of which error occurs, of other programs or of the
file system.

## 4. Theorems

| Theorem | Says | Rests on |
| --- | --- | --- |
| `TypeCorrect`, `ManifestAlwaysSound`, `AnchorsNeverMove` (DocumentProofs) | `Spec => []TypeOK`, `[]ManifestSound`, `AnchorsStable` | the invariant `DocInv` |
| `BatchTypeCorrect`, `BatchManifestSound`, `BatchImplementsLedger` (BatchProofs) | the same of `BatchSpec`, and `BatchSpec => NeverReused` | the invariant `BatchInv` |
| `SaveTypeCorrect` (SafeSaveProofs) | `Spec => []TypeOK`: no number is ahead of the counter that makes versions new | itself |
| `AlwaysWhole` | `Spec => []OnlyWholePackages`, with no assumption on what other programs do, or on which steps fail | files, backups, the copy on its way and a validated package are whole |
| `NothingLostUnseen` | `QuietAfterCheck => (Spec => NoSilentOverwrite)` | the invariant `KnownInv` |
| `OverwrittenIsInBackup` | `QuietAfterCheck => (Spec => OverwritesBackedUp)` | `BackupInv` |
| `NoMixedPackage` | `QuietAfterCheck => (Spec => []PartsBelongTogether)` | `PartsInv` and `KnownInv` |
| `SaveIsAtomic` | `QuietAfterCheck => (Spec => SavesAtomically)`: the pipeline implements AtomicSave | all of the above and `DraftInv` |
| `SourcesTypeCorrect`, `CallsReadOneSnapshot`, `CallsReadFreshly`, `SourcesApplyAllOrNothing`, `SourcesTouchedOnce`, `ImproperItemsTouchNothing` (SourcesProofs) | `Spec => []TypeOK`, `[]OneSnapshot`, `[]Fresh`, `[]AllOrNothing`, `[]TouchedOnce`, `[]ImproperTouchesNothing` | the invariant `SourcesInv` |
| `AnchorsDangleOnlyInBoxes` (DocumentProofs), `BatchAnchorsDangleOnlyInBoxes` (BatchProofs) | `Spec => []StaleOnlyInBoxes`, and the same of `BatchSpec` | the invariants `TreeInv`, `CommitInv` |
| `IndexStaysFresh` (DocumentProofs) | `NoBoxes`: `Spec => []IndexFresh` | `TreeInv` and that no paragraph has a host |
| `SurvivorsKeepTheirAnchors`, `RollbackRestoresTheDocument` (BatchProofs) | `BatchSpec => SurvivorsKeepAnchors`, `RollbackRestores` | `CommitInv` |
| `LogRecordsTheBatch` | `BatchSpec => LogRecordsCommit` | `LogInv` |
| `BatchIndexStaysFresh`, `PlansPassTheChecks`, `ResultsNameTheirParagraphs` | `FlatBatch`: `BatchSpec => []IndexFresh`, `[]PlanPassesChecks`, `ResultsNameNewParagraphs` | `FlatInv` |
| `NoFalseAlarm` (SafeSaveProofs) | `FingerprintIsRetaken => (Spec => []SavesAgain)` | `AgainInv` |
| `SectionsNest`, `TextLeavesSections`, `CopiesAreWhole` (OutlineProofs) | `Spec => []OutlineNests`, `TextKeepsOutline`, `SectionsCopyWhole` | the invariant `IsDoc` |
| `BatchLoopsAsWritten` (BatchProofs) | `BatchSpec => []LoopsAsWritten`: the loops of `_register_new_paragraphs`, `delete_para` and `_rollback` leave what `BindNew`, `InvalidateAll` and `Rebound` say | `BatchInv` |
| `WalkNumbersInOrder`, `NestingMovesNothing` (SearchProofs) | `Spec => []PlacesInOrder`, `[]NestingKeepsPlaces` | the invariant `WalkInv` |
| `PagesLeaveNothingOut`, `MatchesNameTheirNodes` (SearchProofs) | `Spec => []PagesShowAll`, `[]NodesAreWhereTheTextIs` | the invariant `SearchInv` |
| `ACallChangesOnlyMatches` (ReplaceAllProofs) | `Spec => OnlyMatchesChange`, for patterns of any words | the invariant `HitsStand` |
| `ACallLeavesNothing` | `Spec => []NothingLeft` | `HitsStand`, `HitsAreAll`, `Finished` |
| `ARetryChangesNothing` | `Spec => RetryChangesNothing` | `HitsStand`, `HitsAreAll`, `Rest` |
| `TheCountIsExplained` | `Spec => []CountExplained` | `HitsStand`, `Counted` |

The type invariants, `AnchorsStable`, `OverwritesBackedUp`,
`PartsBelongTogether` and `ImproperTouchesNothing` are proved and in no run of
their own: the refinements and the invariants that the runs do check imply
them on the instances, or sharpen them.

The arguments.

*Document.* The property one wants, `Sound(doc.manifest)`, is not inductive:
binding a node that already has an ID, or a node number that has not been
used, breaks it. `DocInv` adds that the tree lists each node once and that
every node in the tree or the tables is one that was created (`fresh` is ahead
of all of them). An insertion binds
fresh IDs to fresh nodes, an index build binds fresh IDs to nodes that have
none, a removal drops both rows of the table: three lemmas of
`DocumentProofs` (about `BindNew`, `InvalidateAll` and `Rebound`, for
manifests and sequences of any length) say that each keeps a manifest sound,
and each operation of Document is one or two of them. `Follows` relates the
manifests before and after: an ID in both has one node, an ID only in the
later one was allocated since. It is transitive, which carries
`AnchorsNeverMove` over operations made of several steps.

*Batch.* `BatchInv` is `DocInv` of the document and of the snapshot, and, while
a batch runs, that the document's manifest follows the snapshot's; the plan is
kept well formed. A rollback yields a `DocInv` document again (`Rebound`
of the listed IDs and the old counter). The ledger refinement maps `live` to
the IDs the caller can see and `issued` to the counter behind them: the
snapshot's while a batch runs. A commit then is a ledger call because the
document follows the snapshot; a rollback is a stutter of `issued`. This is why
the counter may be rewound, although the comment at `anchors.py:50` says it
never is: the IDs in between were never shown.

*SafeSave.* `KnownInv` says when a fingerprint proves anything: outside `open`,
a source that equals the stored fingerprint is the version the session knows;
while it is being compared, a source whose bytes were read earlier has either
not changed since or has a newer time; from the end of the check on, the
source is the known version; and while the fingerprint is taken again, so are
the bytes. The last two clauses need `QuietAfterCheck`, an assumption on
`Exposed`, which makes the window between the check and the rename explicit:
without it the theorem is false (section 6). `BackupInv` (the copy is the file
about to be overwritten) and `PartsInv` (the main part in memory, the known
version and the package being built are from one version) ride on the same
assumption; `PartsInv` also on `KnownInv`, since the other parts are copied
from whatever the source is at that moment. For `SaveIsAtomic`, `DraftInv` adds
that a package on its way is the text in memory; then the rename is
AtomicSave's save, the backup its backup, every other step a stutter or
somebody else's write.

*Sources.* Every step of a call either resolves the current item (`Yields`),
gives up (`Failed`) or is one of six others; the lemma `Steps` splits Next so,
and each part of the invariant is carried over the cases. `Resolved`: what has
been resolved are the first items of the call, in order. `CacheInv`: what they
took from JSON is what the cache of this call holds, which makes `OneSnapshot`
inductive. `FreshInv`: versions on disk only grow and the cache, emptied when a
call begins, holds nothing from before. `TouchInv`: what was touched lies
before the current item, or is the command that runs. `AppliedInv`: the
document has the calls before the current one. It needs `ImproperInv`: a call
that is refused when it begins must be a direct one, or the earlier operations
of its batch would stay.

*The tree.* That an ID stands for a paragraph in the tree, or for one inside a
text box, and that every paragraph outside text boxes has one, does not follow
from `DocInv`, which says nothing between the tables and the tree. `Linked`
says it; in the middle of an operation it holds but for the paragraphs about to
go (`LinkedBut`), because the code retires IDs first and removes nodes after.
With it goes what each operation leaves alone (`Keeps`: the IDs it does not
retire, and their nodes; `SameBodies`: the contents of all others), which is
what the batch engine is proved from. In a document without text boxes
(`Flat`), `LongerBy` counts, and the index lists the tree (`ListsTree`).

*Commit and rollback.* While a batch is in flight `PlanInv` says which IDs of
the snapshot are gone: those the operations carried out have retired, and no
others. So no operation meets an ID an earlier one has retired, which is what
the conflict checks are for; a survivor still has its paragraph; and a rollback
finds the snapshot as it was. `LogInv` adds that the entries about to be
written are those of the operations carried out, each once (`Reported`), that
the log is never longer than its limit, and that a batch at rest has reported
nothing. `FlatInv` adds `Accounted`: the length of the document has changed by
`delta`, only what the operations name has other contents, and each result
names the paragraphs that its operation brought, in their order. The last needs
`FlatBatch`, that neither the file nor any new content has a text box: TLC
finds each of `IndexFresh`, `PlanPassesChecks` and `ResultsNameNewParagraphs`
broken when it is added to `MCBatch_boxes`, where deleting a host takes the
paragraphs inside along.

*Saving again.* `AgainInv`: what a save has written is told from what others
write by its time, and while the file is such a version, whatever has been read
of it, in either half of a fingerprint, is still true. From the rename until
the fingerprint is taken anew it is not: `FingerprintIsRetaken` says that these
two steps do not fail. If they may, the next save reports a drift that nobody
caused.

*Outline.* All three theorems need only `IsDoc` of the state: IDs are given
once, and the next ID to nobody. The rest is about positions. A paragraph lies
in the section of an earlier heading exactly if all headings between are deeper
(`Deeper`; the lemma `EndIs` shows that the scan of get_section finds the last
such position), so two sections are nested or apart, and the sections around a
paragraph are a set of positions (`Above`). A write puts the new document
together from the old one before, the new paragraphs, and the old one behind
(`Pieces`); a paragraph of text in between makes no position shallower, and a
copy repeats the levels of its section one by one.

*Locations.* A place is the chain of innermost cell, row and table above a
paragraph (`Place`). The elements above an element are nested
(`AboveAbove`, `AboveBetween`); an index is the number of elements of a set
that come before, and grows along it (`CountGrows`); a column is a number of
pairs of cell and column, to which every cell adds its span (`ColumnsGrow`).
What lies deeper does not count because of `NestingAssumption`: between a row
and its table, a cell and its row, a paragraph and its cell there is no other
part of a table. This is WordprocessingML's grammar, which the program takes
for granted, and TLC evaluates it on the documents of `search_pages`. For
`NestingMovesNothing` the same assumption shows that whatever counts for the
place of a paragraph lies in no table but those around it (`HeldIsOutside`).
`WalkInv` carries all of it through the walk: what has been yielded lies before
where the walk is, in order, with the number of paragraphs up to it.

*Search.* `SearchInv` says that the pages have shown the matches of the first n
paragraphs, put one behind the other (`Upto`), and that the next page begins
behind them, or that there is none. A page adds the pieces of its window
(`UptoBehind`), whatever its size. That the pieces of one paragraph are in
order, do not overlap and leave nothing out is about the loops of the matchers:
`LiteralInv` and `StarInv` hold before and after each turn, and say that every
occurrence, or longest run, before the place where the loop goes on is covered;
the loop stops when it has gone over the whole text. `PieceOfIndex` and
`PieceIsAt` carry this from the pieces to the list. For the nodes, `Numbered`
goes along a paragraph node by node: an empty one adds nothing, any other gives
all its characters the number of nodes with text before it. Two nodes with text
never have the same number (`NumbersDiffer`), and a character is in one node
only (`OneNodeHolds`), so comparing numbers tells whether one node holds a match.

*ReplaceAll.* A scan (`Scan`) is a list of matches each of which is the next
behind the one before: no word fits in between, and no word that is tried
earlier fits at its place. The loops of the matchers return the one scan that
cannot go on (`MatchesAreComplete`, `CompleteIsMatches`), for words and texts of
any length. Of the text map one needs that it shows cells one after the other
(`MapConcat`), and that a match which is not refused is some cells of the
paragraph, exactly (`SplicedIs`): what they show makes way for what the new text
shows, and the text before and behind stays. For `OnlyMatchesChange`,
`HitsStand`: the matches that are left to be replaced still show their words,
since all of them end before the one that was replaced. That is not enough for
`NothingLeft`: the text on both sides of a replacement has new neighbours, and
may match across it, or the new text itself may. If it is not empty and shows
no character of a word, a word that fits somewhere now fitted there before
(`FitsMoved`); so the matches that are left are not only some of the matches of
the paragraph as it is, but all of them (`Rescan`, `HitsAreAll`), and when none
is left none is there. For `ARetryChangesNothing`, `Rest`: a paragraph that a
call came to is one that a call passes (it shows no match in one of the views)
or stops at before it changes anything, because its last match is refused. After
a refusal it is the last match: `HitsAreAll` says that the matches not yet
replaced are the ones a retry will find. `Counted` keeps the count of the first
call equal to the replacements and the matches that are left; the paragraphs
ahead of it are as they were.

*Loops.* `BindNew`, `InvalidateAll` and `Rebound` are closed forms of loops that
bind or retire one paragraph at a time. A loop is written as a function of the
number of turns, and `BindLoopIs`, `InvalidateLoopIs` and `ReboundLoopIs` show
that it ends in the closed form: by induction over the turns, the closed form
for one paragraph more being one turn more.

Where an argument needs an induction it is one over numbers: a set of numbers
that has 0, and k + 1 with k, has them all (`UpFromZero`), because a set of
numbers has a smallest element (`SmallestExists`). A function that is defined by
recursion is shown to exist (`Recursion`), and to be the only one (`SameRun`).

Assumptions: the named ASSUMEs of the modules, on the constants only
(`ShapeAssumption`, `BatchAssumption`, `PathAssumption`, `StepAssumption`,
`SourcesAssumption`, `OutlineAssumption`, `BoundAssumption`,
`ElementsAssumption`, `NestingAssumption`, `WordingsAssumption`,
`PatternsAssumption`, `LimitsAssumption`, `DocumentsAssumption`,
`ReplacementsAssumption`); TLC evaluates them in the runs.
Beside these, where the table says so, `QuietAfterCheck` and
`FingerprintIsRetaken` (which steps others may fall between, or may fail) and
`NoBoxes` and `FlatBatch` (no text boxes): what the theorem says is false
without it. TLC shows it on `MCBatch_boxes` for the boxes, as section 6 says for
`QuietAfterCheck`, and on `MCSafeSave_calls` with `Faulty <- Saving` for
`FingerprintIsRetaken`. TLAPS does not check that the
other bounds (`MaxNodes`, `MaxMarks`, `MaxOps`, `MaxCalls`, `MaxVersions`,
`MaxWrites`) are of any size: the theorems hold for all.

Only model-checked: `BatchEnds` and `CallEnds` (liveness under fairness is out
of the prover's reach); `CommitIsDeclared`, whose reference folds over sequences
of operations (an induction over data); everything of TextSplice, Markers and
Normalize, whose definitions and references filter and parse sequences
recursively.

## 5. What is not modelled

- Of paragraph construction: the run format a new paragraph copies, the parsing
  of raw fragments (that one may fail is `Unparsed` in Sources) and the list of
  protected structures. They keep no state, and the program does not look at
  what comes out again. Tab stops in a `w:pPr` that is copied are not modelled.
- The validation of single fields in `_models.py`, `_schema.py`, the error
  types, previews, warnings and schema envelopes: data.
- `AnchorManifest.snapshot` and `restore`: no caller in the program.
- Regular expressions but for two kinds: alternatives of fixed words
  (ReplaceAll) and `c*` (Search); none that looks around it or anchors. Of
  replace_all: text boxes (a box's text is part of the paragraph around it, too),
  wrappers inside wrappers, and normalize_text (see Normalize).
- Serialization; vertical merges.
- The benchmarks and the skill documentation.

## 6. Where the code departs from its documentation

`v_rollback` (`findings` in `PROJECT.json` quotes both sides): a rollback binds
the listed IDs to the paragraphs by position, and the list is in order of
binding. Insert before the first paragraph, then let a batch fail: two IDs have
swapped paragraphs.

Each of the following is a definition at the end of its module that quotes the
documentation; TLC refutes it when it is added, as an invariant or a property,
to the configuration named. They have no run of their own.

| Definition | Source | What the code does | The documentation | Configuration |
| --- | --- | --- | --- | --- |
| `RollbackCompletes` (BatchProperties) | `batch.py:375` | installs the new tree before it finds that it has not an ID for every paragraph | "roll back completely" | `MCBatch_boxes` |
| `AnchorsLive` | `document.py:486` | IDs of paragraphs in a text box outlive the box, and every later batch fails at its snapshot | "IDs never point to stale nodes" | `MCBatch_boxes` |
| `InsertionFirst` | `batch.py:478` | a delete of two paragraphs runs before an accepted insert_para_before at the second | "SHALL execute insertion first" | `MCBatch_merge` |
| `EveryFailureAudited` | `batch.py:153` | an exception that is no DocxKnifeError leaves no audit event | "A failed batch MUST record only one bounded audit event" | `MCBatch_history` |
| `FailureIsBlamed` | `batch.py:700` | a failure is put down to the first operation in input order without a result | "with operation index, `op_id`" | `MCBatch_history` |
| `UnmatchedKept` (TextSplice) | `paragraph.py:417` | a match that spans a deleted revision or a content control removes it | "all unmatched runs, formatting, and non-text nodes remain unchanged" | `MCTextSplice_edits` |
| `NoStrayContainers` | `paragraph.py:388` | deleting all of an inserted revision of one node leaves an empty `w:ins` | the comment at `paragraph.py:61`: "drop them" | `MCTextSplice_edits` |
| `RefusedUnchanged` | `paragraph.py:603` | an edit of all occurrences that meets a hyperlink stops half-way and leaves what it has done | "leaves the paragraph unchanged" | `MCTextSplice_edits` |
| `LoadedUpFront` (Sources) | `batch.py:560` | content is loaded operation by operation while the tree is being changed | `skills/docx-knife/docs/lifecycle.md:32` | `MCSources_calls` |
| `CountsSubstitutions` (ReplaceAll) | `document.py:540` | matches in content controls are counted and not replaced; matches around them are replaced and not counted | "number of substitutions performed" | `MCReplaceAll_calls` |
| `SameAsReplaceText` | `document.py:537` | a marker's literal is not found by replace_all unless the plain text has it | `bulk-replace/spec.md:23` | `MCReplaceAll_calls` |
| `ControlsAreRead` (Locations) | `_ooxml.py:232` | paragraphs in content controls are not read | `lifecycle.md:25` | `MCSearch_pages` |
| `NewlinesBreak` (Markers) | `_paragraph_ops.py:198` | a newline behind a backslash is not made a break: the marker put in its place counts as escaped | the docstring at `:186` | `MCMarkers_calls` |
| `ReadsBack`, for any client | `textmap.py:186` | an escape that an edit splits, or a backslash put before a tab, reads back as something else | that literal text "round-trip[s] without loss" | `MCMarkers_calls` |
| `BodyHasNoHeadings` (Outline) | `document.py:572` | `body_ids` has the subheadings, too | `section-ops/spec.md:23` | `MCOutline_writes` |
| `NoHeadingDuplicated` | `document.py:396` | an insertion before a heading that follows another heading takes the style of that one | the docstring at `:389` | `MCOutline_writes` |
| `EmptyMatchesCrossNothing` (Search) | `document.py:330` | a match of no character may get a range that crosses nodes, or ends before it begins | "XML-node range, whether the match crosses nodes" | `MCSearch_pages` |
| `NoDriftOverwritten`, `ReplacedIsInBackup` (SafeSave) | `save.py:61`, `:67` | a version that another program writes between the drift check and the rename is overwritten; one it writes between backup and rename is in no backup either | `lifecycle.md:58`, `safe-document-save/spec.md:28` | `MCSafeSave_calls` with `Exposed <- Steps` |

Others that the models show:

- `save.py:78`: a version that another program writes between the rename and
  the new fingerprint is taken for the session's own, and the next save
  overwrites it. Put `"rereading"` into `Exposed` to see it.
- `document.py:541`: a replace_all of a letter that the literal of a tab holds
  ("T") is refused at the tab after it has replaced what stands to its right;
  a retry then finds no match in the plain text of that paragraph, and goes on
  past it to those behind.
- `document.py:541`: what is left after a replacement may match again. Two
  spaces replaced by one leave two of four spaces, and "ab" replaced by nothing
  leaves "ab" of "aabb"; a retry replaces again. `NothingLeft` and
  `RetryChangesNothing` say so with `Inert`; without it TLC refutes both.
- `paragraph.py:417`: in `a<w:del>z</w:del>b` both views show "ab"; replacing it
  removes the deleted run (`OnlyMatchesChange` says no more than it holds:
  nothing outside a match goes).
- `_ooxml.py:230`: paragraphs in text boxes are indexed and edited, although
  `document-query-and-anchors/spec.md:10` leaves them out (Document has them).

## 7. Plan

Done, in this order: AnchorManifest, Document, Batch with its reference and
ledger, SafeSave, TextSplice; Sources, Normalize, ReplaceAll, Outline,
Locations, Search, Markers; AtomicSave and its refinement; proofs for the
manifest, the document, the batch, the save and the sources; then for the link
between anchors and tree, commits, rollbacks and the log, saving again, the
outline, and the places of paragraphs in tables; last for the manifest's loops,
the pages of a search and its node ranges; what replace_all changes, counts and
leaves.

Left:

1. Proofs: `Spaced` of Normalize, with a spacing pass that is not recursive.
2. Paragraph construction: the protected structures as a guard of Document's
   operations, the copied run format.
3. The envelope of `_schema.py` against the checks of `_models.py`: what one
   accepts the other should.

## 8. Running

In this directory, `tlc -config MCBatch_history.cfg MCBatch` checks a run and
`tlapm BatchProofs.tla` a proof module; `PROJECT.json` lists them all.
