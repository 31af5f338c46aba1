------------------------------- MODULE Sources -------------------------------
(***************************************************************************)
(* Content sources: resolve_items of content.py, as a batch or a direct    *)
(* call drives it, against files that other programs rewrite and commands  *)
(* that may fail, hang or write files of their own.                        *)
(*                                                                         *)
(* A call is the sequence of items of one operation; a batch is a sequence *)
(* of calls, in the order of its plan, each followed by its change of the  *)
(* document.  A file is what its bytes are good for and a version, new     *)
(* with every write.                                                       *)
(*                                                                         *)
(* Abstractions.  A text is the version it came from.  The file of a path  *)
(* is fixed: links do not change.  Every error of the list in content.py   *)
(* is InvalidContentError ("invalid"); an OSError that nothing catches     *)
(* ("escaped") is not.                                                     *)
(***************************************************************************)
EXTENDS Integers, Sequences, SequencesExt

CONSTANTS
    Files,          \* the files references may name
    Inside,         \* those of them under the input roots
    Batches,        \* what callers may submit
    MaxWrites       \* bound: writes by other programs and commands

(* What the bytes of a file are: JSON, other text, no text in the declared *)
(* encoding, nothing at all, or a directory of that name.                  *)
Bytes == {"json", "text", "binary", "missing", "directory"}

(* An item: what it names as its source, and for a jsonpath whether its    *)
(* expression finds exactly one scalar.                                    *)
Item == [src : {"literal", "jsonpath", "file", "command", "both", "neither"},
         file : Files, one : BOOLEAN]

ASSUME SourcesAssumption ==
    /\ Inside \subseteq Files
    /\ \A b \in Batches :
         /\ b.calls \in Seq(Seq(Item) \ {<<>>}) /\ b.calls # <<>>
         /\ b.direct \in BOOLEAN /\ b.raw \in BOOLEAN
         /\ b.direct => Len(b.calls) = 1
    /\ MaxWrites \in Nat

VARIABLES
    disk,       \* file -> [is, ver]
    writes,     \* how many writes there have been
    batch,      \* the batch or direct call
    status,     \* see TypeOK
    op,         \* the operation being executed
    got,        \* what its items before the current one resolved to
    cache,      \* json_cache: file -> version that was parsed
    applied,    \* the document: the content of every call applied to it
    since,      \* history: disk when the call began
    touched     \* history: every read of a file and start of a command

vars == <<disk, writes, batch, status, op, got, cache, applied, since, touched>>
world == <<disk, writes>>

Call == batch.calls[op]
At == Len(got) + 1
Current == Call[At]

Running == status \in {"begun", "resolving", "located", "executing"}

NoCache == [f \in {} |-> 0]
-----------------------------------------------------------------------------
(* ContentItem.of: exactly one source. *)
Proper(item) == item.src \notin {"both", "neither"}

Init ==
    /\ disk \in [Files -> [is : Bytes, ver : {0}]]
    /\ writes = 0
    /\ batch \in Batches
    /\ status = "called"
    /\ op = 1 /\ got = <<>> /\ cache = NoCache
    /\ applied = <<>>
    /\ since = disk
    /\ touched = <<>>

(* The operations of a batch are built from the items as the caller gives   *)
(* them, which ContentItem and the operations themselves check, and         *)
(* _prevalidate checks them once more.                                     *)
Prevalidate ==
    /\ status = "called"
    /\ status' = IF batch.direct \/ \A k \in DOMAIN batch.calls :
                        \A i \in DOMAIN batch.calls[k] : Proper(batch.calls[k][i])
                 THEN "begun" ELSE "invalid"
    /\ UNCHANGED <<world, batch, op, got, cache, applied, since, touched>>

SlipCacheKept ==
    /\ status = "begun"
    /\ status' = IF \A i \in DOMAIN Call : Proper(Call[i]) THEN "resolving" ELSE "invalid"
    /\ since' = disk
    /\ UNCHANGED <<world, batch, op, got, cache, applied, touched>>

(* The items of a direct call become ContentItems, all of them before the   *)
(* first is resolved, and resolve_items checks them all once more.          *)
BeginCall ==
    /\ status = "begun"
    /\ status' = IF \A i \in DOMAIN Call : Proper(Call[i]) THEN "resolving" ELSE "invalid"
    /\ since' = disk
    /\ cache' = NoCache
    /\ UNCHANGED <<world, batch, op, got, applied, touched>>

SlipCommitted(how) ==
    /\ status' = how
    /\ UNCHANGED <<world, batch, op, got, cache, applied, since>>

(* An error: a batch is rolled back, a direct call has changed nothing. *)
Fail(how) ==
    /\ status' = how
    /\ applied' = <<>>
    /\ UNCHANGED <<world, batch, op, got, cache, since>>

Yield(ver) ==
    /\ got' = Append(got, [src |-> Current.src, file |-> Current.file, ver |-> ver])
    /\ status' = "resolving"

Touch(what) == touched' = Append(touched, [what |-> what, op |-> op, item |-> At,
                                           after |-> Len(applied)])

Literal ==
    /\ status = "resolving" /\ At <= Len(Call) /\ Current.src = "literal"
    /\ Yield(0)
    /\ UNCHANGED <<world, batch, op, cache, applied, since, touched>>

(* _resolve_within_roots *)
Locate ==
    /\ status = "resolving" /\ At <= Len(Call) /\ Current.src \in {"jsonpath", "file"}
    /\ IF Current.file \in Inside /\ disk[Current.file].is # "missing"
       THEN /\ status' = "located"
            /\ UNCHANGED <<world, batch, op, got, cache, applied, since, touched>>
       ELSE Fail("invalid") /\ UNCHANGED touched

SlipReread ==
    /\ status = "located" /\ Current.src = "jsonpath"
    /\ Touch("read")
    /\ LET f == Current.file
       IN  IF disk[f].is = "json" /\ Current.one
           THEN /\ Yield(disk[f].ver)
                /\ UNCHANGED <<world, batch, op, cache, applied, since>>
           ELSE Fail(IF disk[f].is \in {"missing", "directory"} THEN "escaped" ELSE "invalid")

(* _resolve_jsonpath, of a source that an earlier item of the call read *)
FromCache ==
    /\ status = "located" /\ Current.src = "jsonpath" /\ Current.file \in DOMAIN cache
    /\ IF Current.one
       THEN /\ Yield(cache[Current.file])
            /\ UNCHANGED <<world, batch, op, cache, applied, since, touched>>
       ELSE Fail("invalid") /\ UNCHANGED touched

(* ... and of one that is read now.  The file may have gone since it was    *)
(* located, which nothing catches.                                         *)
ReadJson ==
    /\ status = "located" /\ Current.src = "jsonpath" /\ Current.file \notin DOMAIN cache
    /\ Touch("read")
    /\ LET f == Current.file
       IN  IF disk[f].is = "json" /\ Current.one
           THEN /\ cache' = [g \in DOMAIN cache \cup {f} |->
                                IF g = f THEN disk[f].ver ELSE cache[g]]
                /\ Yield(disk[f].ver)
                /\ UNCHANGED <<world, batch, op, applied, since>>
           ELSE Fail(IF disk[f].is \in {"missing", "directory"} THEN "escaped" ELSE "invalid")

(* _resolve_file *)
ReadFile ==
    /\ status = "located" /\ Current.src = "file"
    /\ Touch("read")
    /\ LET f == Current.file
       IN  IF disk[f].is \in {"json", "text"}
           THEN /\ Yield(disk[f].ver)
                /\ UNCHANGED <<world, batch, op, cache, applied, since>>
           ELSE Fail(IF disk[f].is = "binary" THEN "invalid" ELSE "escaped")

(* _resolve_command: the program starts, or there is none, or it may not be *)
(* executed.                                                               *)
StartCommand ==
    /\ status = "resolving" /\ At <= Len(Call) /\ Current.src = "command"
    /\ \/ /\ status' = "executing"
          /\ Touch("run")
          /\ UNCHANGED <<world, batch, op, got, cache, applied, since>>
       \/ Fail("invalid") /\ UNCHANGED touched
       \/ Fail("escaped") /\ UNCHANGED touched

(* It exits with code 0, having written UTF-8 and not too much of it. *)
Succeeds ==
    /\ status = "executing"
    /\ Yield(0)
    /\ UNCHANGED <<world, batch, op, cache, applied, since, touched>>

SlipRetried ==
    /\ status = "executing"
    /\ \/ status' = "resolving" /\ Len(touched) < 4
          /\ UNCHANGED <<world, batch, op, got, cache, applied, since, touched>>
       \/ Fail("invalid") /\ UNCHANGED touched

(* It exits otherwise. *)
ExitsBadly == status = "executing" /\ Fail("invalid") /\ UNCHANGED touched

SlipNoTimeout == FALSE

(* It has not exited after timeout_seconds, and is killed. *)
TimesOut == status = "executing" /\ Fail("invalid") /\ UNCHANGED touched

(* All items are there: the document is changed, and the next operation's  *)
(* content is only then resolved.                                          *)
Apply ==
    /\ status = "resolving" /\ At > Len(Call)
    /\ applied' = Append(applied, got)
    /\ got' = <<>>
    /\ IF op = Len(batch.calls)
       THEN status' = "done" /\ op' = op
       ELSE status' = "begun" /\ op' = op + 1
    /\ UNCHANGED <<world, batch, cache, since, touched>>

(* parse_raw_paragraphs refuses one of the fragments. *)
Unparsed ==
    /\ status = "resolving" /\ At > Len(Call) /\ batch.raw
    /\ Fail("invalid") /\ UNCHANGED touched

(* Another program, or the command that is running, writes a file, or       *)
(* removes it.                                                             *)
Write ==
    /\ Running /\ writes < MaxWrites
    /\ writes' = writes + 1
    /\ \E f \in Files, is \in Bytes : disk' = [disk EXCEPT ![f] = [is |-> is, ver |-> writes']]
    /\ UNCHANGED <<batch, status, op, got, cache, applied, since, touched>>

Resolver ==
    \/ Prevalidate \/ BeginCall \/ Literal \/ Locate \/ FromCache \/ ReadJson \/ ReadFile
    \/ StartCommand \/ TimesOut \/ Apply \/ Unparsed

Next == Resolver \/ Succeeds \/ ExitsBadly \/ Write

(* The caller's thread keeps going; a command need never exit by itself,   *)
(* but its time runs out.                                                  *)
Spec == Init /\ [][Next]_vars /\ WF_vars(Resolver)
-----------------------------------------------------------------------------
(* The type invariant: the cache holds files under the roots only. *)
TypeOK ==
    /\ disk \in [Files -> [is : Bytes, ver : 0..MaxWrites]]
    /\ writes \in 0..MaxWrites
    /\ batch \in Batches /\ op \in DOMAIN batch.calls
    /\ status \in {"called", "begun", "resolving", "located", "executing",
                   "done", "invalid", "escaped"}
    /\ Len(got) <= Len(Call)
    /\ DOMAIN cache \subseteq Inside

Contents == applied \o <<got>>

(* All that one call takes from a JSON file is from one version of it,     *)
(* although the file may change between its items.                         *)
OneSnapshot ==
    \A c \in DOMAIN Contents : \A i, j \in DOMAIN Contents[c] :
        LET x == Contents[c][i]
            y == Contents[c][j]
        IN  x.src = "jsonpath" /\ y.src = "jsonpath" /\ x.file = y.file => x.ver = y.ver

(* What a call takes from a file was there at some time since it began: no  *)
(* operation gets what an earlier one has read.                            *)
Fresh ==
    \A i \in DOMAIN got :
        got[i].src \in {"jsonpath", "file"} => got[i].ver >= since[got[i].file].ver

(* An item with no source, or with two, keeps every source of its batch     *)
(* from being read and every command from being run.                       *)
ImproperTouchesNothing ==
    (\E k \in DOMAIN batch.calls : \E i \in DOMAIN batch.calls[k] :
        ~Proper(batch.calls[k][i])) => touched = <<>>

(* The document has every item of every operation, in order, or nothing of  *)
(* the batch at all.                                                       *)
AllOrNothing ==
    /\ status \in {"invalid", "escaped"} => applied = <<>>
    /\ \A c \in DOMAIN applied :
         /\ Len(applied[c]) = Len(batch.calls[c])
         /\ \A i \in DOMAIN applied[c] : applied[c][i].src = batch.calls[c][i].src
    /\ status = "done" => Len(applied) = Len(batch.calls)

(* Sources are touched in the order of the items, none twice: no command    *)
(* is run again, whatever became of it.                                    *)
TouchedOnce ==
    \A j \in 1..(Len(touched) - 1) :
        \/ touched[j].op < touched[j + 1].op
        \/ touched[j].op = touched[j + 1].op /\ touched[j].item < touched[j + 1].item

(* Every call returns or raises, also when a command hangs. *)
CallEnds == <>(status \in {"done", "invalid", "escaped"})
-----------------------------------------------------------------------------
(* "All content_ref items are loaded up front ... DOM mutations trigger no  *)
(* further I/O."                                                           *)
LoadedUpFront == \A j \in DOMAIN touched : touched[j].after = 0
=============================================================================
