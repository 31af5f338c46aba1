----------------------------- MODULE AtomicSave -----------------------------
(***************************************************************************)
(* What a caller is promised about saving, with no temporary files, no     *)
(* fingerprints and no steps of which one may fail: a save happens at once *)
(* or not at all.  It puts the text in memory, whole and with the parts of *)
(* the package it was opened from, in place of a file that the backup      *)
(* holds; in place of the source only if that is the version that was      *)
(* opened or saved last.  Taking a backup is all that else may happen to   *)
(* the disk.  (openspec/specs/safe-document-save; the module save.py.)     *)
(***************************************************************************)
CONSTANTS
    Path,           \* the paths
    Source,         \* the path that was opened
    None            \* no file

VARIABLES
    file, bak,      \* path -> the file there, and the file at path.bak
    draft,          \* the text in memory: [origin, edit]
    seen            \* the source as it was opened or saved last

vars == <<file, bak, draft, seen>>

Package(text, time) ==
    [origin |-> text.origin, edit |-> text.edit, rest |-> text.origin,
     time |-> time, whole |-> TRUE]

(* A package that another program has written: all of it is one version.   *)
Theirs(f) == f = Package([origin |-> f.origin, edit |-> f.origin], f.origin)

Init == bak = [p \in Path |-> None]

Open ==
    /\ draft' = [origin |-> file[Source].origin, edit |-> file[Source].edit]
    /\ seen' = file[Source]
    /\ UNCHANGED <<file, bak>>

Edit ==
    /\ draft'.origin = draft.origin
    /\ UNCHANGED <<file, bak, seen>>

Backup(p) ==
    /\ file[p] # None
    /\ bak' = [bak EXCEPT ![p] = file[p]]
    /\ UNCHANGED <<file, draft, seen>>

Commit(p) ==
    /\ file[p] = None \/ bak[p] = file[p]
    /\ p = Source => file[p] = seen
    /\ file' = [file EXCEPT ![p] = Package(draft, file'[p].time)]
    /\ seen' = IF p = Source THEN file'[p] ELSE seen
    /\ UNCHANGED <<bak, draft>>

OtherProgram(p) ==
    /\ file' = [file EXCEPT ![p] = file'[p]]
    /\ Theirs(file'[p])
    /\ UNCHANGED <<bak, draft, seen>>

Next ==
    \/ Open \/ Edit
    \/ \E p \in Path : Backup(p) \/ Commit(p) \/ OtherProgram(p)

Spec == Init /\ [][Next]_vars
=============================================================================
