------------------------------ MODULE SafeSave ------------------------------
(***************************************************************************)
(* Opening and saving: the safe-save pipeline of save.py, step by step,    *)
(* next to other programs that write the same files, with an I/O failure   *)
(* or a crash between any two steps.                                       *)
(*                                                                         *)
(* A package is known by where its parts are from: its main part (the      *)
(* outside version it was opened from, and the last edit), and the rest of *)
(* its parts, which a save copies from the source.  A file is a package    *)
(* with a modification time.  Outside versions, edits and times are        *)
(* numbered by one counter, so each is new.                                *)
(*                                                                         *)
(* Assumptions on the file system: os.replace is atomic, other programs    *)
(* replace a file in one piece, and a file that is open is read as it was. *)
(* Temporary files have names of their own; one that a crash leaves behind *)
(* is never looked at again and is not modelled.                           *)
(***************************************************************************)
EXTENDS Integers

CONSTANTS
    Path,           \* the paths a document is opened from or saved to
    Source,         \* the path it is opened from
    Exposed,        \* the steps before which another program may write
    Faulty,         \* the steps that may fail with an I/O error
    MaxVersions     \* bound: versions, edits and times of a behaviour

Saving == {"checking", "comparing", "building", "validating", "backing up", "renaming",
           "staging", "replacing", "rereading", "absorbing"}

Steps == {"closed", "fingerprinting", "loading", "ready"} \cup Saving

ASSUME PathAssumption == Source \in Path /\ MaxVersions \in Nat

ASSUME StepAssumption == Exposed \subseteq Steps /\ Faulty \subseteq Saving

VARIABLES
    file, bak,      \* path -> the file there, and the file at path.bak
    step,           \* where the session stands
    dest,           \* the path being saved to
    dom,            \* the main part in memory: its origin and its last edit
    fingerprint,    \* self._source_fingerprint
    bytes,          \* the file whose bytes a fingerprint being taken has read
    scratch,        \* the temporary package
    tmp,            \* the copy of the destination on its way to path.bak
    known,          \* the file at Source that the session last loaded or wrote
    next            \* the next number

session == <<dest, dom, fingerprint, bytes, scratch, tmp, known>>
vars == <<file, bak, step, dest, dom, fingerprint, bytes, scratch, tmp, known, next>>

File == [origin : Nat, edit : Nat, rest : Nat, time : Nat, whole : BOOLEAN]

Outside(v) == [origin |-> v, edit |-> v, rest |-> v, time |-> v, whole |-> TRUE]

NoFile == Outside(0)

(* A fingerprint: a hash of the bytes, which tells packages apart, and the  *)
(* time; the two are read one after the other.                              *)
Fingerprint(b, t) == [b EXCEPT !.time = t]

Init ==
    /\ file = [p \in Path |-> IF p = Source THEN Outside(1) ELSE NoFile]
    /\ bak = [p \in Path |-> NoFile]
    /\ step = "closed"
    /\ dest = Source
    /\ dom = [origin |-> 0, edit |-> 0]
    /\ fingerprint = NoFile /\ bytes = NoFile
    /\ scratch = NoFile /\ tmp = NoFile /\ known = NoFile
    /\ next = 2
-----------------------------------------------------------------------------
(* Document.open: the bytes are read, then the time, then the package is   *)
(* read again to extract it.                                               *)

Open ==
    /\ step = "closed" /\ file[Source] # NoFile
    /\ bytes' = file[Source]
    /\ step' = "fingerprinting"
    /\ UNCHANGED <<file, bak, dest, dom, fingerprint, scratch, tmp, known, next>>

TakeFingerprint ==
    /\ step = "fingerprinting" /\ file[Source] # NoFile
    /\ fingerprint' = Fingerprint(bytes, file[Source].time)
    /\ step' = "loading"
    /\ UNCHANGED <<file, bak, dest, dom, bytes, scratch, tmp, known, next>>

SlipLoadedEarlier ==
    /\ step = "loading" /\ file[Source].whole /\ file[Source] # NoFile
    /\ dom' = [origin |-> bytes.origin, edit |-> bytes.edit]
    /\ known' = file[Source]
    /\ step' = "ready"
    /\ UNCHANGED <<file, bak, dest, fingerprint, bytes, scratch, tmp, next>>

Load ==
    /\ step = "loading" /\ file[Source].whole /\ file[Source] # NoFile
    /\ dom' = [origin |-> file[Source].origin, edit |-> file[Source].edit]
    /\ known' = file[Source]
    /\ step' = "ready"
    /\ UNCHANGED <<file, bak, dest, fingerprint, bytes, scratch, tmp, next>>

CannotOpen ==
    /\ \/ step \in {"closed", "fingerprinting"} /\ file[Source] = NoFile
       \/ step = "loading" /\ (file[Source] = NoFile \/ ~file[Source].whole)
    /\ step' = "closed"
    /\ UNCHANGED <<file, bak, session, next>>

Edit ==
    /\ step = "ready" /\ next < MaxVersions
    /\ dom' = [dom EXCEPT !.edit = next]
    /\ next' = next + 1
    /\ UNCHANGED <<file, bak, step, dest, fingerprint, bytes, scratch, tmp, known>>

(* close(), or the end of the program at any point. *)
CloseOrCrash ==
    /\ step # "closed"
    /\ step' = "closed"
    /\ UNCHANGED <<file, bak, session, next>>
-----------------------------------------------------------------------------
(* save_document. *)

Save(p) ==
    /\ step = "ready" /\ next < MaxVersions
    /\ dest' = p
    /\ step' = "checking"
    /\ UNCHANGED <<file, bak, dom, fingerprint, bytes, scratch, tmp, known, next>>

(* _check_source_drift: the source is there and its bytes are read ...     *)
Check ==
    /\ step = "checking" /\ file[Source] # NoFile
    /\ bytes' = file[Source]
    /\ step' = "comparing"
    /\ UNCHANGED <<file, bak, dest, dom, fingerprint, scratch, tmp, known, next>>

(* ... then its time, and the two are those of the fingerprint. *)
Compare ==
    /\ step = "comparing" /\ file[Source] # NoFile
    /\ Fingerprint(bytes, file[Source].time) = fingerprint
    /\ step' = "building"
    /\ UNCHANGED <<file, bak, session, next>>

SlipDriftAbsorbed ==
    /\ step = "comparing" /\ Fingerprint(bytes, file[Source].time) # fingerprint
    /\ fingerprint' = Fingerprint(bytes, file[Source].time)
    /\ step' = "ready"
    /\ UNCHANGED <<file, bak, dest, dom, bytes, scratch, tmp, known, next>>

(* SourceChangedError, or the source vanished. *)
Drifted ==
    /\ \/ step = "checking" /\ file[Source] = NoFile
       \/ step = "comparing" /\ Fingerprint(bytes, file[Source].time) # fingerprint
    /\ step' = "ready"
    /\ UNCHANGED <<file, bak, session, next>>

(* _build_temp_package: the main part from memory, the rest from the        *)
(* source as it is now.  What comes out may be no sound package: a main     *)
(* part that does not parse again, or a damaged archive.                    *)
Build ==
    /\ step = "building" /\ file[Source] # NoFile
    /\ \E whole \in BOOLEAN :
         scratch' = [origin |-> dom.origin, edit |-> dom.edit,
                     rest |-> file[Source].rest, time |-> next, whole |-> whole]
    /\ next' = next + 1
    /\ step' = "validating"
    /\ UNCHANGED <<file, bak, dest, dom, fingerprint, bytes, tmp, known>>

SlipNotValidated ==
    /\ step = "validating"
    /\ step' = "backing up"
    /\ UNCHANGED <<file, bak, session, next>>

(* _validate_temp_package *)
Validate ==
    /\ step = "validating" /\ scratch.whole
    /\ step' = "backing up"
    /\ UNCHANGED <<file, bak, session, next>>

(* _write_backup: a copy beside the destination ... *)
CopyDest ==
    /\ step = "backing up" /\ file[dest] # NoFile
    /\ tmp' = file[dest]
    /\ step' = "renaming"
    /\ UNCHANGED <<file, bak, dest, dom, fingerprint, bytes, scratch, known, next>>

(* ... that is renamed to path.bak. *)
RenameBackup ==
    /\ step = "renaming"
    /\ bak' = [bak EXCEPT ![dest] = tmp]
    /\ step' = "staging"
    /\ UNCHANGED <<file, session, next>>

(* There is nothing to back up. *)
NewDest ==
    /\ step = "backing up" /\ file[dest] = NoFile
    /\ step' = "staging"
    /\ UNCHANGED <<file, bak, session, next>>

(* The temporary package is copied into the destination's directory ... *)
Stage ==
    /\ step = "staging"
    /\ step' = "replacing"
    /\ UNCHANGED <<file, bak, session, next>>

SlipNotAbsorbed ==
    /\ step = "replacing"
    /\ file' = [file EXCEPT ![dest] = scratch]
    /\ known' = IF dest = Source THEN scratch ELSE known
    /\ step' = "ready"
    /\ UNCHANGED <<bak, dest, dom, fingerprint, bytes, scratch, tmp, next>>

(* ... and renamed to the destination; copies keep the time. *)
ReplaceDest ==
    /\ step = "replacing"
    /\ file' = [file EXCEPT ![dest] = scratch]
    /\ known' = IF dest = Source THEN scratch ELSE known
    /\ step' = IF dest = Source THEN "rereading" ELSE "ready"
    /\ UNCHANGED <<bak, dest, dom, fingerprint, bytes, scratch, tmp, next>>

(* After a save over the source the fingerprint is taken anew, from disk. *)
Reread ==
    /\ step = "rereading" /\ file[Source] # NoFile
    /\ bytes' = file[Source]
    /\ step' = "absorbing"
    /\ UNCHANGED <<file, bak, dest, dom, fingerprint, scratch, tmp, known, next>>

Absorb ==
    /\ step = "absorbing" /\ file[Source] # NoFile
    /\ fingerprint' = Fingerprint(bytes, file[Source].time)
    /\ step' = "ready"
    /\ UNCHANGED <<file, bak, dest, dom, bytes, scratch, tmp, known, next>>

(* An exception leaves the save: an I/O error, a package that does not      *)
(* validate, a file that has vanished.                                      *)
Fail ==
    /\ \/ step \in Faulty
       \/ step = "validating" /\ ~scratch.whole
       \/ step \in {"building", "comparing", "rereading", "absorbing"} /\ file[Source] = NoFile
    /\ step' = "ready"
    /\ UNCHANGED <<file, bak, session, next>>

(* Another program writes or removes one of the files. *)
OtherProgram ==
    /\ step \in Exposed /\ next < MaxVersions
    /\ \E p \in Path, f \in {NoFile, Outside(next)} : file' = [file EXCEPT ![p] = f]
    /\ next' = next + 1
    /\ UNCHANGED <<bak, step, session>>

Next ==
    \/ Open \/ TakeFingerprint \/ Load \/ CannotOpen \/ Edit \/ CloseOrCrash
    \/ \E p \in Path : Save(p)
    \/ Check \/ Compare \/ Drifted \/ Build \/ Validate
    \/ CopyDest \/ RenameBackup \/ NewDest \/ Stage \/ ReplaceDest
    \/ Reread \/ Absorb \/ Fail
    \/ OtherProgram

Spec == Init /\ [][Next]_vars
-----------------------------------------------------------------------------
(* The type invariant: every number in use is below the next one. *)
Used == 0..(next - 1)

TypeOK ==
    LET Known == [origin : Used, edit : Used, rest : Used, time : Used, whole : BOOLEAN]
    IN  /\ next \in Nat \ {0}
        /\ file \in [Path -> Known] /\ bak \in [Path -> Known]
        /\ step \in Steps
        /\ dest \in Path
        /\ dom \in [origin : Used, edit : Used]
        /\ fingerprint \in Known /\ bytes \in Known
        /\ scratch \in Known /\ tmp \in Known /\ known \in Known

(* No other program writes from the end of the drift check to the end of    *)
(* the save.                                                                *)
QuietAfterCheck ==
    Exposed \subseteq {"closed", "fingerprinting", "loading", "ready", "checking", "comparing"}

(* Whatever fails and whenever the program dies, neither a path nor its     *)
(* .bak ever holds a package that is damaged or half-written.               *)
OnlyWholePackages == \A p \in Path : file[p].whole /\ bak[p].whole

(* The parts of every package on disk belong together: a save puts the main *)
(* part in memory among the other parts of the package it was opened from.  *)
PartsBelongTogether ==
    \A p \in Path : file[p].origin = file[p].rest /\ bak[p].origin = bak[p].rest

(* A save that overwrites a file has that very file in path.bak. *)
BackupStep ==
    step = "replacing" /\ file' # file => file[dest] = NoFile \/ bak[dest] = file[dest]
OverwritesBackedUp == [][BackupStep]_vars

(* A save that overwrites the source overwrites a version that the session  *)
(* itself had loaded or written: nobody's changes are lost unseen.          *)
OverwriteStep ==
    step = "replacing" /\ dest = Source /\ file' # file => file[Source] = known
NoSilentOverwrite == [][OverwriteStep]_vars

(* The whole pipeline, with its failures and crashes and with other         *)
(* programs that write up to the end of the drift check, implements a save  *)
(* that happens at once or not at all.                                      *)
Atomic == INSTANCE AtomicSave WITH draft <- dom, seen <- known, None <- NoFile
SavesAtomically == Atomic!Spec

(* No false alarm: as long as the source is what the session has saved      *)
(* there, its next save passes the drift check.                             *)
WrittenBySave(f) == f.time # f.edit
SavesAgain ==
    step = "ready" /\ file[Source] = known /\ WrittenBySave(known) => fingerprint = known
-----------------------------------------------------------------------------
(* Statements of the documentation that the code does not keep if other     *)
(* programs may write at any step.                                          *)

(* "No silent overwrite on source drift": a version of the source that the  *)
(* session has neither loaded nor written is not overwritten.               *)
DriftStep == step = "replacing" /\ dest = Source /\ file' # file =>
                file[Source] \in {known, NoFile}
NoDriftOverwritten == [][DriftStep]_vars

(* ".bak is exactly the version replaced by the second save". *)
ReplacedIsInBackup == OverwritesBackedUp
=============================================================================
