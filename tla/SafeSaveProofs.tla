--------------------------- MODULE SafeSaveProofs ---------------------------
(***************************************************************************)
(* What holds of SafeSave for every set of paths, and for every choice of  *)
(* the steps that are exposed to other programs or that may fail.          *)
(***************************************************************************)
EXTENDS SafeSave, TLAPS

(* The packages that mention numbers below n only. *)
Below(n) == [origin : 0..(n - 1), edit : 0..(n - 1), rest : 0..(n - 1),
             time : 0..(n - 1), whole : BOOLEAN]

LEMMA BelowGrows ==
  ASSUME NEW n \in Nat
  PROVE  /\ Below(n) \subseteq Below(n + 1)
         /\ 0..(n - 1) \subseteq 0..((n + 1) - 1)
         /\ n \in 0..((n + 1) - 1)
<1>1. 0..(n - 1) \subseteq 0..((n + 1) - 1) /\ n \in 0..((n + 1) - 1)
  OBVIOUS
<1>2. ASSUME NEW f \in Below(n) PROVE f \in Below(n + 1)
  BY <1>1 DEF Below
<1> QED
  BY <1>1, <1>2

LEMMA OutsideBelow ==
  ASSUME NEW n \in Nat
  PROVE  Outside(n) \in Below(n + 1) /\ NoFile \in Below(n + 1)
<1>1. n \in 0..((n + 1) - 1) /\ 0 \in 0..((n + 1) - 1)
  OBVIOUS
<1> QED
  BY <1>1 DEF Outside, NoFile, Below

(* The type invariant, with its packages named. *)
Types(n) ==
    /\ n \in Nat \ {0}
    /\ file \in [Path -> Below(n)] /\ bak \in [Path -> Below(n)]
    /\ step \in Steps
    /\ dest \in Path
    /\ dom \in [origin : 0..(n - 1), edit : 0..(n - 1)]
    /\ fingerprint \in Below(n) /\ bytes \in Below(n)
    /\ scratch \in Below(n) /\ tmp \in Below(n) /\ known \in Below(n)

LEMMA TypesOK == (TypeOK <=> Types(next)) /\ (TypeOK' <=> Types(next)')
  BY DEF TypeOK, Types, Below, Used

LEMMA TypesGrow == Types(next) => Types(next + 1)
<1> SUFFICES ASSUME Types(next) PROVE Types(next + 1)
  OBVIOUS
<1>1. next \in Nat /\ next + 1 \in Nat \ {0}
  BY DEF Types
<1>2. /\ Below(next) \subseteq Below(next + 1)
      /\ 0..(next - 1) \subseteq 0..((next + 1) - 1)
  BY <1>1, BelowGrows
<1> QED
  BY <1>1, <1>2 DEF Types

LEMMA TypeInit == Init => TypeOK
<1> SUFFICES ASSUME Init PROVE Types(next)
  BY TypesOK
<1>1. Outside(1) \in Below(2) /\ NoFile \in Below(2)
  BY OutsideBelow
<1> QED
  BY <1>1, PathAssumption DEF Init, Types, Steps, Saving

LEMMA TypeStep == TypeOK /\ [Next]_vars => TypeOK'
<1> SUFFICES ASSUME Types(next), [Next]_vars PROVE Types(next)'
  BY TypesOK
<1>1. Types(next + 1)
  BY TypesGrow
<1> DEFINE Used2 == 0..((next + 1) - 1)
<1>2. /\ next \in Nat /\ next \in Used2
      /\ Outside(next) \in Below(next + 1) /\ NoFile \in Below(next + 1)
  BY BelowGrows, OutsideBelow DEF Types
<1>a. file[Source] \in Below(next) /\ Fingerprint(bytes, file[Source].time) \in Below(next)
  <2>1. file[Source] \in Below(next) /\ bytes \in Below(next)
    BY PathAssumption DEF Types
  <2>2. file[Source].time \in 0..(next - 1)
    BY <2>1 DEF Below
  <2> QED
    BY <2>1, <2>2 DEF Fingerprint, Below
<1>3. CASE Open \/ TakeFingerprint \/ CannotOpen \/ CloseOrCrash
  BY <1>3, <1>a DEF Open, TakeFingerprint, CannotOpen, CloseOrCrash, session, Types, Steps, Saving
<1>b. CASE Load
  <2>1. dom' \in [origin : 0..(next - 1), edit : 0..(next - 1)]
    BY <1>b, <1>a DEF Load, Below
  <2> QED
    BY <1>b, <1>a, <2>1 DEF Load, Types, Steps, Saving
<1>4. CASE Edit
  <2>1. dom' \in [origin : Used2, edit : Used2]
    BY <1>4, <1>1, <1>2 DEF Edit, Types
  <2> QED
    BY <1>4, <1>1, <2>1 DEF Edit, Types
<1>5. CASE \E p \in Path : Save(p)
  BY <1>5 DEF Save, Types, Steps, Saving
<1>6. CASE Check \/ Compare \/ Drifted \/ Validate
  BY <1>6, PathAssumption DEF Check, Compare, Drifted, Validate, session, Types, Steps, Saving
<1>7. CASE Build
  <2>1. PICK whole \in BOOLEAN :
           scratch' = [origin |-> dom.origin, edit |-> dom.edit,
                       rest |-> file[Source].rest, time |-> next, whole |-> whole]
    BY <1>7 DEF Build
  <2>2. dom.origin \in Used2 /\ dom.edit \in Used2 /\ file[Source].rest \in Used2
    BY <1>1, PathAssumption DEF Types, Below
  <2>3. scratch' \in Below(next + 1)
    BY <2>1, <2>2, <1>2 DEF Below
  <2> QED
    BY <1>7, <1>1, <2>3 DEF Build, Types, Steps, Saving
<1>8. CASE CopyDest \/ RenameBackup \/ NewDest \/ Stage \/ ReplaceDest
  BY <1>8 DEF CopyDest, RenameBackup, NewDest, Stage, ReplaceDest, session, Types, Steps, Saving
<1>9. CASE Reread \/ Absorb \/ Fail
  BY <1>9, <1>a DEF Reread, Absorb, Fail, session, Types, Steps, Saving
<1>10. CASE OtherProgram
  <2>1. PICK p \in Path, f \in {NoFile, Outside(next)} : file' = [file EXCEPT ![p] = f]
    BY <1>10 DEF OtherProgram
  <2>2. file' \in [Path -> Below(next + 1)]
    BY <2>1, <1>1, <1>2 DEF Types
  <2> QED
    BY <1>10, <1>1, <2>2 DEF OtherProgram, session, Types
<1>11. CASE UNCHANGED vars
  BY <1>11 DEF vars, Types
<1> QED
  BY <1>3, <1>b, <1>4, <1>5, <1>6, <1>7, <1>8, <1>9, <1>10, <1>11 DEF Next

(* Every number any file, package or fingerprint mentions has been given    *)
(* out: the next outside version, edit or time is new to all of them.       *)
THEOREM SaveTypeCorrect == Spec => []TypeOK
  BY TypeInit, TypeStep, PTL DEF Spec
-----------------------------------------------------------------------------
(* Once the temporary package has been validated it is sound, and so is     *)
(* whatever is copied or renamed.                                           *)
Validated == {"backing up", "renaming", "staging", "replacing"}

WholeInv ==
    /\ \A p \in Path : file[p].whole /\ bak[p].whole
    /\ tmp.whole
    /\ step \in Validated => scratch.whole

LEMMA WholeStep == TypeOK /\ WholeInv /\ [Next]_vars => WholeInv'
<1> SUFFICES ASSUME Types(next), WholeInv, [Next]_vars PROVE WholeInv'
  BY TypesOK
<1>1. CASE Open \/ TakeFingerprint \/ Load \/ CannotOpen \/ Edit \/ CloseOrCrash
  BY <1>1 DEF Open, TakeFingerprint, Load, CannotOpen, Edit, CloseOrCrash, session,
              WholeInv, Validated
<1>2. CASE \E p \in Path : Save(p)
  BY <1>2 DEF Save, WholeInv, Validated
<1>3. CASE Check \/ Compare \/ Drifted \/ Build \/ Validate
  BY <1>3 DEF Check, Compare, Drifted, Build, Validate, session, WholeInv, Validated
<1>4. CASE CopyDest \/ NewDest \/ Stage
  BY <1>4 DEF CopyDest, NewDest, Stage, session, WholeInv, Validated, Types
<1>5. CASE RenameBackup
  BY <1>5 DEF RenameBackup, session, WholeInv, Validated, Types
<1>6. CASE ReplaceDest
  BY <1>6 DEF ReplaceDest, WholeInv, Validated, Types
<1>7. CASE Reread \/ Absorb \/ Fail
  BY <1>7 DEF Reread, Absorb, Fail, session, WholeInv, Validated
<1>8. CASE OtherProgram
  <2>1. PICK p \in Path, f \in {NoFile, Outside(next)} : file' = [file EXCEPT ![p] = f]
    BY <1>8 DEF OtherProgram
  <2>2. f.whole
    BY DEF NoFile, Outside
  <2> QED
    BY <1>8, <2>1, <2>2 DEF OtherProgram, session, WholeInv, Types
<1>9. CASE UNCHANGED vars
  BY <1>9 DEF vars, WholeInv
<1> QED
  BY <1>1, <1>2, <1>3, <1>4, <1>5, <1>6, <1>7, <1>8, <1>9 DEF Next

(* However many saves fail or die, and wherever, whatever other programs do *)
(* to the files, a path and its .bak never hold a damaged package.          *)
THEOREM AlwaysWhole == Spec => []OnlyWholePackages
<1>1. Init => WholeInv
  BY DEF Init, WholeInv, Outside, NoFile, Validated
<1>2. WholeInv => OnlyWholePackages
  BY DEF WholeInv, OnlyWholePackages
<1> QED
  BY TypeInit, TypeStep, WholeStep, <1>1, <1>2, PTL DEF Spec
-----------------------------------------------------------------------------
(* Where the drift check earns its keep: from its end on, the source is the *)
(* version that the session knows; before, a source that has the session's  *)
(* fingerprint is that version.  While the two halves of a fingerprint are  *)
(* compared, a source that has been changed in between has a newer time.    *)
Opening == {"closed", "fingerprinting", "loading"}

Checked == {"building", "validating", "backing up", "renaming", "staging",
            "replacing", "rereading", "absorbing"}

KnownInv ==
    /\ step \notin Opening /\ file[Source] # NoFile /\ file[Source] = fingerprint
         => file[Source] = known
    /\ step = "comparing" /\ file[Source] # NoFile
         => bytes = file[Source] \/ file[Source].time # fingerprint.time
    /\ step \in Checked => file[Source] = known
    /\ step = "absorbing" => bytes = known

LEMMA OwnFingerprint ==
  ASSUME NEW n \in Nat, NEW f \in Below(n)
  PROVE  Fingerprint(f, f.time) = f
  BY DEF Fingerprint, Below

LEMMA NewVersion ==
  ASSUME NEW n \in Nat, NEW f \in Below(n)
  PROVE  Outside(n) # f /\ Outside(n).time # f.time
<1>1. f.time \in 0..(n - 1)
  BY DEF Below
<1>2. n \notin 0..(n - 1)
  OBVIOUS
<1> QED
  BY <1>1, <1>2 DEF Outside

LEMMA KnownStep ==
  QuietAfterCheck /\ TypeOK /\ KnownInv /\ [Next]_vars => KnownInv'
<1> SUFFICES ASSUME QuietAfterCheck, Types(next), KnownInv, [Next]_vars PROVE KnownInv'
  BY TypesOK
<1> USE DEF Opening, Checked
<1>1. /\ file[Source] \in Below(next) /\ fingerprint \in Below(next)
      /\ next \in Nat /\ known \in Below(next)
  BY PathAssumption DEF Types
<1>2. CASE Open \/ TakeFingerprint \/ Load \/ CannotOpen \/ CloseOrCrash
  BY <1>2 DEF Open, TakeFingerprint, Load, CannotOpen, CloseOrCrash, session, KnownInv
<1>3. CASE Edit \/ \E p \in Path : Save(p)
  BY <1>3 DEF Edit, Save, KnownInv
<1>4. CASE Check
  BY <1>4 DEF Check, KnownInv
<1>5. CASE Compare
  <2>1. bytes = file[Source] \/ file[Source].time # fingerprint.time
    BY <1>5 DEF Compare, KnownInv
  <2>2. Fingerprint(bytes, file[Source].time).time = file[Source].time
    <3>1. bytes \in Below(next)
      BY DEF Types
    <3> QED
      BY <3>1 DEF Fingerprint, Below
  <2>3. bytes = file[Source]
    BY <2>1, <2>2, <1>5 DEF Compare
  <2>4. fingerprint = file[Source]
    BY <2>3, <1>1, <1>5, OwnFingerprint DEF Compare
  <2>5. file[Source] = known
    BY <2>4, <1>5 DEF Compare, KnownInv
  <2> QED
    BY <2>5, <1>5 DEF Compare, KnownInv, session
<1>6. CASE Drifted \/ Build \/ Validate \/ CopyDest \/ RenameBackup \/ NewDest \/ Stage
  BY <1>6 DEF Drifted, Build, Validate, CopyDest, RenameBackup, NewDest, Stage, session, KnownInv
<1>7. CASE ReplaceDest
  <2>1. CASE dest = Source
    <3>1. file'[Source] = scratch /\ known' = scratch
      BY <2>1, <1>7, PathAssumption DEF ReplaceDest, Types
    <3> QED
      BY <3>1, <2>1, <1>7 DEF ReplaceDest, KnownInv
  <2>2. CASE dest # Source
    <3>1. file'[Source] = file[Source]
      BY <2>2, <1>7, PathAssumption DEF ReplaceDest, Types
    <3> QED
      BY <3>1, <2>2, <1>7 DEF ReplaceDest, KnownInv
  <2> QED
    BY <2>1, <2>2
<1>8. CASE Reread
  BY <1>8 DEF Reread, KnownInv
<1>9. CASE Absorb
  BY <1>9 DEF Absorb, KnownInv
<1>10. CASE Fail
  BY <1>10, StepAssumption DEF Fail, Saving, session, KnownInv
<1>11. CASE OtherProgram
  <2>1. PICK p \in Path, f \in {NoFile, Outside(next)} : file' = [file EXCEPT ![p] = f]
    BY <1>11 DEF OtherProgram
  <2>2. step' = step /\ step \notin Checked /\ fingerprint' = fingerprint /\ known' = known
        /\ bytes' = bytes
    BY <1>11 DEF OtherProgram, QuietAfterCheck, session
  <2>3. CASE p = Source
    <3>1. file'[Source] = f
      BY <2>1, <2>3, PathAssumption DEF Types
    <3>2. Outside(next) # fingerprint /\ Outside(next).time # fingerprint.time
      BY <1>1, NewVersion
    <3> QED
      BY <2>2, <3>1, <3>2 DEF KnownInv
  <2>4. CASE p # Source
    <3>1. file'[Source] = file[Source]
      BY <2>1, <2>4, PathAssumption DEF Types
    <3> QED
      BY <2>2, <3>1 DEF KnownInv
  <2> QED
    BY <2>3, <2>4
<1>12. CASE UNCHANGED vars
  BY <1>12 DEF vars, KnownInv
<1> QED
  BY <1>2, <1>3, <1>4, <1>5, <1>6, <1>7, <1>8, <1>9, <1>10, <1>11, <1>12 DEF Next

(* As long as no other program writes after the drift check, a save over    *)
(* the source never overwrites a version the session has not loaded or      *)
(* written: not if the source changes while it is opened, between two calls *)
(* or in the middle of the check, and not after failures and crashes.       *)
THEOREM NothingLostUnseen == QuietAfterCheck => (Spec => NoSilentOverwrite)
<1> SUFFICES ASSUME QuietAfterCheck PROVE Spec => NoSilentOverwrite
  OBVIOUS
<1>1. Init => KnownInv
  BY DEF Init, KnownInv, Opening, Checked
<1>2. TypeOK /\ KnownInv /\ [Next]_vars => KnownInv'
  BY KnownStep
<1>3. KnownInv => OverwriteStep
  BY DEF KnownInv, OverwriteStep, Checked
<1> QED
  BY TypeInit, TypeStep, <1>1, <1>2, <1>3, PTL DEF Spec, NoSilentOverwrite
-----------------------------------------------------------------------------
(* The file that is about to be overwritten stays as it was copied while    *)
(* nobody else writes.                                                      *)
BackupInv ==
    /\ step = "renaming" => tmp = file[dest] /\ file[dest] # NoFile
    /\ step \in {"staging", "replacing"} => file[dest] = NoFile \/ bak[dest] = file[dest]

LEMMA BackupInvStep ==
  QuietAfterCheck /\ TypeOK /\ BackupInv /\ [Next]_vars => BackupInv'
<1> SUFFICES ASSUME QuietAfterCheck, Types(next), BackupInv, [Next]_vars PROVE BackupInv'
  BY TypesOK
<1>1. CASE Open \/ TakeFingerprint \/ Load \/ CannotOpen \/ Edit \/ CloseOrCrash
  BY <1>1 DEF Open, TakeFingerprint, Load, CannotOpen, Edit, CloseOrCrash, BackupInv
<1>2. CASE \E p \in Path : Save(p)
  BY <1>2 DEF Save, BackupInv
<1>3. CASE Check \/ Compare \/ Drifted \/ Build \/ Validate
  BY <1>3 DEF Check, Compare, Drifted, Build, Validate, BackupInv
<1>4. CASE CopyDest \/ NewDest \/ Stage
  BY <1>4 DEF CopyDest, NewDest, Stage, session, BackupInv
<1>5. CASE RenameBackup
  <2>1. dest' = dest /\ file' = file /\ bak'[dest] = tmp
    BY <1>5 DEF RenameBackup, session, Types
  <2> QED
    BY <2>1, <1>5 DEF RenameBackup, BackupInv
<1>6. CASE ReplaceDest \/ Reread \/ Absorb \/ Fail
  BY <1>6 DEF ReplaceDest, Reread, Absorb, Fail, BackupInv
<1>7. CASE OtherProgram
  BY <1>7 DEF OtherProgram, QuietAfterCheck, BackupInv
<1>8. CASE UNCHANGED vars
  BY <1>8 DEF vars, BackupInv
<1> QED
  BY <1>1, <1>2, <1>3, <1>4, <1>5, <1>6, <1>7, <1>8 DEF Next

(* As long as no other program writes after the drift check, a save that    *)
(* overwrites a file, the source or not, has that very file in path.bak,    *)
(* whatever earlier saves failed and wherever.                              *)
THEOREM OverwrittenIsInBackup == QuietAfterCheck => (Spec => OverwritesBackedUp)
<1> SUFFICES ASSUME QuietAfterCheck PROVE Spec => OverwritesBackedUp
  OBVIOUS
<1>1. Init => BackupInv
  BY DEF Init, BackupInv
<1>2. TypeOK /\ BackupInv /\ [Next]_vars => BackupInv'
  BY BackupInvStep
<1>3. BackupInv => BackupStep
  BY DEF BackupInv, BackupStep
<1> QED
  BY TypeInit, TypeStep, <1>1, <1>2, <1>3, PTL DEF Spec, OverwritesBackedUp
-----------------------------------------------------------------------------
(* The main part in memory is from the version the session knows, whatever  *)
(* edits it has seen; the rest of a package that is being saved is copied   *)
(* from the source, which is that version by the time of the copy.          *)
Built == Validated \cup {"validating"}

PartsInv ==
    /\ PartsBelongTogether
    /\ tmp.origin = tmp.rest /\ known.origin = known.rest
    /\ step \notin Opening => dom.origin = known.origin
    /\ step \in Built => scratch.origin = dom.origin /\ scratch.rest = dom.origin

LEMMA PartsStep ==
  TypeOK /\ KnownInv /\ PartsInv /\ [Next]_vars => PartsInv'
<1> SUFFICES ASSUME Types(next), KnownInv, PartsInv, [Next]_vars PROVE PartsInv'
  BY TypesOK
<1> USE DEF Opening, Built, Validated
<1>1. CASE Open \/ TakeFingerprint \/ CannotOpen \/ CloseOrCrash
  BY <1>1 DEF Open, TakeFingerprint, CannotOpen, CloseOrCrash, session, PartsInv,
              PartsBelongTogether
<1>2. CASE Load
  BY <1>2, PathAssumption DEF Load, PartsInv, PartsBelongTogether
<1>3. CASE Edit
  <2>1. dom'.origin = dom.origin
    BY <1>3 DEF Edit, Types
  <2> QED
    BY <1>3, <2>1 DEF Edit, PartsInv, PartsBelongTogether
<1>4. CASE \E p \in Path : Save(p)
  BY <1>4 DEF Save, PartsInv, PartsBelongTogether
<1>5. CASE Check \/ Compare \/ Drifted \/ Validate \/ NewDest \/ Stage
  BY <1>5 DEF Check, Compare, Drifted, Validate, NewDest, Stage, session, PartsInv,
              PartsBelongTogether
<1>6. CASE Build
  <2>1. file[Source] = known
    BY <1>6 DEF Build, KnownInv, Checked
  <2>2. scratch'.origin = dom.origin /\ scratch'.rest = file[Source].rest
    BY <1>6 DEF Build
  <2>3. dom.origin = known.origin /\ known.origin = known.rest
    BY <1>6 DEF Build, PartsInv
  <2> QED
    BY <1>6, <2>1, <2>2, <2>3 DEF Build, PartsInv, PartsBelongTogether
<1>7. CASE CopyDest
  BY <1>7 DEF CopyDest, PartsInv, PartsBelongTogether, Types
<1>8. CASE RenameBackup
  BY <1>8 DEF RenameBackup, session, PartsInv, PartsBelongTogether, Types
<1>9. CASE ReplaceDest
  <2>1. scratch.origin = dom.origin /\ scratch.rest = dom.origin
    BY <1>9 DEF ReplaceDest, PartsInv
  <2>2. PartsBelongTogether'
    BY <1>9, <2>1 DEF ReplaceDest, PartsInv, PartsBelongTogether, Types
  <2>3. known'.origin = known'.rest /\ dom'.origin = known'.origin
    BY <1>9, <2>1 DEF ReplaceDest, PartsInv
  <2> QED
    BY <1>9, <2>2, <2>3 DEF ReplaceDest, PartsInv
<1>10. CASE Reread \/ Absorb
  BY <1>10 DEF Reread, Absorb, PartsInv, PartsBelongTogether
<1>11. CASE Fail
  BY <1>11, StepAssumption DEF Fail, Saving, session, PartsInv, PartsBelongTogether
<1>12. CASE OtherProgram
  <2>1. PICK p \in Path, f \in {NoFile, Outside(next)} : file' = [file EXCEPT ![p] = f]
    BY <1>12 DEF OtherProgram
  <2>2. f.origin = f.rest
    BY DEF NoFile, Outside
  <2>3. PartsBelongTogether'
    BY <1>12, <2>1, <2>2 DEF OtherProgram, PartsInv, PartsBelongTogether, Types
  <2> QED
    BY <1>12, <2>3 DEF OtherProgram, session, PartsInv
<1>13. CASE UNCHANGED vars
  BY <1>13 DEF vars, PartsInv, PartsBelongTogether
<1> QED
  BY <1>1, <1>2, <1>3, <1>4, <1>5, <1>6, <1>7, <1>8, <1>9, <1>10, <1>11, <1>12, <1>13 DEF Next

(* As long as no other program writes after the drift check, the main part  *)
(* and the other parts of every package on disk are from one version: no    *)
(* save mixes the text it loaded with styles or images of another.          *)
THEOREM NoMixedPackage == QuietAfterCheck => (Spec => []PartsBelongTogether)
<1> SUFFICES ASSUME QuietAfterCheck PROVE Spec => []PartsBelongTogether
  OBVIOUS
<1>1. Init => KnownInv /\ PartsInv
  BY DEF Init, KnownInv, PartsInv, PartsBelongTogether, Outside, NoFile, Opening,
         Checked, Built, Validated
<1>2. TypeOK /\ KnownInv /\ [Next]_vars => KnownInv'
  BY KnownStep
<1>3. PartsInv => PartsBelongTogether
  BY DEF PartsInv
<1> QED
  BY TypeInit, TypeStep, PartsStep, <1>1, <1>2, <1>3, PTL DEF Spec
-----------------------------------------------------------------------------
(* The temporary package holds the text in memory until it is in place: no  *)
(* edit comes between.                                                      *)
DraftInv == step \in Built => scratch.origin = dom.origin /\ scratch.edit = dom.edit

LEMMA DraftStep == TypeOK /\ DraftInv /\ [Next]_vars => DraftInv'
<1> SUFFICES ASSUME DraftInv, [Next]_vars PROVE DraftInv'
  OBVIOUS
<1> USE DEF Built, Validated, DraftInv
<1>1. CASE Open \/ TakeFingerprint \/ Load \/ CannotOpen \/ Edit \/ CloseOrCrash
  BY <1>1 DEF Open, TakeFingerprint, Load, CannotOpen, Edit, CloseOrCrash
<1>2. CASE \E p \in Path : Save(p)
  BY <1>2 DEF Save
<1>3. CASE Check \/ Compare \/ Drifted \/ Validate
  BY <1>3 DEF Check, Compare, Drifted, Validate, session
<1>4. CASE Build
  BY <1>4 DEF Build
<1>5. CASE CopyDest \/ RenameBackup \/ NewDest \/ Stage
  BY <1>5 DEF CopyDest, RenameBackup, NewDest, Stage, session
<1>6. CASE ReplaceDest \/ Reread \/ Absorb
  BY <1>6 DEF ReplaceDest, Reread, Absorb
<1>7. CASE Fail \/ OtherProgram
  BY <1>7 DEF Fail, OtherProgram, session
<1>8. CASE UNCHANGED vars
  BY <1>8 DEF vars
<1> QED
  BY <1>1, <1>2, <1>3, <1>4, <1>5, <1>6, <1>7, <1>8 DEF Next

(* Files written by others and packages of one version, in the words of the *)
(* abstract specification.                                                  *)
LEMMA TheirsOK == ASSUME NEW v PROVE Atomic!Theirs(Outside(v))
  BY DEF Atomic!Theirs, Atomic!Package, Outside

(* The steps that leave the files, the text in memory and the version that  *)
(* the session knows alone.                                                 *)
LEMMA AtomicStutter ==
  ASSUME \/ TakeFingerprint \/ CannotOpen \/ CloseOrCrash \/ \E p \in Path : Save(p)
         \/ Check \/ Compare \/ Drifted \/ Build \/ Validate
         \/ CopyDest \/ NewDest \/ Stage \/ Reread \/ Absorb \/ Fail \/ UNCHANGED vars
  PROVE  UNCHANGED <<file, bak, dom, known>>
<1>1. CASE TakeFingerprint \/ CannotOpen \/ CloseOrCrash \/ \E p \in Path : Save(p)
  BY <1>1 DEF TakeFingerprint, CannotOpen, CloseOrCrash, Save, session
<1>2. CASE Check \/ Compare \/ Drifted \/ Build \/ Validate
  BY <1>2 DEF Check, Compare, Drifted, Build, Validate, session
<1>3. CASE CopyDest \/ NewDest \/ Stage \/ Reread \/ Absorb \/ Fail \/ UNCHANGED vars
  BY <1>3 DEF CopyDest, NewDest, Stage, Reread, Absorb, Fail, session, vars
<1> QED
  BY <1>1, <1>2, <1>3

(* The step that matters: the rename into place is the commit.              *)
LEMMA CommitStep ==
  ASSUME Types(next), KnownInv, BackupInv, PartsInv, WholeInv, DraftInv, ReplaceDest
  PROVE  Atomic!Commit(dest)
<1>1. file[dest] = NoFile \/ bak[dest] = file[dest]
  BY DEF ReplaceDest, BackupInv
<1>2. dest = Source => file[dest] = known
  BY DEF ReplaceDest, KnownInv, Checked
<1>3. file' = [file EXCEPT ![dest] = scratch] /\ file'[dest] = scratch
  BY DEF ReplaceDest, Types
<1>4. scratch = Atomic!Package(dom, scratch.time)
  <2>1. scratch.whole /\ scratch.origin = dom.origin /\ scratch.rest = dom.origin
        /\ scratch.edit = dom.edit
    BY DEF ReplaceDest, WholeInv, PartsInv, DraftInv, Built, Validated
  <2>2. scratch \in Below(next)
    BY DEF Types
  <2> QED
    BY <2>1, <2>2 DEF Below, Atomic!Package
<1>5. known' = IF dest = Source THEN file'[dest] ELSE known
  BY <1>3 DEF ReplaceDest
<1>6. UNCHANGED <<bak, dom>>
  BY DEF ReplaceDest
<1>7. file' = [file EXCEPT ![dest] = Atomic!Package(dom, file'[dest].time)]
  BY <1>3, <1>4
<1> QED
  BY <1>1, <1>2, <1>5, <1>6, <1>7 DEF Atomic!Commit

LEMMA AtomicStep ==
  ASSUME Types(next), KnownInv, BackupInv, PartsInv, WholeInv, DraftInv, [Next]_vars
  PROVE  [Atomic!Next]_<<file, bak, dom, known>>
<1>1. CASE Load
  <2>1. Atomic!Open
    BY <1>1 DEF Load, Atomic!Open
  <2> QED
    BY <2>1 DEF Atomic!Next
<1>2. CASE Edit
  <2>1. dom'.origin = dom.origin
    BY <1>2 DEF Edit, Types
  <2>2. Atomic!Edit
    BY <1>2, <2>1 DEF Edit, Atomic!Edit
  <2> QED
    BY <2>2 DEF Atomic!Next
<1>3. CASE RenameBackup
  <2>1. bak' = [bak EXCEPT ![dest] = file[dest]] /\ file[dest] # NoFile
    BY <1>3 DEF RenameBackup, BackupInv
  <2>2. Atomic!Backup(dest)
    BY <1>3, <2>1 DEF RenameBackup, session, Atomic!Backup
  <2> QED
    BY <2>2 DEF Types, Atomic!Next
<1>4. CASE ReplaceDest
  BY <1>4, CommitStep DEF Types, Atomic!Next
<1>5. CASE OtherProgram
  <2>1. PICK p \in Path, f \in {NoFile, Outside(next)} : file' = [file EXCEPT ![p] = f]
    BY <1>5 DEF OtherProgram
  <2>2. file'[p] = f
    BY <2>1 DEF Types
  <2>3. Atomic!Theirs(f)
    BY TheirsOK DEF NoFile
  <2>4. UNCHANGED <<bak, dom, known>>
    BY <1>5 DEF OtherProgram, session
  <2>5. Atomic!OtherProgram(p)
    BY <2>1, <2>2, <2>3, <2>4 DEF Atomic!OtherProgram
  <2> QED
    BY <2>5 DEF Atomic!Next
<1>6. CASE Open
  BY <1>6 DEF Open
<1>7. CASE \/ TakeFingerprint \/ CannotOpen \/ CloseOrCrash \/ \E p \in Path : Save(p)
           \/ Check \/ Compare \/ Drifted \/ Build \/ Validate
           \/ CopyDest \/ NewDest \/ Stage \/ Reread \/ Absorb \/ Fail \/ UNCHANGED vars
  BY <1>7, AtomicStutter
<1> QED
  BY <1>1, <1>2, <1>3, <1>4, <1>5, <1>6, <1>7 DEF Next

(* As long as no other program writes after the drift check, the pipeline,  *)
(* which fails or dies between any two of its steps, implements a save that *)
(* happens at once or not at all, with a backup of what it overwrites.      *)
THEOREM SaveIsAtomic == QuietAfterCheck => (Spec => SavesAtomically)
<1> SUFFICES ASSUME QuietAfterCheck PROVE Spec => SavesAtomically
  OBVIOUS
<1>1. Init => KnownInv /\ PartsInv /\ WholeInv /\ BackupInv /\ DraftInv
  BY DEF Init, KnownInv, PartsInv, PartsBelongTogether, WholeInv, BackupInv, DraftInv,
         Outside, NoFile, Opening, Checked, Built, Validated
<1>2. TypeOK /\ KnownInv /\ [Next]_vars => KnownInv'
  BY KnownStep
<1>3. TypeOK /\ BackupInv /\ [Next]_vars => BackupInv'
  BY BackupInvStep
<1>4. Init => Atomic!Init
  BY DEF Init, Atomic!Init
<1>5. TypeOK /\ KnownInv /\ BackupInv /\ PartsInv /\ WholeInv /\ DraftInv /\ [Next]_vars
        => [Atomic!Next]_<<file, bak, dom, known>>
  BY AtomicStep, TypesOK
<1>6. Atomic!vars = <<file, bak, dom, known>>
  BY DEF Atomic!vars
<1> QED
  BY TypeInit, TypeStep, PartsStep, WholeStep, DraftStep, <1>1, <1>2, <1>3, <1>4, <1>5, <1>6, PTL
     DEF Spec, SavesAtomically, Atomic!Spec, Atomic!vars
-----------------------------------------------------------------------------
(* Nothing fails between the rename into place and the end of the save: the *)
(* fingerprint of what was written is read without an I/O error.            *)
FingerprintIsRetaken == Faulty \cap {"rereading", "absorbing"} = {}

(* A package that a save has written is known from what other programs      *)
(* write by its time, which is newer than its edit.  While the source is    *)
(* such a package nobody else has touched it, so that what has been read of *)
(* it, in whichever of the two halves of a fingerprint, is still true; from *)
(* the rename on, until the fingerprint is taken anew, it is not.           *)
AgainInv ==
    /\ step = "fingerprinting" /\ WrittenBySave(file[Source]) => bytes = file[Source]
    /\ step = "loading" /\ WrittenBySave(file[Source]) => fingerprint = file[Source]
    /\ step \notin Opening \cup {"rereading", "absorbing"}
         /\ file[Source] = known /\ WrittenBySave(known) => fingerprint = known
    /\ step \in Built => WrittenBySave(scratch)
    /\ step \in {"rereading", "absorbing"} => WrittenBySave(known)
    /\ step = "absorbing" /\ file[Source] = known => bytes = known

LEMMA TheirsIsNotSaved ==
  ASSUME NEW n, NEW f \in {NoFile, Outside(n)}
  PROVE  ~WrittenBySave(f)
  BY DEF NoFile, Outside, WrittenBySave

LEMMA AgainStep ==
  FingerprintIsRetaken /\ TypeOK /\ AgainInv /\ [Next]_vars => AgainInv'
<1> SUFFICES ASSUME FingerprintIsRetaken, Types(next), AgainInv, [Next]_vars PROVE AgainInv'
  BY TypesOK
<1> USE DEF Opening, Built, Validated
<1>1. /\ file[Source] \in Below(next) /\ bytes \in Below(next)
      /\ next \in Nat /\ known \in Below(next)
  BY PathAssumption DEF Types
<1>2. CASE Open \/ CannotOpen \/ CloseOrCrash
  BY <1>2 DEF Open, CannotOpen, CloseOrCrash, session, AgainInv
<1>3. CASE TakeFingerprint
  <2>1. ASSUME WrittenBySave(file[Source]) PROVE fingerprint' = file[Source]
    <3>1. bytes = file[Source]
      BY <1>3, <2>1 DEF TakeFingerprint, AgainInv
    <3> QED
      BY <1>1, <1>3, <3>1, OwnFingerprint DEF TakeFingerprint
  <2> QED
    BY <1>3, <2>1 DEF TakeFingerprint, AgainInv, WrittenBySave
<1>4. CASE Load
  BY <1>4 DEF Load, AgainInv, WrittenBySave
<1>5. CASE Edit \/ \E p \in Path : Save(p)
  BY <1>5 DEF Edit, Save, AgainInv, WrittenBySave
<1>6. CASE Check \/ Compare \/ Drifted \/ Validate
  BY <1>6 DEF Check, Compare, Drifted, Validate, session, AgainInv, WrittenBySave
<1>7. CASE Build
  <2>1. scratch'.time = next /\ scratch'.edit = dom.edit
    BY <1>7 DEF Build
  <2>2. dom.edit \in 0..(next - 1)
    BY DEF Types
  <2>3. scratch'.time # scratch'.edit
    BY <1>1, <2>1, <2>2
  <2> QED
    BY <1>7, <2>3 DEF Build, AgainInv, WrittenBySave
<1>8. CASE CopyDest \/ RenameBackup \/ NewDest \/ Stage
  BY <1>8 DEF CopyDest, RenameBackup, NewDest, Stage, session, AgainInv, WrittenBySave
<1>9. CASE ReplaceDest
  <2>1. CASE dest = Source
    BY <2>1, <1>9 DEF ReplaceDest, AgainInv, WrittenBySave
  <2>2. CASE dest # Source
    <3>1. file'[Source] = file[Source]
      BY <2>2, <1>9, PathAssumption DEF ReplaceDest, Types
    <3> QED
      BY <3>1, <2>2, <1>9 DEF ReplaceDest, AgainInv, WrittenBySave
  <2> QED
    BY <2>1, <2>2
<1>10. CASE Reread
  BY <1>10 DEF Reread, AgainInv, WrittenBySave
<1>11. CASE Absorb
  <2>1. ASSUME file[Source] = known PROVE fingerprint' = known
    <3>1. bytes = known
      BY <1>11, <2>1 DEF Absorb, AgainInv
    <3> QED
      BY <1>1, <1>11, <2>1, <3>1, OwnFingerprint DEF Absorb
  <2> QED
    BY <1>11, <2>1 DEF Absorb, AgainInv
<1>12. CASE Fail
  <2>1. CASE step \in {"rereading", "absorbing"}
    <3>1. file[Source] = NoFile
      BY <1>12, <2>1 DEF Fail, FingerprintIsRetaken
    <3>2. file[Source] # known
      BY <2>1, <3>1, TheirsIsNotSaved DEF AgainInv
    <3> QED
      BY <1>12, <3>2 DEF Fail, session, AgainInv
  <2>2. CASE step \notin {"rereading", "absorbing"}
    BY <1>12, <2>2, StepAssumption DEF Fail, Saving, session, AgainInv, WrittenBySave
  <2> QED
    BY <2>1, <2>2
<1>13. CASE OtherProgram
  <2>1. PICK p \in Path, f \in {NoFile, Outside(next)} : file' = [file EXCEPT ![p] = f]
    BY <1>13 DEF OtherProgram
  <2>2. UNCHANGED <<step, session>>
    BY <1>13 DEF OtherProgram
  <2>3. CASE p = Source
    <3>1. file'[Source] = f /\ ~WrittenBySave(f)
      BY <2>1, <2>3, PathAssumption, TheirsIsNotSaved DEF Types
    <3> QED
      BY <2>2, <3>1 DEF session, AgainInv, WrittenBySave
  <2>4. CASE p # Source
    <3>1. file'[Source] = file[Source]
      BY <2>1, <2>4, PathAssumption DEF Types
    <3> QED
      BY <2>2, <3>1 DEF session, AgainInv, WrittenBySave
  <2> QED
    BY <2>3, <2>4
<1>14. CASE UNCHANGED vars
  BY <1>14 DEF vars, AgainInv, WrittenBySave
<1> QED
  BY <1>2, <1>3, <1>4, <1>5, <1>6, <1>7, <1>8, <1>9, <1>10, <1>11, <1>12, <1>13, <1>14 DEF Next

(* A session whose last save of the source, or whose source when it was     *)
(* opened, is still in place passes the next drift check: whichever steps   *)
(* other programs write at, whatever saves to other paths or earlier saves  *)
(* failed or died, unless it is the fingerprint of the new file that could  *)
(* not be taken.                                                            *)
THEOREM NoFalseAlarm == FingerprintIsRetaken => (Spec => []SavesAgain)
<1> SUFFICES ASSUME FingerprintIsRetaken PROVE Spec => []SavesAgain
  OBVIOUS
<1>1. Init => AgainInv
  BY DEF Init, AgainInv, Opening, Built, Validated
<1>2. TypeOK /\ AgainInv /\ [Next]_vars => AgainInv'
  BY AgainStep
<1>3. AgainInv => SavesAgain
  BY DEF AgainInv, SavesAgain, Opening
<1> QED
  BY TypeInit, TypeStep, <1>1, <1>2, <1>3, PTL DEF Spec
=============================================================================
