--------------------------- MODULE SourcesProofs ---------------------------
(***************************************************************************)
(* Theorems about Sources, for any files, roots and batches: what a call    *)
(* takes from a file, what a batch applies, and how often a source is       *)
(* touched.                                                                *)
(***************************************************************************)
EXTENDS Sources, TLAPS

Kind == {"literal", "jsonpath", "file", "command", "both", "neither"}
Status == {"called", "begun", "resolving", "located", "executing", "done", "invalid", "escaped"}
Disks == [Files -> [is : Bytes, ver : Nat]]
Entry == [src : Kind, file : Files, ver : Nat]
Mark == [what : {"read", "run"}, op : Nat, item : Nat, after : Nat]

(* Every variable has its type, the counters being any numbers. *)
Typed ==
    /\ disk \in Disks /\ since \in Disks
    /\ writes \in Nat /\ writes <= MaxWrites
    /\ batch \in Batches
    /\ op \in 1..Len(batch.calls)
    /\ status \in Status
    /\ got \in Seq(Entry)
    /\ applied \in Seq(Seq(Entry))
    /\ touched \in Seq(Mark)
    /\ DOMAIN cache \subseteq Inside /\ cache \in [DOMAIN cache -> Nat]

(* What has been resolved are the first items of the call. *)
Resolved ==
    /\ Len(got) <= Len(Call)
    /\ \A i \in 1..Len(got) : got[i].src = Call[i].src
    /\ status \in {"called", "begun"} => got = <<>>
    /\ status = "called" => op = 1 /\ applied = <<>> /\ touched = <<>> /\ DOMAIN cache = {}
    /\ status = "located" =>
         At <= Len(Call) /\ Current.src \in {"jsonpath", "file"} /\ Current.file \in Inside
    /\ status = "executing" => At <= Len(Call) /\ Current.src = "command"

(* The document has the operations before the current one, and nothing of a *)
(* batch that has failed.                                                  *)
AppliedInv ==
    /\ Len(applied) <= Len(batch.calls)
    /\ status = "called" \/ Running => Len(applied) = op - 1
    /\ status = "done" => Len(applied) = Len(batch.calls)
    /\ status \in {"invalid", "escaped"} => applied = <<>>
    /\ \A c \in 1..Len(applied) :
         /\ Len(applied[c]) = Len(batch.calls[c])
         /\ \A i \in 1..Len(applied[c]) : applied[c][i].src = batch.calls[c][i].src

(* JSON that was taken from one file is of one version. *)
OneVersion(entries) ==
    \A i, j \in DOMAIN entries :
        entries[i].src = "jsonpath" /\ entries[j].src = "jsonpath"
        /\ entries[i].file = entries[j].file => entries[i].ver = entries[j].ver

(* What the current call has taken from JSON is what its cache holds. *)
CacheInv ==
    /\ \A i \in 1..Len(got) :
         got[i].src = "jsonpath" =>
            got[i].file \in DOMAIN cache /\ got[i].ver = cache[got[i].file]
    /\ \A c \in 1..Len(applied) : OneVersion(applied[c])

(* Versions do not go down, and what a call has is not from before it. *)
FreshInv ==
    /\ \A f \in Files : since[f].ver <= disk[f].ver /\ disk[f].ver <= writes
    /\ status \notin {"called", "begun"} =>
         \A f \in DOMAIN cache : cache[f] >= since[f].ver
    /\ Fresh

(* What was touched comes before the current item, or is the command of the *)
(* current item, that is running.                                          *)
TouchInv ==
    /\ TouchedOnce
    /\ \A j \in 1..Len(touched) :
         \/ touched[j].op < op
         \/ touched[j].op = op /\ touched[j].item < At
         \/ touched[j].op = op /\ touched[j].item = At /\ status = "executing"
         \/ ~Running

(* A call with an improper item does not begin to resolve. *)
Flawed == \E k \in DOMAIN batch.calls : \E i \in DOMAIN batch.calls[k] : ~Proper(batch.calls[k][i])

ImproperInv ==
    Flawed => /\ touched = <<>>
              /\ status \in {"called", "begun", "invalid"}
              /\ status = "begun" => batch.direct

SourcesInv ==
    Typed /\ Resolved /\ AppliedInv /\ CacheInv /\ FreshInv /\ TouchInv /\ ImproperInv
-----------------------------------------------------------------------------
(* The current call is a sequence of items, and not empty. *)
LEMMA CallFacts ==
    ASSUME batch \in Batches, op \in 1..Len(batch.calls)
    PROVE  /\ batch.calls \in Seq(Seq(Item) \ {<<>>})
           /\ Call \in Seq(Item)
           /\ batch.direct => Len(batch.calls) = 1
BY SourcesAssumption DEF Call

LEMMA CurrentFacts ==
    ASSUME Typed, At <= Len(Call)
    PROVE  Current \in Item
<1>1. Call \in Seq(Item)  BY CallFacts DEF Typed
<1>2. At \in 1..Len(Call)  BY <1>1 DEF Typed, At
<1> QED  BY <1>1, <1>2 DEF Current

(* One more item is resolved. *)
LEMMA YieldFacts ==
    ASSUME Typed, At <= Len(Call), NEW ver \in Nat, Yield(ver)
    PROVE  /\ got' \in Seq(Entry) /\ Len(got') = Len(got) + 1
           /\ \A i \in 1..Len(got) : got'[i] = got[i]
           /\ got'[At] = [src |-> Current.src, file |-> Current.file, ver |-> ver]
           /\ At = Len(got) + 1
           /\ status' = "resolving"
<1>1. Current \in Item  BY CurrentFacts
<1>2. [src |-> Current.src, file |-> Current.file, ver |-> ver] \in Entry
      BY <1>1 DEF Item, Entry, Kind
<1> QED  BY <1>2 DEF Yield, Typed, At

(* One more source is touched. *)
LEMMA TouchFacts ==
    ASSUME Typed, NEW what \in {"read", "run"}, Touch(what)
    PROVE  /\ touched' \in Seq(Mark) /\ Len(touched') = Len(touched) + 1
           /\ \A j \in 1..Len(touched) : touched'[j] = touched[j]
           /\ touched'[Len(touched) + 1].op = op
           /\ touched'[Len(touched) + 1].item = At
<1> DEFINE m == [what |-> what, op |-> op, item |-> At, after |-> Len(applied)]
<1>1. At \in Nat /\ Len(applied) \in Nat  BY DEF Typed, At
<1>2. op \in Nat  BY CallFacts DEF Typed
<1>3. m \in Mark  BY <1>1, <1>2 DEF Mark
<1>4. touched' = Append(touched, m) /\ touched \in Seq(Mark)  BY DEF Touch, Typed
<1> QED  BY <1>3, <1>4

(* The content of a call is applied. *)
LEMMA ApplyFacts ==
    ASSUME Typed, Apply
    PROVE  /\ applied' \in Seq(Seq(Entry)) /\ Len(applied') = Len(applied) + 1
           /\ \A c \in 1..Len(applied) : applied'[c] = applied[c]
           /\ applied'[Len(applied) + 1] = got
BY DEF Typed, Apply
-----------------------------------------------------------------------------
LEMMA SourcesInit == ASSUME Init PROVE SourcesInv
<1>1. batch.calls \in Seq(Seq(Item) \ {<<>>}) /\ batch.calls # <<>>
      BY SourcesAssumption DEF Init
<1>2. op \in 1..Len(batch.calls)  BY <1>1 DEF Init
<1>3. disk \in Disks /\ \A f \in Files : disk[f].ver = 0
      BY DEF Init, Disks
<1>4. Typed
      BY <1>2, <1>3, SourcesAssumption DEF Init, Typed, NoCache, Status
<1>5. Call \in Seq(Item)  BY <1>2, CallFacts DEF Init
<1>6. Resolved  BY <1>5 DEF Init, Resolved, NoCache
<1>7. AppliedInv  BY <1>1 DEF Init, AppliedInv, Running
<1>8. CacheInv  BY DEF Init, CacheInv
<1>9. FreshInv  BY <1>3 DEF Init, FreshInv, Fresh
<1>10. TouchInv  BY DEF Init, TouchInv, TouchedOnce
<1>11. ImproperInv  BY DEF Init, ImproperInv
<1> QED  BY <1>4, <1>6, <1>7, <1>8, <1>9, <1>10, <1>11 DEF SourcesInv

(* The steps that resolve an item, and the version it gets. *)
Yields(ver) ==
    \/ Literal /\ ver = 0
    \/ FromCache /\ Current.one /\ ver = cache[Current.file]
    \/ (ReadJson \/ ReadFile) /\ status' = "resolving" /\ ver = disk[Current.file].ver
    \/ Succeeds /\ ver = 0

(* The steps that give up. *)
Failed ==
    /\ \E how \in {"invalid", "escaped"} : Fail(how)
    /\ \/ UNCHANGED touched
       \/ status = "located" /\ Touch("read")

(* Next, by what its steps have in common. *)
LEMMA Steps ==
    ASSUME Typed, Resolved, [Next]_vars
    PROVE  \/ Prevalidate
           \/ BeginCall
           \/ \E ver \in Nat : At <= Len(Call) /\ Yields(ver) /\ Yield(ver)
           \/ Locate /\ status' = "located"
           \/ StartCommand /\ status' = "executing"
           \/ status \in {"resolving", "located", "executing"} /\ Failed
           \/ Apply
           \/ Write
           \/ UNCHANGED vars
<1> USE DEF Resolved
<1>1. CASE Literal  BY <1>1 DEF Literal, Yields
<1>2. CASE Locate  BY <1>2 DEF Locate, Failed
<1>3. CASE FromCache
  <2>1. At <= Len(Call) /\ cache[Current.file] \in Nat  BY <1>3 DEF FromCache, Typed
  <2>2. CASE Current.one  BY <1>3, <2>1, <2>2 DEF FromCache, Yields
  <2>3. CASE ~Current.one  BY <1>3, <2>3 DEF FromCache, Failed
  <2> QED  BY <2>2, <2>3
<1>4. CASE ReadJson \/ ReadFile
  <2>1. At <= Len(Call) /\ status = "located"  BY <1>4 DEF ReadJson, ReadFile
  <2>2. Current.file \in Files  BY <2>1, CurrentFacts DEF Item
  <2>3. disk[Current.file].ver \in Nat  BY <2>2 DEF Typed, Disks
  <2>4. CASE Yield(disk[Current.file].ver)
        BY <1>4, <2>1, <2>3, <2>4 DEF Yields, Yield
  <2>5. CASE \E how \in {"invalid", "escaped"} : Fail(how)
        BY <1>4, <2>1, <2>5 DEF ReadJson, ReadFile, Failed
  <2> QED  BY <1>4, <2>4, <2>5 DEF ReadJson, ReadFile
<1>5. CASE StartCommand  BY <1>5 DEF StartCommand, Failed
<1>6. CASE Succeeds  BY <1>6 DEF Succeeds, Yields
<1>7. CASE ExitsBadly \/ TimesOut \/ Unparsed
      BY <1>7 DEF ExitsBadly, TimesOut, Unparsed, Failed
<1>8. QED
      BY <1>1, <1>2, <1>3, <1>4, <1>5, <1>6, <1>7 DEF Next, Resolver

(* What a step that resolves an item does besides. *)
LEMMA YieldsFacts ==
    ASSUME Typed, Resolved, NEW ver \in Nat, At <= Len(Call), Yields(ver), Yield(ver)
    PROVE  /\ UNCHANGED <<world, batch, op, applied, since>>
           /\ status \in {"resolving", "located", "executing"}
           /\ touched' = touched \/ (status = "located" /\ Touch("read"))
           /\ DOMAIN cache' \subseteq Inside /\ cache' \in [DOMAIN cache' -> Nat]
           /\ \A f \in DOMAIN cache : f \in DOMAIN cache' /\ cache'[f] = cache[f]
           /\ \A f \in DOMAIN cache' \ DOMAIN cache : cache'[f] = disk[f].ver
           /\ Current.src = "jsonpath" =>
                Current.file \in DOMAIN cache' /\ ver = cache'[Current.file]
           /\ Current.src = "file" => ver = disk[Current.file].ver
<1>0. Current \in Item  BY CurrentFacts
<1>1. CASE Literal \/ Succeeds
  <2>1. Current.src \notin {"jsonpath", "file"}
        BY <1>1 DEF Literal, Succeeds, Resolved
  <2> QED  BY <1>1, <2>1 DEF Literal, Succeeds, Typed
<1>2. CASE FromCache /\ Current.one /\ ver = cache[Current.file]
      BY <1>2 DEF FromCache, Typed
<1>3. CASE ReadFile /\ status' = "resolving" /\ ver = disk[Current.file].ver
  <2>1. disk[Current.file].is \in {"json", "text"}  BY <1>3 DEF ReadFile, Fail
  <2> QED  BY <1>3, <2>1 DEF ReadFile, Typed
<1>4. CASE ReadJson /\ status' = "resolving" /\ ver = disk[Current.file].ver
  <2>1. disk[Current.file].is = "json" /\ Current.one  BY <1>4 DEF ReadJson, Fail
  <2>2. Current.file \in Inside  BY <1>4 DEF ReadJson, Resolved
  <2>3. /\ cache' = [g \in DOMAIN cache \cup {Current.file} |->
                         IF g = Current.file THEN disk[Current.file].ver ELSE cache[g]]
        /\ Current.file \notin DOMAIN cache
        /\ UNCHANGED <<world, batch, op, applied, since>>
        /\ status = "located" /\ Touch("read") /\ Current.src = "jsonpath"
        BY <1>4, <2>1 DEF ReadJson
  <2>4. cache' \in [DOMAIN cache' -> Nat]  BY <1>4, <2>3 DEF Typed
  <2> QED  BY <1>4, <2>2, <2>3, <2>4 DEF Typed
<1> QED  BY <1>1, <1>2, <1>3, <1>4 DEF Yields

LEMMA FailedFacts ==
    ASSUME Typed, Failed
    PROVE  /\ UNCHANGED <<world, batch, op, got, cache, since>>
           /\ applied' = <<>> /\ status' \in {"invalid", "escaped"}
           /\ touched' \in Seq(Mark)
           /\ touched' = touched \/ (status = "located" /\ Touch("read"))
<1>1. touched' \in Seq(Mark)  BY TouchFacts DEF Failed, Typed
<1> QED  BY <1>1 DEF Failed, Fail
-----------------------------------------------------------------------------
LEMMA TypedStep ==
    ASSUME Typed, Resolved, AppliedInv, [Next]_vars
    PROVE  Typed'
<1>1. CASE Prevalidate  BY <1>1 DEF Prevalidate, Typed, Status, world
<1>2. CASE BeginCall  BY <1>2 DEF BeginCall, Typed, Status, NoCache, world
<1>3. CASE \E ver \in Nat : At <= Len(Call) /\ Yields(ver) /\ Yield(ver)
  <2>1. PICK ver \in Nat : At <= Len(Call) /\ Yields(ver) /\ Yield(ver)  BY <1>3
  <2>2. got' \in Seq(Entry) /\ status' \in Status  BY <2>1, YieldFacts DEF Status
  <2>3. touched' \in Seq(Mark)  BY <2>1, YieldsFacts, TouchFacts DEF Typed
  <2> QED  BY <2>1, <2>2, <2>3, YieldsFacts DEF Typed, world
<1>4. CASE Locate /\ status' = "located"  BY <1>4 DEF Locate, Fail, Typed, Status, world
<1>5. CASE StartCommand /\ status' = "executing"
  <2>1. Touch("run") /\ UNCHANGED <<world, batch, op, got, cache, applied, since>>
        BY <1>5 DEF StartCommand, Fail
  <2>2. touched' \in Seq(Mark)  BY <2>1, TouchFacts
  <2> QED  BY <1>5, <2>1, <2>2 DEF Typed, Status, world
<1>6. CASE Failed
  <2>1. applied' \in Seq(Seq(Entry))
    <3>1. applied' = <<>>  BY <1>6, FailedFacts
    <3> QED  BY <3>1
  <2>2. status' \in Status /\ touched' \in Seq(Mark)  BY <1>6, FailedFacts DEF Status
  <2>3. UNCHANGED <<world, batch, op, got, cache, since>>  BY <1>6, FailedFacts
  <2> QED  BY <2>1, <2>2, <2>3 DEF Typed, world
<1>7. CASE Apply
  <2>1. applied' \in Seq(Seq(Entry))  BY <1>7, ApplyFacts
  <2>2. batch.calls \in Seq(Seq(Item) \ {<<>>})  BY CallFacts DEF Typed
  <2>3. op' \in 1..Len(batch.calls) /\ status' \in Status /\ got' = <<>>
        BY <1>7, <2>2 DEF Apply, Typed, Status
  <2>4. UNCHANGED <<world, batch, cache, since, touched>>  BY <1>7 DEF Apply
  <2> QED  BY <2>1, <2>3, <2>4 DEF Typed, world
<1>8. CASE Write
  <2>1. writes' \in Nat /\ writes' <= MaxWrites
        BY <1>8, SourcesAssumption DEF Write, Typed
  <2>2. disk' \in Disks  BY <1>8, <2>1 DEF Write, Typed, Disks
  <2> QED  BY <1>8, <2>1, <2>2 DEF Write, Typed
<1>9. CASE UNCHANGED vars  BY <1>9 DEF vars, Typed
<1> QED  BY <1>1, <1>2, <1>3, <1>4, <1>5, <1>6, <1>7, <1>8, <1>9, Steps

LEMMA ResolvedStep ==
    ASSUME Typed, Resolved, [Next]_vars
    PROVE  Resolved'
<1>0. Call \in Seq(Item)  BY CallFacts DEF Typed
<1>1. CASE Prevalidate  BY <1>1 DEF Prevalidate, Resolved, Call, At, Current
<1>2. CASE BeginCall  BY <1>2 DEF BeginCall, Resolved, Call, At, Current
<1>3. CASE \E ver \in Nat : At <= Len(Call) /\ Yields(ver) /\ Yield(ver)
  <2>1. PICK ver \in Nat : At <= Len(Call) /\ Yields(ver) /\ Yield(ver)  BY <1>3
  <2>2. /\ Len(got') = Len(got) + 1 /\ status' = "resolving" /\ At = Len(got) + 1
        /\ \A i \in 1..Len(got) : got'[i] = got[i]
        /\ got'[At].src = Current.src
    <3>1. got'[At] = [src |-> Current.src, file |-> Current.file, ver |-> ver]
          BY <2>1, YieldFacts
    <3>2. got'[At].src = Current.src  BY <3>1
    <3> QED  BY <2>1, <3>2, YieldFacts
  <2>3. Call' = Call  BY <2>1, YieldsFacts DEF Call
  <2>4. Len(got) \in Nat  BY DEF Typed
  <2>5. ASSUME NEW i \in 1..Len(got') PROVE got'[i].src = Call[i].src
    <3>1. CASE i = At  BY <3>1, <2>2 DEF Current
    <3>2. CASE i \in 1..Len(got)  BY <3>2, <2>2 DEF Resolved
    <3> QED  BY <3>1, <3>2, <2>2, <2>4
  <2> QED  BY <2>1, <2>2, <2>3, <2>5 DEF Resolved
<1>4. CASE Locate /\ status' = "located"
      BY <1>4 DEF Locate, Fail, Resolved, Call, At, Current
<1>5. CASE StartCommand /\ status' = "executing"
      BY <1>5 DEF StartCommand, Fail, Resolved, Call, At, Current
<1>6. CASE Failed  BY <1>6, FailedFacts DEF Resolved, Call
<1>7. CASE Apply
  <2>1. got' = <<>> /\ status' \in {"done", "begun"}  BY <1>7 DEF Apply
  <2>2. Call' \in Seq(Item)
    <3>1. batch' \in Batches /\ op' \in 1..Len(batch'.calls)
      <4>1. batch.calls \in Seq(Seq(Item) \ {<<>>})  BY CallFacts DEF Typed
      <4> QED  BY <4>1, <1>7 DEF Apply, Typed
    <3>2. batch'.calls \in Seq(Seq(Item) \ {<<>>})  BY <3>1, SourcesAssumption
    <3> QED  BY <3>1, <3>2 DEF Call
  <2> QED  BY <2>1, <2>2 DEF Resolved
<1>8. CASE Write  BY <1>8 DEF Write, Resolved, Call, At, Current
<1>9. CASE UNCHANGED vars  BY <1>9 DEF vars, Resolved, Call, At, Current
<1> QED  BY <1>1, <1>2, <1>3, <1>4, <1>5, <1>6, <1>7, <1>8, <1>9, Steps
-----------------------------------------------------------------------------
LEMMA AppliedStep ==
    ASSUME Typed, Resolved, AppliedInv, ImproperInv, [Next]_vars
    PROVE  AppliedInv'
<1>0. /\ batch.calls \in Seq(Seq(Item) \ {<<>>}) /\ op \in 1..Len(batch.calls)
      /\ applied \in Seq(Seq(Entry)) /\ got \in Seq(Entry)
      BY CallFacts DEF Typed
<1>1. CASE Prevalidate  BY <1>0, <1>1 DEF Prevalidate, AppliedInv, Resolved, Running
<1>2. CASE BeginCall
  <2>1. UNCHANGED <<applied, batch, op>> /\ status = "begun" /\ status' \in {"resolving", "invalid"}
        BY <1>2 DEF BeginCall
  <2>2. ASSUME status' = "invalid" PROVE applied = <<>>
    <3>1. PICK i \in DOMAIN Call : ~Proper(Call[i])  BY <2>2, <1>2 DEF BeginCall
    <3>2. op \in DOMAIN batch.calls  BY <1>0
    <3>3. Flawed  BY <3>1, <3>2 DEF Flawed, Call
    <3>4. batch.direct  BY <3>3, <2>1 DEF ImproperInv
    <3>5. op = 1
      <4>1. batch \in Batches  BY DEF Typed
      <4>2. Len(batch.calls) = 1  BY <3>4, <4>1, SourcesAssumption
      <4> QED  BY <4>2, <1>0
    <3>6. Len(applied) = 0  BY <3>5, <2>1 DEF AppliedInv, Running
    <3> QED  BY <3>6, <1>0
  <2> QED  BY <1>0, <2>1, <2>2 DEF AppliedInv, Running
<1>3. CASE \E ver \in Nat : At <= Len(Call) /\ Yields(ver) /\ Yield(ver)
  <2>1. PICK ver \in Nat : At <= Len(Call) /\ Yields(ver) /\ Yield(ver)  BY <1>3
  <2>2. /\ UNCHANGED <<batch, op, applied>> /\ status' = "resolving"
        /\ status \in {"resolving", "located", "executing"}
        BY <2>1, YieldFacts, YieldsFacts
  <2> QED  BY <2>2 DEF AppliedInv, Running
<1>4. CASE Locate /\ status' = "located"
      BY <1>4 DEF Locate, Fail, AppliedInv, Running
<1>5. CASE StartCommand /\ status' = "executing"
      BY <1>5 DEF StartCommand, Fail, AppliedInv, Running
<1>6. CASE Failed
  <2>1. applied' = <<>> /\ status' \in {"invalid", "escaped"} /\ UNCHANGED <<batch, op>>
        BY <1>6, FailedFacts
  <2> QED  BY <1>0, <2>1 DEF AppliedInv, Running
<1>7. CASE Apply
  <2>1. /\ Len(applied') = Len(applied) + 1 /\ applied'[Len(applied) + 1] = got
        /\ \A c \in 1..Len(applied) : applied'[c] = applied[c]
        BY <1>7, ApplyFacts
  <2>2. Len(applied) = op - 1  BY <1>7 DEF Apply, AppliedInv, Running
  <2>3. Len(got) = Len(batch.calls[op])
        BY <1>0, <1>7, CallFacts DEF Apply, Resolved, Call, At, Typed
  <2>4. \A i \in 1..Len(got) : got[i].src = batch.calls[op][i].src  BY DEF Resolved, Call
  <2>5. ASSUME NEW c \in 1..Len(applied')
        PROVE  /\ Len(applied'[c]) = Len(batch.calls[c])
               /\ \A i \in 1..Len(applied'[c]) : applied'[c][i].src = batch.calls[c][i].src
    <3>1. CASE c = op  BY <3>1, <2>1, <2>2, <2>3, <2>4, <1>0
    <3>2. CASE c \in 1..Len(applied)  BY <3>2, <2>1 DEF AppliedInv
    <3> QED  BY <3>1, <3>2, <2>1, <2>2, <1>0
  <2>6. /\ batch' = batch
        /\ \/ op = Len(batch.calls) /\ status' = "done" /\ op' = op
           \/ op # Len(batch.calls) /\ status' = "begun" /\ op' = op + 1
        BY <1>7 DEF Apply
  <2> QED  BY <1>0, <2>1, <2>2, <2>5, <2>6 DEF AppliedInv, Running
<1>8. CASE Write  BY <1>8 DEF Write, AppliedInv, Running
<1>9. CASE UNCHANGED vars  BY <1>9 DEF vars, AppliedInv, Running
<1> QED  BY <1>1, <1>2, <1>3, <1>4, <1>5, <1>6, <1>7, <1>8, <1>9, Steps

LEMMA CacheStep ==
    ASSUME Typed, Resolved, CacheInv, [Next]_vars
    PROVE  CacheInv'
<1>0. applied \in Seq(Seq(Entry)) /\ got \in Seq(Entry)  BY DEF Typed
<1>1. CASE Prevalidate  BY <1>1 DEF Prevalidate, CacheInv
<1>2. CASE BeginCall  BY <1>2 DEF BeginCall, CacheInv, Resolved
<1>3. CASE \E ver \in Nat : At <= Len(Call) /\ Yields(ver) /\ Yield(ver)
  <2>1. PICK ver \in Nat : At <= Len(Call) /\ Yields(ver) /\ Yield(ver)  BY <1>3
  <2>2. /\ Len(got') = Len(got) + 1 /\ At = Len(got) + 1
        /\ \A i \in 1..Len(got) : got'[i] = got[i]
        /\ got'[At] = [src |-> Current.src, file |-> Current.file, ver |-> ver]
        BY <2>1, YieldFacts
  <2>3. /\ applied' = applied
        /\ \A f \in DOMAIN cache : f \in DOMAIN cache' /\ cache'[f] = cache[f]
        /\ Current.src = "jsonpath" =>
             Current.file \in DOMAIN cache' /\ ver = cache'[Current.file]
        BY <2>1, YieldsFacts
  <2>4. ASSUME NEW i \in 1..Len(got'), got'[i].src = "jsonpath"
        PROVE  got'[i].file \in DOMAIN cache' /\ got'[i].ver = cache'[got'[i].file]
    <3>1. CASE i = At
      <4>1. got'[i].src = Current.src /\ got'[i].file = Current.file /\ got'[i].ver = ver
            BY <3>1, <2>2
      <4> QED  BY <4>1, <2>3, <2>4
    <3>2. CASE i \in 1..Len(got)  BY <3>2, <2>2, <2>3, <2>4 DEF CacheInv
    <3> QED  BY <3>1, <3>2, <2>2, <1>0
  <2> QED  BY <2>3, <2>4 DEF CacheInv
<1>4. CASE Locate /\ status' = "located"  BY <1>4 DEF Locate, Fail, CacheInv
<1>5. CASE StartCommand /\ status' = "executing"  BY <1>5 DEF StartCommand, Fail, CacheInv
<1>6. CASE Failed
  <2>1. applied' = <<>> /\ UNCHANGED <<got, cache>>  BY <1>6, FailedFacts
  <2> QED  BY <2>1 DEF CacheInv
<1>7. CASE Apply
  <2>1. /\ Len(applied') = Len(applied) + 1 /\ applied'[Len(applied) + 1] = got
        /\ \A c \in 1..Len(applied) : applied'[c] = applied[c]
        BY <1>7, ApplyFacts
  <2>2. got' = <<>>  BY <1>7 DEF Apply
  <2>3. OneVersion(got)
    <3>1. DOMAIN got = 1..Len(got)  BY <1>0
    <3> QED  BY <3>1 DEF OneVersion, CacheInv
  <2>4. ASSUME NEW c \in 1..Len(applied') PROVE OneVersion(applied'[c])
    <3>1. CASE c = Len(applied) + 1
      <4>1. applied'[c] = got  BY <3>1, <2>1
      <4> QED  BY <4>1, <2>3 DEF OneVersion
    <3>2. CASE c \in 1..Len(applied)
      <4>1. applied'[c] = applied[c] /\ OneVersion(applied[c])  BY <3>2, <2>1 DEF CacheInv
      <4> QED  BY <4>1 DEF OneVersion
    <3> QED  BY <3>1, <3>2, <2>1, <1>0
  <2> QED  BY <2>2, <2>4 DEF CacheInv
<1>8. CASE Write  BY <1>8 DEF Write, CacheInv
<1>9. CASE UNCHANGED vars  BY <1>9 DEF vars, CacheInv
<1> QED  BY <1>1, <1>2, <1>3, <1>4, <1>5, <1>6, <1>7, <1>8, <1>9, Steps

LEMMA FreshStep ==
    ASSUME Typed, Resolved, FreshInv, [Next]_vars
    PROVE  FreshInv'
<1>0. disk \in Disks /\ since \in Disks /\ writes \in Nat /\ got \in Seq(Entry)  BY DEF Typed
<1>1. CASE Prevalidate  BY <1>1 DEF Prevalidate, FreshInv, Fresh, Resolved, world
<1>2. CASE BeginCall
  <2>1. /\ UNCHANGED <<disk, writes>> /\ got' = <<>>
        /\ since' = disk /\ DOMAIN cache' = {}
        BY <1>2 DEF BeginCall, NoCache, Resolved, world
  <2>2. \A f \in Files : disk[f].ver \in Nat  BY <1>0 DEF Disks
  <2> QED  BY <2>1, <2>2 DEF FreshInv, Fresh
<1>3. CASE \E ver \in Nat : At <= Len(Call) /\ Yields(ver) /\ Yield(ver)
  <2>1. PICK ver \in Nat : At <= Len(Call) /\ Yields(ver) /\ Yield(ver)  BY <1>3
  <2>2. /\ Len(got') = Len(got) + 1 /\ At = Len(got) + 1
        /\ \A i \in 1..Len(got) : got'[i] = got[i]
        /\ got'[At] = [src |-> Current.src, file |-> Current.file, ver |-> ver]
        /\ got' \in Seq(Entry)
        BY <2>1, YieldFacts
  <2>3. /\ UNCHANGED <<disk, writes, since>>
        /\ status \in {"resolving", "located", "executing"}
        /\ DOMAIN cache' \subseteq Inside
        /\ \A f \in DOMAIN cache : f \in DOMAIN cache' /\ cache'[f] = cache[f]
        /\ \A f \in DOMAIN cache' \ DOMAIN cache : cache'[f] = disk[f].ver
        /\ Current.src = "jsonpath" =>
             Current.file \in DOMAIN cache' /\ ver = cache'[Current.file]
        /\ Current.src = "file" => ver = disk[Current.file].ver
        BY <2>1, YieldsFacts DEF world
  <2>4. \A f \in DOMAIN cache' : cache'[f] >= since[f].ver
    <3>1. \A f \in DOMAIN cache' : f \in Files  BY <2>3, SourcesAssumption
    <3> QED  BY <2>3, <3>1 DEF FreshInv
  <2>5. ASSUME NEW i \in DOMAIN got', got'[i].src \in {"jsonpath", "file"}
        PROVE  got'[i].ver >= since[got'[i].file].ver
    <3>1. CASE i = At
      <4>1. got'[i].src = Current.src /\ got'[i].file = Current.file /\ got'[i].ver = ver
            BY <3>1, <2>2
      <4>2. Current.file \in Files  BY <2>1, CurrentFacts DEF Item
      <4>3. CASE Current.src = "jsonpath"  BY <4>1, <4>3, <2>3, <2>4
      <4>4. CASE Current.src = "file"  BY <4>1, <4>2, <4>4, <2>3 DEF FreshInv
      <4> QED  BY <4>1, <4>3, <4>4, <2>5
    <3>2. CASE i \in 1..Len(got)
      <4>1. got'[i] = got[i] /\ i \in DOMAIN got  BY <3>2, <2>2, <1>0
      <4> QED  BY <4>1, <2>5 DEF FreshInv, Fresh
    <3> QED  BY <3>1, <3>2, <2>2, <1>0
  <2> QED  BY <2>3, <2>4, <2>5 DEF FreshInv, Fresh
<1>4. CASE Locate /\ status' = "located"
      BY <1>4 DEF Locate, Fail, FreshInv, Fresh, world
<1>5. CASE StartCommand /\ status' = "executing"
      BY <1>5 DEF StartCommand, Fail, FreshInv, Fresh, world
<1>6. CASE status \in {"resolving", "located", "executing"} /\ Failed
  <2>1. UNCHANGED <<disk, writes, got, cache, since>>  BY <1>6, FailedFacts DEF world
  <2> QED  BY <1>6, <2>1 DEF FreshInv, Fresh
<1>7. CASE Apply
  <2>1. got' = <<>> /\ UNCHANGED <<disk, writes, cache, since>> /\ status = "resolving"
        BY <1>7 DEF Apply, world
  <2> QED  BY <2>1 DEF FreshInv, Fresh
<1>8. CASE Write
  <2>1. writes' = writes + 1 /\ UNCHANGED <<status, got, cache, since>>  BY <1>8 DEF Write
  <2>2. \A f \in Files :
           disk'[f].ver \in Nat /\ disk[f].ver <= disk'[f].ver /\ disk'[f].ver <= writes'
    <3>1. PICK f \in Files, is \in Bytes : disk' = [disk EXCEPT ![f] = [is |-> is, ver |-> writes']]
          BY <1>8 DEF Write
    <3>2. \A g \in Files : disk[g].ver \in Nat /\ disk[g].ver <= writes
          BY <1>0 DEF Disks, FreshInv
    <3>3. \A g \in Files : IF g = f THEN disk'[g].ver = writes' ELSE disk'[g] = disk[g]
          BY <3>1, <1>0 DEF Disks
    <3> QED  BY <3>2, <3>3, <2>1, <1>0
  <2>3. \A f \in Files : since[f].ver \in Nat /\ disk[f].ver \in Nat /\ disk'[f].ver >= disk[f].ver
    <3>1. \A f \in Files : since[f].ver \in Nat /\ disk[f].ver \in Nat  BY <1>0 DEF Disks
    <3> QED  BY <3>1, <2>2
  <2>4. \A f \in Files : since'[f].ver <= disk'[f].ver /\ disk'[f].ver <= writes'
    <3>1. writes' \in Nat /\ since' = since  BY <2>1, <1>0
    <3> QED  BY <2>2, <2>3, <3>1 DEF FreshInv
  <2> QED  BY <2>1, <2>4 DEF FreshInv, Fresh
<1>9. CASE UNCHANGED vars  BY <1>9 DEF vars, FreshInv, Fresh
<1> QED  BY <1>1, <1>2, <1>3, <1>4, <1>5, <1>6, <1>7, <1>8, <1>9, Steps

(* What is touched now comes behind all that was touched before. *)
LEMMA TouchedOnceKept ==
    ASSUME Typed, TouchInv, status \in {"resolving", "located"},
           NEW what \in {"read", "run"}, Touch(what)
    PROVE  TouchedOnce'
<1>1. /\ touched' \in Seq(Mark) /\ Len(touched') = Len(touched) + 1
      /\ \A j \in 1..Len(touched) : touched'[j] = touched[j]
      /\ touched'[Len(touched) + 1].op = op
      /\ touched'[Len(touched) + 1].item = At
      BY TouchFacts
<1>2. touched \in Seq(Mark) /\ Len(touched) \in Nat  BY DEF Typed
<1>3. ASSUME NEW j \in 1..(Len(touched') - 1)
      PROVE  \/ touched'[j].op < touched'[j + 1].op
             \/ /\ touched'[j].op = touched'[j + 1].op
                /\ touched'[j].item < touched'[j + 1].item
  <2>1. CASE j = Len(touched)
    <3>1. touched'[j] = touched[j] /\ j \in 1..Len(touched)  BY <2>1, <1>1, <1>2
    <3>2. \/ touched[j].op < op
          \/ touched[j].op = op /\ touched[j].item < At
          BY <3>1 DEF TouchInv, Running
    <3> QED  BY <2>1, <3>1, <3>2, <1>1
  <2>2. CASE j \in 1..(Len(touched) - 1)
    <3>1. touched'[j] = touched[j] /\ touched'[j + 1] = touched[j + 1]
          BY <2>2, <1>1, <1>2
    <3> QED  BY <2>2, <3>1 DEF TouchInv, TouchedOnce
  <2> QED  BY <2>1, <2>2, <1>1, <1>2
<1> QED  BY <1>3 DEF TouchedOnce

LEMMA TouchStep ==
    ASSUME Typed, Resolved, TouchInv, [Next]_vars
    PROVE  TouchInv'
<1>0. /\ touched \in Seq(Mark) /\ op \in Nat /\ At \in Nat
      /\ Len(got) \in Nat /\ At = Len(got) + 1
      BY CallFacts DEF Typed, At
<1>a. ASSUME NEW j \in 1..Len(touched)
      PROVE  touched[j].op \in Nat /\ touched[j].item \in Nat
  <2>1. touched[j] \in Mark  BY <1>0
  <2> QED  BY <2>1 DEF Mark
<1>1. CASE Prevalidate  BY <1>1 DEF Prevalidate, TouchInv, TouchedOnce, Resolved
<1>2. CASE BeginCall  BY <1>2 DEF BeginCall, TouchInv, TouchedOnce, Running, At
<1>3. CASE \E ver \in Nat : At <= Len(Call) /\ Yields(ver) /\ Yield(ver)
  <2>1. PICK ver \in Nat : At <= Len(Call) /\ Yields(ver) /\ Yield(ver)  BY <1>3
  <2>2. Len(got') = Len(got) + 1 /\ status' = "resolving"  BY <2>1, YieldFacts
  <2>3. /\ op' = op /\ status \in {"resolving", "located", "executing"}
        /\ touched' = touched \/ (status = "located" /\ Touch("read"))
        BY <2>1, YieldsFacts
  <2>4. At' = At + 1  BY <2>2, <1>0 DEF At
  <2>5. TouchedOnce'  BY <2>3, TouchedOnceKept DEF TouchInv, TouchedOnce
  <2>6. ASSUME NEW j \in 1..Len(touched')
        PROVE  \/ touched'[j].op < op
               \/ touched'[j].op = op /\ touched'[j].item < At + 1
    <3>1. CASE j \in 1..Len(touched) /\ touched'[j] = touched[j]
      <4>1. \/ touched[j].op < op
            \/ touched[j].op = op /\ touched[j].item < At
            \/ touched[j].op = op /\ touched[j].item = At
            BY <3>1, <2>3 DEF TouchInv, Running
      <4> QED  BY <3>1, <4>1, <1>0, <1>a
    <3>2. CASE Touch("read") /\ j = Len(touched) + 1
      <4>1. touched'[j].op = op /\ touched'[j].item = At  BY <3>2, TouchFacts
      <4> QED  BY <4>1, <1>0
    <3>3. CASE touched' = touched  BY <3>1, <3>3
    <3>4. CASE Touch("read")
      <4>1. /\ Len(touched') = Len(touched) + 1
            /\ \A k \in 1..Len(touched) : touched'[k] = touched[k]
            BY <3>4, TouchFacts
      <4>2. j \in 1..Len(touched) \/ j = Len(touched) + 1  BY <4>1, <1>0
      <4> QED  BY <3>1, <3>2, <3>4, <4>1, <4>2
    <3> QED  BY <3>3, <3>4, <2>3
  <2> QED  BY <2>3, <2>4, <2>5, <2>6 DEF TouchInv
<1>4. CASE Locate /\ status' = "located"
      BY <1>4 DEF Locate, Fail, TouchInv, TouchedOnce, Running, At
<1>5. CASE StartCommand /\ status' = "executing"
  <2>1. /\ status = "resolving" /\ Touch("run") /\ UNCHANGED <<op, got>>
        BY <1>5 DEF StartCommand, Fail
  <2>2. TouchedOnce'  BY <2>1, TouchedOnceKept
  <2>3. /\ Len(touched') = Len(touched) + 1
        /\ \A j \in 1..Len(touched) : touched'[j] = touched[j]
        /\ touched'[Len(touched) + 1].op = op
        /\ touched'[Len(touched) + 1].item = At
        BY <2>1, TouchFacts
  <2>4. ASSUME NEW j \in 1..Len(touched')
        PROVE  \/ touched'[j].op < op
               \/ touched'[j].op = op /\ touched'[j].item < At
               \/ touched'[j].op = op /\ touched'[j].item = At
    <3>1. CASE j \in 1..Len(touched)  BY <3>1, <2>1, <2>3 DEF TouchInv, Running
    <3>2. CASE j = Len(touched) + 1  BY <3>2, <2>3
    <3> QED  BY <3>1, <3>2, <2>3, <1>0
  <2>5. At' = At /\ op' = op  BY <2>1 DEF At
  <2> QED  BY <1>5, <2>2, <2>4, <2>5 DEF TouchInv
<1>6. CASE status \in {"resolving", "located", "executing"} /\ Failed
  <2>1. /\ status' \in {"invalid", "escaped"}
        /\ touched' = touched \/ (status = "located" /\ Touch("read"))
        BY <1>6, FailedFacts
  <2>2. TouchedOnce'  BY <2>1, TouchedOnceKept DEF TouchInv, TouchedOnce
  <2> QED  BY <2>1, <2>2 DEF TouchInv, Running
<1>7. CASE Apply
  <2>1. /\ status = "resolving" /\ touched' = touched
        /\ \/ status' = "done"
           \/ op' = op + 1
        BY <1>7 DEF Apply
  <2>2. \A j \in 1..Len(touched) : touched[j].op <= op
        BY <2>1, <1>0, <1>a DEF TouchInv, Running
  <2>3. \A j \in 1..Len(touched') : touched'[j].op < op' \/ ~Running'
        BY <2>1, <2>2, <1>0, <1>a DEF Running
  <2> QED  BY <2>1, <2>3 DEF TouchInv, TouchedOnce
<1>8. CASE Write  BY <1>8 DEF Write, TouchInv, TouchedOnce, Running, At
<1>9. CASE UNCHANGED vars  BY <1>9 DEF vars, TouchInv, TouchedOnce, Running, At
<1> QED  BY <1>1, <1>2, <1>3, <1>4, <1>5, <1>6, <1>7, <1>8, <1>9, Steps

LEMMA ImproperStep ==
    ASSUME Typed, Resolved, ImproperInv, [Next]_vars
    PROVE  ImproperInv'
<1>0. batch' = batch
  <2>1. CASE \E ver \in Nat : At <= Len(Call) /\ Yields(ver) /\ Yield(ver)
        BY <2>1, YieldsFacts
  <2>2. CASE Failed  BY <2>2, FailedFacts
  <2> QED  BY <2>1, <2>2, Steps
           DEF Prevalidate, BeginCall, Locate, StartCommand, Fail, Apply, Write, vars
<1>1. SUFFICES ASSUME Flawed
               PROVE  /\ touched' = <<>> /\ status' \in {"called", "begun", "invalid"}
                      /\ status' = "begun" => batch.direct
      BY <1>0 DEF ImproperInv, Flawed
<1>2. /\ touched = <<>> /\ status \in {"called", "begun", "invalid"}
      /\ status = "begun" => batch.direct
      BY <1>1 DEF ImproperInv
<1>3. CASE Prevalidate
      BY <1>1, <1>2, <1>3 DEF Prevalidate, Flawed
<1>4. CASE BeginCall
  <2>1. batch.direct  BY <1>2, <1>4 DEF BeginCall
  <2>2. Len(batch.calls) = 1 /\ op = 1 /\ DOMAIN batch.calls = {1}
    <3>1. batch \in Batches /\ op \in 1..Len(batch.calls)  BY DEF Typed
    <3>2. Len(batch.calls) = 1 /\ batch.calls \in Seq(Seq(Item) \ {<<>>})
          BY <2>1, <3>1, SourcesAssumption
    <3> QED  BY <3>1, <3>2
  <2>3. \E i \in DOMAIN Call : ~Proper(Call[i])  BY <1>1, <2>2 DEF Flawed, Call
  <2> QED  BY <1>2, <1>4, <2>3 DEF BeginCall
<1>5. CASE Write  BY <1>2, <1>5 DEF Write
<1>6. CASE UNCHANGED vars  BY <1>2, <1>6 DEF vars
<1>7. CASE \E ver \in Nat : At <= Len(Call) /\ Yields(ver) /\ Yield(ver)
      BY <1>2, <1>7, YieldsFacts
<1> QED  BY <1>2, <1>3, <1>4, <1>5, <1>6, <1>7, Steps DEF Locate, StartCommand, Apply
-----------------------------------------------------------------------------
(* The inductive invariant. *)
LEMMA SourcesInvariant == Spec => []SourcesInv
<1>1. Init => SourcesInv  BY SourcesInit
<1>2. SourcesInv /\ [Next]_vars => SourcesInv'
  <2>1. SUFFICES ASSUME SourcesInv, [Next]_vars PROVE SourcesInv'
        OBVIOUS
  <2>2. Typed /\ Resolved /\ AppliedInv /\ CacheInv /\ FreshInv /\ TouchInv /\ ImproperInv
        BY <2>1 DEF SourcesInv
  <2>3. Typed' /\ Resolved'  BY <2>1, <2>2, TypedStep, ResolvedStep
  <2>4. AppliedInv' /\ CacheInv'  BY <2>1, <2>2, AppliedStep, CacheStep
  <2>5. FreshInv' /\ TouchInv'  BY <2>1, <2>2, FreshStep, TouchStep
  <2>6. ImproperInv'  BY <2>1, <2>2, ImproperStep
  <2> QED  BY <2>3, <2>4, <2>5, <2>6 DEF SourcesInv
<1> QED  BY <1>1, <1>2, PTL DEF Spec

(* The cache of a call holds files under the input roots, and never more of *)
(* the call's items are resolved than it has (content.py:298-339).          *)
THEOREM SourcesTypeCorrect == Spec => []TypeOK
<1>1. SourcesInv => TypeOK
  <2>1. SUFFICES ASSUME SourcesInv PROVE TypeOK  OBVIOUS
  <2>2. Typed /\ Resolved /\ FreshInv  BY <2>1 DEF SourcesInv
  <2>3. disk \in [Files -> [is : Bytes, ver : 0..MaxWrites]]
    <3>1. \A f \in Files : disk[f].is \in Bytes /\ disk[f].ver \in 0..MaxWrites
                           /\ disk[f] = [is |-> disk[f].is, ver |-> disk[f].ver]
          BY <2>2, SourcesAssumption DEF Typed, Disks, FreshInv
    <3> QED  BY <3>1, <2>2 DEF Typed, Disks
  <2>4. op \in DOMAIN batch.calls  BY <2>2, CallFacts DEF Typed
  <2> QED  BY <2>2, <2>3, <2>4, SourcesAssumption DEF Typed, Resolved, Status, TypeOK
<1> QED  BY <1>1, SourcesInvariant, PTL

(* For any files, writes and batches: what one call takes from a JSON file  *)
(* is from one version of it (the json_cache of content.py:298, :319-324).  *)
THEOREM CallsReadOneSnapshot == Spec => []OneSnapshot
<1>1. SourcesInv => OneSnapshot
  <2>1. SUFFICES ASSUME SourcesInv, NEW c \in DOMAIN Contents
                 PROVE  OneVersion(Contents[c])
        BY DEF OneSnapshot, OneVersion
  <2>2. got \in Seq(Entry) /\ applied \in Seq(Seq(Entry)) /\ CacheInv
        BY <2>1 DEF SourcesInv, Typed
  <2>3. CASE c \in 1..Len(applied)
    <3>1. Contents[c] = applied[c]  BY <2>2, <2>3 DEF Contents
    <3>2. OneVersion(applied[c])  BY <2>2, <2>3 DEF CacheInv
    <3> QED  BY <3>1, <3>2
  <2>4. CASE c = Len(applied) + 1
    <3>1. Contents[c] = got /\ DOMAIN got = 1..Len(got)  BY <2>2, <2>4 DEF Contents
    <3>2. OneVersion(got)  BY <3>1, <2>2 DEF CacheInv, OneVersion
    <3> QED  BY <3>1, <3>2
  <2>5. DOMAIN Contents = 1..(Len(applied) + 1)  BY <2>2 DEF Contents
  <2> QED  BY <2>2, <2>3, <2>4, <2>5
<1> QED  BY <1>1, SourcesInvariant, PTL

(* ... and what it takes from any file was there since the call began: no   *)
(* version an earlier operation has read is handed to it.                   *)
THEOREM CallsReadFreshly == Spec => []Fresh
<1>1. SourcesInv => Fresh  BY DEF SourcesInv, FreshInv
<1> QED  BY <1>1, SourcesInvariant, PTL

(* A batch whose sources fail, at whatever item, has changed nothing; one   *)
(* that ends has all items of all operations (batch.py:364-378).            *)
THEOREM SourcesApplyAllOrNothing == Spec => []AllOrNothing
<1>1. SourcesInv => AllOrNothing
  <2>1. SUFFICES ASSUME SourcesInv PROVE AllOrNothing  OBVIOUS
  <2>2. AppliedInv /\ applied \in Seq(Seq(Entry))  BY <2>1 DEF SourcesInv, Typed
  <2>3. ASSUME NEW c \in DOMAIN applied
        PROVE  /\ Len(applied[c]) = Len(batch.calls[c])
               /\ \A i \in DOMAIN applied[c] : applied[c][i].src = batch.calls[c][i].src
    <3>1. c \in 1..Len(applied) /\ applied[c] \in Seq(Entry)  BY <2>2, <2>3
    <3>2. DOMAIN applied[c] = 1..Len(applied[c])  BY <3>1
    <3> QED  BY <3>1, <3>2, <2>2 DEF AppliedInv
  <2> QED  BY <2>2, <2>3 DEF AppliedInv, AllOrNothing
<1> QED  BY <1>1, SourcesInvariant, PTL

(* Sources are touched in the order of the items and none twice: a command  *)
(* is never run again, whatever came of it (content.py:303-331, :386-443).  *)
THEOREM SourcesTouchedOnce == Spec => []TouchedOnce
<1>1. SourcesInv => TouchedOnce  BY DEF SourcesInv, TouchInv
<1> QED  BY <1>1, SourcesInvariant, PTL

(* An item with no source or with two, anywhere in a batch, keeps all of    *)
(* its sources from being read or run.                                      *)
THEOREM ImproperItemsTouchNothing == Spec => []ImproperTouchesNothing
<1>1. SourcesInv => ImproperTouchesNothing
      BY DEF SourcesInv, ImproperInv, Flawed, ImproperTouchesNothing
<1> QED  BY <1>1, SourcesInvariant, PTL
=============================================================================
