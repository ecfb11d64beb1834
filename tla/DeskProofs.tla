------------------------------ MODULE DeskProofs ------------------------------
(***************************************************************************)
(* The bundles and the tabs, for every value of the constants.             *)
(*                                                                         *)
(* An export is a moment of the repository: a ref only grows and never     *)
(* passes the file (Grows). When the file is listed, the ref is at least   *)
(* the one listed; when the ref is copied, it is still the one listed, so  *)
(* it was that one at the listing of the file as well, and that moment is  *)
(* the one the bundle shows (ListedAt). An import is whole: what an        *)
(* importer has extracted is a part of the bundle, and all of it from the  *)
(* moment it swaps (Extracted); a backup is what was at the destination,   *)
(* of an importer told to overwrite (Kept), and there is always something  *)
(* at the destination or in a backup that nobody is removing (Somewhere).  *)
(*                                                                         *)
(* The tabs (TabsInv): every strip, in memory, in the queue, in the file   *)
(* or with a loader, has its active tab and no id twice (WholeEverywhere), *)
(* so an operation that keeps the active tab finds it again; each load has *)
(* a number of its own and the last one closes the strip until it comes    *)
(* (LoadsInOrder); the save at work is the head of the queue (HeadAtWork); *)
(* without a reload or an import what is queued last, or else committed    *)
(* last, is the strip, and each step of a save leaves the file, the index  *)
(* and the commits related, the file not from a rollback that failed to    *)
(* the next commit, which a save in the queue will make (InStep). So the   *)
(* commits followed by the queue hold the recorded changes in order,       *)
(* whatever navigation was replaced (AllAudited).                          *)
(***************************************************************************)
EXTENDS MCDesk, SequenceTheorems, TLAPS

isContent(c) == c = [objects |-> c.objects, ref |-> c.ref, file |-> c.file, parts |-> c.parts]

Typed ==
  /\ TypeOK
  /\ bundle = [content |-> bundle.content, damage |-> bundle.damage]
  /\ isContent(listed)
  /\ staging = [i \in Importer |-> staging[i]] /\ backup = [i \in Importer |-> backup[i]]
  /\ overwrite \in [Importer -> BOOLEAN]

Grows == ref <= file /\ (saver = 1 => file > 0)

\* What has been listed before each step of the export.
ListedSoFar ==
  /\ exporter[1] # "idle" => bundle.content = nothing /\ <<ref, file>> \in moments
  /\ exporter = <<"list", 1>> => listed.parts = {}
  /\ exporter = <<"list", 2>> => listed.parts = {"objects"}
  /\ exporter = <<"list", 3>> => listed.parts = {"objects", "ref"}
  /\ exporter[1] = "copy" => listed.parts = allParts
  /\ exporter = <<"list", 3>> => listed.ref \in Nat /\ listed.ref <= ref

\* There was a moment of the listed file, at a ref between the listed one and today's.
ListedAt ==
  /\ exporter[1] = "copy" =>
       /\ listed.ref \in Nat
       /\ \E m \in Nat : /\ <<m, listed.file>> \in moments
                         /\ listed.ref <= m /\ m <= ref
  /\ exporter = <<"copy", 3>> => <<listed.ref, listed.file>> \in moments

ExportInv == Typed /\ Grows /\ ListedSoFar /\ ListedAt /\ ExportIsAMoment

LEMMA OrderOfParts ==
  Len(order) = 3 /\ order[1] = "objects" /\ order[2] = "ref" /\ order[3] = "file"
BY DEF order

LEMMA InitExport == Init => ExportInv
<1> SUFFICES ASSUME Init PROVE ExportInv
  OBVIOUS
<1>1. Typed
  BY DEF Init, Typed, TypeOK, isContent, nothing, damages
<1>2. Grows /\ ListedSoFar /\ ListedAt /\ ExportIsAMoment
  BY DEF Init, Grows, ListedSoFar, ListedAt, ExportIsAMoment, nothing
<1> QED
  BY <1>1, <1>2 DEF ExportInv

\* One step of a save.
LEMMA SaveStep ==
  ASSUME Typed, Grows, Save
  PROVE  /\ saver' \in 0 .. 2 /\ ref' \in Nat /\ file' \in Nat /\ objects' \subseteq Nat \ {0}
         /\ Grows' /\ ref <= ref'
<1> USE DEF Typed, TypeOK, Save, Grows
<1>1. CASE saver = 0
  <2>1. saver' = 1 /\ file' = file + 1 /\ UNCHANGED <<objects, ref>>
    BY <1>1
  <2> QED
    BY <2>1
<1>2. CASE saver = 1
  <2>1. saver' = 2 /\ objects' = objects \cup {file} /\ UNCHANGED <<file, ref>>
    BY <1>2
  <2> QED
    BY <2>1, <1>2
<1>3. CASE saver = 2
  <2>1. saver' = 0 /\ ref' = file /\ UNCHANGED <<file, objects>>
    BY <1>3
  <2> QED
    BY <2>1
<1> QED
  BY <1>1, <1>2, <1>3

LEMMA TypedStep == Typed /\ Grows /\ [Next]_vars => Typed'
<1> SUFFICES ASSUME Typed, Grows, [Next]_vars PROVE Typed'
  OBVIOUS
<1> USE DEF Typed, TypeOK
<1>1. CASE Save
  BY <1>1, SaveStep DEF Save, importing, isContent
<1>2. CASE StartExport
  BY <1>2 DEF StartExport, source, importing, isContent, nothing
<1>3. CASE List
  <2>1. exporter' \in {"idle", "list", "copy"} \X (1 .. 3)
    BY <1>3, OrderOfParts DEF List, nextStep
  <2>2. isContent(listed)'
    BY <1>3 DEF List, isContent
  <2> QED
    BY <1>3, <2>1, <2>2 DEF List, source, importing
<1>4. CASE Copy
  <2>1. exporter' \in {"idle", "list", "copy"} \X (1 .. 3)
    BY <1>4, OrderOfParts DEF Copy, nextStep
  <2>2. bundle' = [content |-> bundle'.content, damage |-> bundle'.damage]
        /\ bundle'.damage \in damages
    BY <1>4 DEF Copy, damages
  <2> QED
    BY <1>4, <2>1, <2>2 DEF Copy, source, importing, isContent
<1>5. CASE Damage
  BY <1>5 DEF Damage, source, exporting, importing, isContent
<1>6. ASSUME NEW i \in Importer,
             StartImport(i) \/ Extract(i) \/ Swap(i) \/ Promote(i) \/ Rollback(i) \/ Clean(i) \/ Crash(i)
      PROVE  Typed'
  <2>1. UNCHANGED <<source, exporting, bundle, overwrite>>
    BY <1>6 DEF StartImport, Extract, Swap, Promote, Rollback, Clean, Crash, importStep
  <2>2. retired' \subseteq Importer
    BY <1>6 DEF StartImport, Extract, Swap, Promote, Rollback, Clean, Crash
  <2>3. where' \in [Importer -> {"idle", "extract", "swap", "promote", "rollback", "clean",
                                 "imported", "failed", "stranded", "crashed"}]
    BY <1>6 DEF StartImport, Extract, Swap, Promote, Rollback, Clean, Crash
  <2>4. staging' = [j \in Importer |-> staging'[j]]
    BY <1>6 DEF StartImport, Extract, Swap, Promote, Rollback, Clean, Crash
  <2>5. backup' = [j \in Importer |-> backup'[j]]
    BY <1>6 DEF StartImport, Extract, Swap, Promote, Rollback, Clean, Crash
  <2> QED
    BY <2>1, <2>2, <2>3, <2>4, <2>5 DEF source, exporting, isContent
<1>7. CASE UNCHANGED vars
  BY <1>7 DEF vars, source, exporting, importing, isContent
<1> QED
  BY <1>1, <1>2, <1>3, <1>4, <1>5, <1>6, <1>7 DEF Next

LEMMA StepExport == ExportInv /\ [Next]_vars => ExportInv'
<1> SUFFICES ASSUME ExportInv, [Next]_vars PROVE ExportInv'
  OBVIOUS
<1>0. Typed'
  BY TypedStep DEF ExportInv
<1>1. CASE Save
  <2>1. Grows' /\ ref <= ref'
    BY <1>1, SaveStep DEF ExportInv
  <2>2. /\ UNCHANGED <<exporter, listed, bundle>>
        /\ moments' = IF exporter[1] = "idle" THEN moments ELSE moments \cup {<<ref', file'>>}
    BY <1>1 DEF Save
  <2>3. ListedSoFar'
    BY <2>1, <2>2, <1>0 DEF ExportInv, Typed, TypeOK, ListedSoFar
  <2>4. ListedAt'
    <3>1. CASE exporter[1] = "copy"
      <4>1. PICK m \in Nat : <<m, listed.file>> \in moments /\ listed.ref <= m /\ m <= ref
        BY <3>1 DEF ExportInv, ListedAt
      <4>2. <<m, listed'.file>> \in moments' /\ listed'.ref <= m /\ m <= ref'
        BY <2>1, <2>2, <3>1, <4>1, <1>0 DEF ExportInv, Typed, TypeOK
      <4> QED
        BY <2>2, <3>1, <4>2 DEF ExportInv, ListedAt
    <3>2. CASE exporter[1] # "copy"
      BY <2>2, <3>2 DEF ListedAt
    <3> QED
      BY <3>1, <3>2
  <2>5. ExportIsAMoment'
    BY <2>2 DEF ExportInv, ExportIsAMoment
  <2> QED
    BY <1>0, <2>1, <2>3, <2>4, <2>5 DEF ExportInv
<1>2. CASE StartExport
  BY <1>0, <1>2 DEF StartExport, ExportInv, Grows, ListedSoFar, ListedAt, ExportIsAMoment, source,
                    nothing
<1>3. CASE List
  <2>1. /\ exporter[1] = "list" /\ exporter' = nextStep /\ UNCHANGED <<source, moments, bundle>>
        /\ listed' = [listed EXCEPT !.parts = @ \cup {part},
                              !.objects = IF part = "objects" THEN objects ELSE @,
                              !.ref = IF part = "ref" THEN ref ELSE @,
                              !.file = IF part = "file" THEN file ELSE @]
    BY <1>3 DEF List
  <2>2. Grows' /\ ExportIsAMoment'
    BY <2>1 DEF ExportInv, Grows, ExportIsAMoment, source
  <2>3. CASE exporter = <<"list", 1>>
    <3>1. part = "objects" /\ exporter' = <<"list", 2>>
      BY <2>1, <2>3, OrderOfParts DEF part, nextStep
    <3> QED
      BY <1>0, <2>1, <2>2, <2>3, <3>1 DEF ExportInv, Typed, isContent, ListedSoFar, ListedAt, source
  <2>4. CASE exporter = <<"list", 2>>
    <3>1. part = "ref" /\ exporter' = <<"list", 3>>
      BY <2>1, <2>4, OrderOfParts DEF part, nextStep
    <3> QED
      BY <1>0, <2>1, <2>2, <2>4, <3>1 DEF ExportInv, Typed, TypeOK, isContent, ListedSoFar, ListedAt,
                                          source
  <2>5. CASE exporter = <<"list", 3>>
    <3>1. part = "file" /\ exporter' = <<"copy", 1>>
      BY <2>1, <2>5, OrderOfParts DEF part, nextStep
    <3>2. listed'.parts = allParts /\ listed'.file = file /\ listed'.ref = listed.ref
      BY <2>1, <2>5, <3>1 DEF ExportInv, Typed, isContent, ListedSoFar, allParts
    <3>3. <<ref, listed'.file>> \in moments' /\ listed'.ref <= ref /\ ref \in Nat /\ listed'.ref \in Nat
      BY <2>1, <2>5, <3>2 DEF ExportInv, Typed, TypeOK, ListedSoFar
    <3>4. ListedAt'
      BY <2>1, <3>1, <3>3 DEF ListedAt, source, ExportInv, Typed, TypeOK
    <3>5. ListedSoFar'
      BY <2>1, <2>5, <3>1, <3>2 DEF ExportInv, ListedSoFar, source
    <3> QED
      BY <1>0, <2>2, <3>4, <3>5 DEF ExportInv
  <2> QED
    BY <2>1, <2>3, <2>4, <2>5 DEF ExportInv, Typed, TypeOK
<1>4. CASE Copy
  <2>1. exporter[1] = "copy" /\ UNCHANGED <<source, listed, moments>>
    BY <1>4 DEF Copy
  <2>2. Grows'
    BY <2>1 DEF ExportInv, Grows, source
  <2>3. CASE ~same
    <3>1. exporter' = <<"idle", 1>> /\ UNCHANGED bundle
      BY <1>4, <2>3 DEF Copy
    <3> QED
      BY <1>0, <2>1, <2>2, <3>1 DEF ExportInv, ListedSoFar, ListedAt, ExportIsAMoment
  <2>4. CASE same /\ exporter = <<"copy", 1>>
    <3>1. exporter' = <<"copy", 2>> /\ UNCHANGED bundle
      BY <1>4, <2>4, OrderOfParts DEF Copy, nextStep
    <3> QED
      BY <1>0, <2>1, <2>2, <2>4, <3>1 DEF ExportInv, ListedSoFar, ListedAt, ExportIsAMoment, source
  <2>5. CASE same /\ exporter = <<"copy", 2>>
    <3>1. exporter' = <<"copy", 3>> /\ UNCHANGED bundle
      BY <1>4, <2>5, OrderOfParts DEF Copy, nextStep
    <3>2. listed.ref = ref
      BY <2>5, OrderOfParts DEF same, part
    <3>3. <<listed.ref, listed.file>> \in moments
      <4>1. PICK m \in Nat : <<m, listed.file>> \in moments /\ listed.ref <= m /\ m <= ref
        BY <2>1 DEF ExportInv, ListedAt
      <4>2. m = listed.ref
        BY <3>2, <4>1 DEF ExportInv, Typed, TypeOK
      <4> QED
        BY <4>1, <4>2
    <3> QED
      BY <1>0, <2>1, <2>2, <2>5, <3>1, <3>3 DEF ExportInv, ListedSoFar, ListedAt, ExportIsAMoment, source
  <2>6. CASE same /\ exporter = <<"copy", 3>>
    <3>1. exporter' = <<"idle", 1>> /\ bundle' = [content |-> listed, damage |-> "none"]
      BY <1>4, <2>6, OrderOfParts DEF Copy, nextStep
    <3>2. <<listed.ref, listed.file>> \in moments
      BY <2>6 DEF ExportInv, ListedAt
    <3> QED
      BY <1>0, <2>1, <2>2, <3>1, <3>2 DEF ExportInv, ListedSoFar, ListedAt, ExportIsAMoment
  <2> QED
    BY <2>1, <2>3, <2>4, <2>5, <2>6 DEF ExportInv, Typed, TypeOK
<1>5. CASE Damage
  <2>1. UNCHANGED <<source, exporting>> /\ bundle'.content = bundle.content
    BY <1>5 DEF Damage, ExportInv, Typed
  <2> QED
    BY <1>0, <2>1 DEF ExportInv, Grows, ListedSoFar, ListedAt, ExportIsAMoment, source, exporting
<1>6. CASE UNCHANGED <<source, exporting, bundle>>
  BY <1>0, <1>6 DEF ExportInv, Grows, ListedSoFar, ListedAt, ExportIsAMoment, source, exporting
<1>7. ASSUME NEW i \in Importer,
             StartImport(i) \/ Extract(i) \/ Swap(i) \/ Promote(i) \/ Rollback(i) \/ Clean(i) \/ Crash(i)
      PROVE  UNCHANGED <<source, exporting, bundle>>
  BY <1>7 DEF StartImport, Extract, Swap, Promote, Rollback, Clean, Crash, importStep
<1>8. CASE UNCHANGED vars
  BY <1>6, <1>8 DEF vars
<1> QED
  BY <1>1, <1>2, <1>3, <1>4, <1>5, <1>6, <1>7, <1>8 DEF Next

LEMMA ExportHolds == Spec => []ExportInv
  BY InitExport, StepExport, PTL DEF Spec

\* The files of a bundle were in the repository together, whoever saves while it is
\* being exported (exportToFile).
THEOREM BundleIsAMoment == Spec => []ExportIsAMoment
<1>1. ExportInv => ExportIsAMoment
  BY DEF ExportInv
<1> QED
  BY <1>1, ExportHolds, PTL

-----------------------------------------------------------------------------
(* Importing. *)

\* A bundle holds all its parts, and importers are at work only when there is one.
BundleIsWhole ==
  /\ isContent(bundle.content)
  /\ bundle.content # nothing => bundle.content.parts = allParts
  /\ \A i \in Importer : where[i] # "idle" => bundle.content # nothing

\* What an importer has extracted is of the bundle, and all of it once it swaps.
Extracted ==
  \A i \in Importer :
    /\ where[i] = "idle" => staging[i] = nothing
    /\ where[i] = "extract" =>
         /\ isContent(staging[i]) /\ staging[i].parts \subseteq allParts
         /\ "objects" \in staging[i].parts => staging[i].objects = bundle.content.objects
         /\ "ref" \in staging[i].parts => staging[i].ref = bundle.content.ref
         /\ "file" \in staging[i].parts => staging[i].file = bundle.content.file
    /\ where[i] \in {"swap", "promote"} => staging[i] = bundle.content

\* A backup is what was at the destination, of an importer told to overwrite, or what a
\* removal has left of it.
beingRemoved == {"clean", "imported", "crashed"}
Kept ==
  \A i \in Importer :
    /\ backup[i] \in {nothing, remains, before, bundle.content}
    /\ where[i] \notin beingRemoved => backup[i] \in {nothing, before, bundle.content}
    /\ backup[i] # nothing => overwrite[i]
    /\ where[i] \in {"idle", "extract", "swap"} => backup[i] = nothing

\* Nothing is at the destination only while a backup that is not being removed is kept.
Somewhere ==
  before # nothing =>
    \/ destination # nothing
    \/ \E i \in Importer : /\ where[i] \notin {"clean", "imported"}
                            /\ backup[i] \in {before, bundle.content} \ {nothing}

\* What was there at first was whole.
Started == before # remains

ImportInv == /\ ExportInv /\ Started /\ BundleIsWhole /\ Extracted /\ Kept
             /\ WholeOrNothing /\ OldIsKept /\ Somewhere

LEMMA InitImport == Init => ImportInv
<1> SUFFICES ASSUME Init PROVE ImportInv
  OBVIOUS
<1>1. BundleIsWhole /\ Extracted
  BY DEF Init, BundleIsWhole, Extracted, isContent, nothing
<1>2. Kept
  BY DEF Init, Kept
<1>3. WholeOrNothing /\ OldIsKept /\ Somewhere
  BY DEF Init, WholeOrNothing, OldIsKept, Somewhere
<1>4. Started
  <2>1. "remains" # "old"
    OBVIOUS
  <2>2. nothing.parts = {} /\ old.parts = {"old"} /\ remains.parts = {"remains"}
    BY DEF nothing, old, remains
  <2> QED
    BY <2>1, <2>2 DEF Init, Started
<1> QED
  BY InitExport, <1>1, <1>2, <1>3, <1>4 DEF ImportInv

\* The steps of the export and the writer: before there is a bundle, nobody imports.
LEMMA ExportStepKeepsImport ==
  ASSUME ImportInv, ExportInv', Save \/ StartExport \/ List \/ Copy \/ Damage
  PROVE  ImportInv'
<1>1. UNCHANGED importing
  BY DEF Save, StartExport, List, Copy, Damage
<1>2. CASE bundle'.content = bundle.content
  <2>1. BundleIsWhole' /\ Extracted' /\ Kept' /\ WholeOrNothing' /\ OldIsKept'
    BY <1>1, <1>2 DEF ImportInv, BundleIsWhole, Extracted, Kept, WholeOrNothing, OldIsKept, importing
  <2>2. Somewhere'
    BY <1>1, <1>2 DEF ImportInv, Somewhere, importing
  <2> QED
    BY <1>1, <2>1, <2>2 DEF ImportInv, Started, importing
<1>3. CASE bundle'.content # bundle.content
  <2>1. exporter[1] = "copy" /\ bundle'.content = listed
    <3>1. bundle = [content |-> bundle.content, damage |-> bundle.damage]
      BY DEF ImportInv, ExportInv, Typed
    <3>2. ~Damage
      BY <1>3, <3>1 DEF Damage
    <3>3. Copy
      BY <1>3, <3>2 DEF Save, StartExport, List
    <3> QED
      BY <1>3, <3>3 DEF Copy
  <2>2. bundle.content = nothing /\ isContent(listed) /\ listed.parts = allParts
    BY <2>1 DEF ImportInv, ExportInv, Typed, ListedSoFar
  <2>3. \A i \in Importer : where[i] = "idle"
    BY <2>2 DEF ImportInv, BundleIsWhole
  <2>4. BundleIsWhole'
    BY <1>1, <2>1, <2>2, <2>3 DEF BundleIsWhole, isContent, importing
  <2>5. Extracted' /\ Kept' /\ WholeOrNothing' /\ OldIsKept'
    BY <1>1, <2>2, <2>3 DEF ImportInv, Extracted, Kept, WholeOrNothing, OldIsKept, importing
  <2>6. Somewhere'
    BY <1>1, <2>3 DEF ImportInv, Somewhere, Kept, importing
  <2> QED
    BY <1>1, <2>4, <2>5, <2>6 DEF ImportInv, Started, importing
<1> QED
  BY <1>2, <1>3

\* All parts, each as in the bundle, are the bundle.
LEMMA WholeIsTheBundle ==
  ASSUME NEW s, NEW c, isContent(s), isContent(c), s.parts = allParts, c.parts = allParts,
         s.objects = c.objects, s.ref = c.ref, s.file = c.file
  PROVE  s = c
BY DEF isContent

LEMMA ExtractKeepsImport ==
  ASSUME ImportInv, ExportInv', NEW i \in Importer, Extract(i)
  PROVE  ImportInv'
<1>0. /\ UNCHANGED <<bundle, overwrite, before, backup, retired, destination>>
      /\ where[i] = "extract" /\ bundle.content # nothing
  BY DEF Extract, importStep, ImportInv, BundleIsWhole
<1>1. Kept' /\ WholeOrNothing' /\ OldIsKept' /\ BundleIsWhole' /\ Somewhere'
  <2>1. \A j \in Importer : where'[j] = where[j] \/ (j = i /\ where'[j] \in {"swap", "failed"})
    <3>1. \/ where' = where \/ where' = [where EXCEPT ![i] = "swap"]
          \/ where' = [where EXCEPT ![i] = "failed"]
      BY DEF Extract
    <3> QED
      BY <3>1 DEF ImportInv, ExportInv, Typed, TypeOK
  <2>2. Kept' /\ BundleIsWhole'
    BY <1>0, <2>1 DEF ImportInv, Kept, BundleIsWhole, beingRemoved
  <2>3. Somewhere'
    BY <1>0, <2>1 DEF ImportInv, Somewhere
  <2> QED
    BY <1>0, <2>2, <2>3 DEF ImportInv, WholeOrNothing, OldIsKept
<1>2. ASSUME NEW p \in allParts \ staging[i].parts, bundle.damage = "none", where' = where,
             staging' = [staging EXCEPT ![i] = extracted(staging[i], p)]
      PROVE  Extracted'
  <2> DEFINE new == extracted(staging[i], p)
  <2>1. staging'[i] = new /\ \A j \in Importer : j # i => staging'[j] = staging[j]
    BY <1>2 DEF ImportInv, ExportInv, Typed
  <2>2. /\ isContent(new) /\ new.parts = staging[i].parts \cup {p}
        /\ new.objects = IF p = "objects" THEN bundle.content.objects ELSE staging[i].objects
        /\ new.ref = IF p = "ref" THEN bundle.content.ref ELSE staging[i].ref
        /\ new.file = IF p = "file" THEN bundle.content.file ELSE staging[i].file
    BY <1>2 DEF isContent, extracted
  <2> HIDE DEF new
  <2>3. /\ new.parts \subseteq allParts
        /\ "objects" \in new.parts => new.objects = bundle.content.objects
        /\ "ref" \in new.parts => new.ref = bundle.content.ref
        /\ "file" \in new.parts => new.file = bundle.content.file
    BY <1>0, <1>2, <2>2 DEF ImportInv, Extracted, allParts
  <2> QED
    BY <1>0, <1>2, <2>1, <2>2, <2>3 DEF ImportInv, Extracted
<1>3. ASSUME allParts \ staging[i].parts = {}, where' = [where EXCEPT ![i] = "swap"], staging' = staging
      PROVE  Extracted'
  <2>1. staging[i] = bundle.content
    BY <1>0, <1>3, WholeIsTheBundle DEF ImportInv, Extracted, BundleIsWhole, allParts
  <2> QED
    BY <1>0, <1>3, <2>1 DEF ImportInv, ExportInv, Typed, TypeOK, Extracted
<1>4. ASSUME where' = [where EXCEPT ![i] = "failed"], staging' = [staging EXCEPT ![i] = nothing]
      PROVE  Extracted'
  BY <1>0, <1>4 DEF ImportInv, ExportInv, Typed, TypeOK, Extracted
<1>5. Extracted'
  BY <1>0, <1>2, <1>3, <1>4 DEF Extract, digestMatches
<1> QED
  BY <1>0, <1>1, <1>5 DEF ImportInv, Started

\* An importer that changes only its place and its directories keeps the rest.
LEMMA OtherStepsKeepExtracted ==
  ASSUME ImportInv, NEW i \in Importer,
         StartImport(i) \/ Swap(i) \/ Promote(i) \/ Rollback(i) \/ Clean(i) \/ Crash(i)
  PROVE  BundleIsWhole' /\ Extracted'
<1>0. UNCHANGED <<bundle, overwrite, before>>
  BY DEF StartImport, Swap, Promote, Rollback, Clean, Crash, importStep
<1>1. /\ where[i] # "idle" \/ bundle.content # nothing
      /\ \A j \in Importer \ {i} : where'[j] = where[j] /\ staging'[j] = staging[j]
  BY DEF StartImport, Swap, Promote, Rollback, Clean, Crash, ImportInv, ExportInv, Typed, TypeOK
<1>2. \/ where[i] = "idle" /\ where'[i] = "extract" /\ staging'[i] = staging[i]
      \/ where[i] = "swap" /\ where'[i] = "promote" /\ staging'[i] = staging[i]
      \/ where'[i] \notin {"idle", "extract", "swap", "promote"}
  BY DEF StartImport, Swap, Promote, Rollback, Clean, Crash, ImportInv, ExportInv, Typed, TypeOK
<1>3. BundleIsWhole'
  BY <1>0, <1>1 DEF ImportInv, BundleIsWhole
<1>4. isContent(nothing) /\ nothing.parts = {}
  BY DEF isContent, nothing
<1>5. Extracted'
  BY <1>0, <1>1, <1>2, <1>4 DEF ImportInv, Extracted
<1> QED
  BY <1>3, <1>5

LEMMA OtherStepsKeepImport ==
  ASSUME ImportInv, ExportInv', NEW i \in Importer,
         StartImport(i) \/ Swap(i) \/ Promote(i) \/ Rollback(i) \/ Clean(i) \/ Crash(i)
  PROVE  ImportInv'
<1>0. UNCHANGED <<bundle, overwrite, before>>
  BY DEF StartImport, Swap, Promote, Rollback, Clean, Crash, importStep
<1> USE DEF ImportInv, ExportInv, Typed, TypeOK
<1>a. \A j \in Importer \ {i} : where'[j] = where[j] /\ backup'[j] = backup[j]
  BY DEF StartImport, Swap, Promote, Rollback, Clean, Crash
<1>b. Started'
  BY <1>0 DEF Started
<1>1. CASE /\ UNCHANGED <<destination, backup, retired>>
           /\ \/ where'[i] \in {"extract", "failed", "promote", "rollback", "stranded", "crashed"}
              \/ (where[i] = "clean" /\ where'[i] = "imported")
  <2>1. where[i] # "imported" /\ where[i] # "crashed"
        /\ (where[i] = "clean" => where'[i] \in beingRemoved)
        /\ (where'[i] = "extract" => where[i] = "idle")
        /\ (where'[i] = "swap" => where[i] = "swap")
    BY <1>1 DEF StartImport, Swap, Promote, Rollback, Clean, Crash, beingRemoved
  <2>2. Kept'
    BY <1>0, <1>a, <1>1, <2>1 DEF Kept, beingRemoved
  <2>3. WholeOrNothing' /\ OldIsKept'
    BY <1>0, <1>1 DEF WholeOrNothing, OldIsKept
  <2>4. Somewhere'
    BY <1>0, <1>a, <1>1 DEF Somewhere
  <2> QED
    BY <2>2, <2>3, <2>4, <1>b, OtherStepsKeepExtracted
<1>2. CASE /\ where[i] = "swap" /\ overwrite[i] /\ where' = [where EXCEPT ![i] = "promote"]
           /\ backup' = [backup EXCEPT ![i] = destination] /\ destination' = nothing
           /\ destination # nothing /\ UNCHANGED retired
  <2>1. Kept' /\ WholeOrNothing'
    BY <1>0, <1>2 DEF Kept, WholeOrNothing, beingRemoved
  <2>2. backup[i] = nothing /\ backup'[i] = destination /\ where'[i] = "promote"
    BY <1>2 DEF Kept
  <2>3. OldIsKept'
    BY <1>0, <1>2, <2>2 DEF OldIsKept
  <2>4. Somewhere'
    BY <1>0, <1>2, <2>2 DEF Somewhere, WholeOrNothing
  <2> QED
    BY <2>1, <2>3, <2>4, <1>b, OtherStepsKeepExtracted
<1>3. CASE /\ where[i] = "promote" /\ where' = [where EXCEPT ![i] = "clean"]
           /\ destination = nothing /\ destination' = staging[i] /\ UNCHANGED <<backup, retired>>
  <2>1. destination' = bundle.content /\ bundle.content # nothing
    BY <1>3 DEF Extracted, BundleIsWhole
  <2>2. Kept' /\ WholeOrNothing' /\ OldIsKept' /\ Somewhere'
    BY <1>0, <1>3, <2>1 DEF Kept, WholeOrNothing, OldIsKept, Somewhere, beingRemoved
  <2> QED
    BY <2>2, <1>b, OtherStepsKeepExtracted
<1>4. CASE /\ where[i] = "rollback" /\ where' = [where EXCEPT ![i] = "failed"]
           /\ destination = nothing /\ destination' = backup[i] /\ backup[i] # nothing
           /\ backup' = [backup EXCEPT ![i] = nothing] /\ UNCHANGED retired
  <2>1. Kept' /\ WholeOrNothing' /\ Somewhere'
    BY <1>0, <1>4 DEF Kept, WholeOrNothing, Somewhere, beingRemoved
  <2>2. OldIsKept'
    BY <1>0, <1>4 DEF OldIsKept
  <2> QED
    BY <2>1, <2>2, <1>b, OtherStepsKeepExtracted
<1>5. ASSUME where[i] = "clean", where'[i] \in {"clean", "imported"}, NEW left \in {nothing, remains},
             backup' = [backup EXCEPT ![i] = left], UNCHANGED destination,
             \/ (backup[i] # nothing /\ retired' = retired \cup {i})
             \/ (backup[i] \in {nothing, remains} /\ left = nothing /\ UNCHANGED retired)
      PROVE  ImportInv'
  <2>1. backup'[i] = left
    BY <1>5
  <2>2. Kept' /\ WholeOrNothing'
    BY <1>0, <1>a, <1>5, <2>1 DEF Kept, WholeOrNothing, beingRemoved
  <2>3. OldIsKept'
    <3>1. CASE backup[i] # nothing /\ retired' = retired \cup {i}
      BY <1>0, <3>1 DEF OldIsKept, Kept
    <3>2. CASE backup[i] \in {nothing, remains} /\ UNCHANGED retired
      <4>1. before # nothing /\ backup[i] = before => backup[i] = remains
        BY <3>2
      <4>2. before # remains
        BY DEF Started
      <4> QED
        BY <1>0, <1>a, <1>5, <3>2, <4>1, <4>2 DEF OldIsKept
    <3> QED
      BY <1>5, <3>1, <3>2
  <2>4. Somewhere'
    BY <1>0, <1>a, <1>5 DEF Somewhere
  <2> QED
    BY <2>2, <2>3, <2>4, <1>b, OtherStepsKeepExtracted
<1>6. CASE StartImport(i) \/ Crash(i)
  <2>1. where'[i] \in {"extract", "failed", "crashed"}
    BY <1>6 DEF StartImport, Crash
  <2> QED
    BY <1>1, <1>6, <2>1 DEF StartImport, Crash
<1>7. CASE Swap(i)
  BY <1>1, <1>2, <1>7 DEF Swap, swapAllowed
<1>8. CASE Promote(i)
  BY <1>1, <1>3, <1>8 DEF Promote, mayRename
<1>9. CASE Rollback(i)
  BY <1>1, <1>4, <1>9 DEF Rollback, mayRename
<1>10. CASE Clean(i)
  BY <1>1, <1>5, <1>10 DEF Clean
<1> QED
  BY <1>6, <1>7, <1>8, <1>9, <1>10

LEMMA StepImport == ImportInv /\ [Next]_vars => ImportInv'
<1> SUFFICES ASSUME ImportInv, [Next]_vars PROVE ImportInv'
  OBVIOUS
<1>1. ExportInv'
  BY StepExport DEF ImportInv
<1>2. CASE Save \/ StartExport \/ List \/ Copy \/ Damage
  BY <1>1, <1>2, ExportStepKeepsImport
<1>3. ASSUME NEW i \in Importer, Extract(i) PROVE ImportInv'
  BY <1>1, <1>3, ExtractKeepsImport
<1>4. ASSUME NEW i \in Importer,
             StartImport(i) \/ Swap(i) \/ Promote(i) \/ Rollback(i) \/ Clean(i) \/ Crash(i)
      PROVE  ImportInv'
  BY <1>1, <1>4, OtherStepsKeepImport
<1>5. CASE UNCHANGED vars
  BY <1>1, <1>5 DEF vars, ImportInv, Started, BundleIsWhole, Extracted, Kept, WholeOrNothing,
                     OldIsKept, Somewhere, importing
<1> QED
  BY <1>2, <1>3, <1>4, <1>5 DEF Next

\* An import leaves all of the bundle or what was there; the old project is lost, or left
\* in part by a removal that failed or crashed, only to an importer that was told to
\* overwrite it and has put its own in place; and one whole project is always there, at
\* the destination or in a backup (importFromFile).
THEOREM ImportsAreWhole == Spec => []ImportIsWhole
<1>1. ASSUME ImportInv PROVE OneIsWhole
  BY <1>1 DEF ImportInv, OneIsWhole, Somewhere, WholeOrNothing
<1>2. ImportInv => ImportIsWhole
  BY <1>1 DEF ImportInv, ExportInv, Typed, ImportIsWhole
<1> QED
  BY <1>2, InitImport, StepImport, PTL DEF Spec

-----------------------------------------------------------------------------
LEMMA ConcatOfAppend ==
  ASSUME NEW S, NEW c \in Seq(S), NEW w \in Seq(S), NEW e \in S
  PROVE  c \o Append(w, e) = Append(c \o w, e)
<1>1. Append(w, e) = w \o <<e>> /\ Append(c \o w, e) = (c \o w) \o <<e>>
  BY AppendIsConcat, ConcatProperties
<1>2. <<e>> \in Seq(S)
  OBVIOUS
<1> QED
  BY <1>1, <1>2, ConcatAssociative

\* The last entry of a sequence replaced.
ReplaceLast(s, e) == [s EXCEPT ![Len(s)] = e]

LEMMA ConcatOfReplaced ==
  ASSUME NEW S, NEW c \in Seq(S), NEW w \in Seq(S), NEW e \in S, w # <<>>
  PROVE  c \o ReplaceLast(w, e) = ReplaceLast(c \o w, e)
<1>1. /\ ReplaceLast(w, e) \in Seq(S) /\ Len(ReplaceLast(w, e)) = Len(w) /\ Len(w) > 0
      /\ \A i \in 1 .. Len(w) : ReplaceLast(w, e)[i] = IF i = Len(w) THEN e ELSE w[i]
  BY ExceptSeq, EmptySeq, LenProperties DEF ReplaceLast
<1>2. c \o w \in Seq(S) /\ Len(c \o w) = Len(c) + Len(w) /\ Len(c) \in Nat /\ Len(w) \in Nat
  BY ConcatProperties, LenProperties
<1>3. /\ ReplaceLast(c \o w, e) \in Seq(S) /\ Len(ReplaceLast(c \o w, e)) = Len(c) + Len(w)
      /\ \A i \in 1 .. Len(c \o w) : ReplaceLast(c \o w, e)[i] = IF i = Len(c \o w) THEN e ELSE (c \o w)[i]
  <2> DEFINE cw == c \o w
  <2>1. cw \in Seq(S) /\ Len(cw) \in 1 .. Len(cw) /\ Len(cw) = Len(c) + Len(w)
    BY <1>1, <1>2
  <2> HIDE DEF cw
  <2>2. /\ ReplaceLast(cw, e) \in Seq(S) /\ Len(ReplaceLast(cw, e)) = Len(cw)
        /\ \A i \in 1 .. Len(cw) : ReplaceLast(cw, e)[i] = IF i = Len(cw) THEN e ELSE cw[i]
    BY <2>1, ExceptSeq, LenProperties DEF ReplaceLast
  <2> QED
    BY <2>1, <2>2 DEF cw
<1>4. /\ c \o ReplaceLast(w, e) \in Seq(S) /\ Len(c \o ReplaceLast(w, e)) = Len(c) + Len(w)
      /\ \A i \in 1 .. Len(c) + Len(w) :
           (c \o ReplaceLast(w, e))[i] = IF i <= Len(c) THEN c[i] ELSE ReplaceLast(w, e)[i - Len(c)]
  <2> DEFINE r == ReplaceLast(w, e)
  <2>1. r \in Seq(S) /\ Len(r) = Len(w)
    BY <1>1
  <2> HIDE DEF r
  <2>2. /\ c \o r \in Seq(S) /\ Len(c \o r) = Len(c) + Len(r)
        /\ \A i \in 1 .. Len(c) + Len(r) : (c \o r)[i] = IF i <= Len(c) THEN c[i] ELSE r[i - Len(c)]
    BY <2>1, ConcatProperties
  <2> QED
    BY <2>1, <2>2 DEF r
<1>5. \A i \in 1 .. Len(c) + Len(w) : (c \o w)[i] = IF i <= Len(c) THEN c[i] ELSE w[i - Len(c)]
  BY ConcatProperties
<1>6. ASSUME NEW i \in 1 .. Len(c) + Len(w)
      PROVE  (c \o ReplaceLast(w, e))[i] = ReplaceLast(c \o w, e)[i]
  <2>1. (c \o ReplaceLast(w, e))[i] = IF i <= Len(c) THEN c[i] ELSE ReplaceLast(w, e)[i - Len(c)]
    BY <1>4
  <2>2. ReplaceLast(c \o w, e)[i] = IF i = Len(c) + Len(w) THEN e ELSE (c \o w)[i]
    BY <1>2, <1>3
  <2>3. (c \o w)[i] = IF i <= Len(c) THEN c[i] ELSE w[i - Len(c)]
    BY <1>5
  <2>4. CASE i <= Len(c)
    BY <1>1, <1>2, <2>1, <2>2, <2>3, <2>4
  <2>5. CASE i > Len(c)
    <3>1. i - Len(c) \in 1 .. Len(w)
      BY <1>2, <2>5
    <3>2. ReplaceLast(w, e)[i - Len(c)] = IF i - Len(c) = Len(w) THEN e ELSE w[i - Len(c)]
      BY <1>1, <3>1
    <3> QED
      BY <1>2, <2>1, <2>2, <2>3, <2>5, <3>2
  <2>6. i \in Int /\ Len(c) \in Int
    BY <1>2
  <2>7. i <= Len(c) \/ i > Len(c)
    BY <2>6
  <2> QED
    BY <2>4, <2>5, <2>7
<1> QED
  BY <1>3, <1>4, <1>6, SeqEqual

LEMMA TailOfReplaced ==
  ASSUME NEW S, NEW s \in Seq(S), NEW e \in S, Len(s) > 1
  PROVE  Tail(s) # <<>> /\ Tail(ReplaceLast(s, e)) = ReplaceLast(Tail(s), e)
<1>1. Tail(s) \in Seq(S) /\ Len(Tail(s)) = Len(s) - 1 /\ Len(s) \in Nat /\ s # <<>>
  BY HeadTailProperties, LenProperties, EmptySeq
<1>2. /\ ReplaceLast(s, e) \in Seq(S) /\ Len(ReplaceLast(s, e)) = Len(s)
      /\ \A i \in 1 .. Len(s) : ReplaceLast(s, e)[i] = IF i = Len(s) THEN e ELSE s[i]
  BY <1>1, ExceptSeq, LenProperties DEF ReplaceLast
<1>3. /\ ReplaceLast(Tail(s), e) \in Seq(S) /\ Len(ReplaceLast(Tail(s), e)) = Len(s) - 1
      /\ \A i \in 1 .. Len(s) - 1 : ReplaceLast(Tail(s), e)[i] = IF i = Len(s) - 1 THEN e ELSE Tail(s)[i]
  <2> DEFINE t == Tail(s)
  <2>1. t \in Seq(S) /\ Len(t) \in 1 .. Len(t) /\ Len(t) = Len(s) - 1
    BY <1>1
  <2> HIDE DEF t
  <2>2. /\ ReplaceLast(t, e) \in Seq(S) /\ Len(ReplaceLast(t, e)) = Len(t)
        /\ \A i \in 1 .. Len(t) : ReplaceLast(t, e)[i] = IF i = Len(t) THEN e ELSE t[i]
    BY <2>1, ExceptSeq, LenProperties DEF ReplaceLast
  <2> QED
    BY <2>1, <2>2 DEF t
<1>4. /\ Tail(ReplaceLast(s, e)) \in Seq(S) /\ Len(Tail(ReplaceLast(s, e))) = Len(s) - 1
      /\ \A i \in 1 .. Len(s) - 1 : Tail(ReplaceLast(s, e))[i] = ReplaceLast(s, e)[i + 1]
  <2>1. ReplaceLast(s, e) # <<>>
    BY <1>1, <1>2, EmptySeq
  <2> QED
    BY <1>2, <2>1, HeadTailProperties
<1>5. \A i \in 1 .. Len(s) - 1 : Tail(s)[i] = s[i + 1]
  BY <1>1, HeadTailProperties
<1>6. ASSUME NEW i \in 1 .. Len(s) - 1
      PROVE  Tail(ReplaceLast(s, e))[i] = ReplaceLast(Tail(s), e)[i]
  <2>1. Tail(ReplaceLast(s, e))[i] = ReplaceLast(s, e)[i + 1]
    BY <1>4
  <2>2. i + 1 \in 1 .. Len(s)
    BY <1>1
  <2>3. ReplaceLast(s, e)[i + 1] = IF i + 1 = Len(s) THEN e ELSE s[i + 1]
    BY <1>2, <2>2
  <2>4. ReplaceLast(Tail(s), e)[i] = IF i = Len(s) - 1 THEN e ELSE s[i + 1]
    BY <1>3, <1>5
  <2>5. i + 1 = Len(s) <=> i = Len(s) - 1
    BY <1>1
  <2> QED
    BY <2>1, <2>3, <2>4, <2>5
<1>7. Tail(s) # <<>>
  <2> DEFINE t == Tail(s)
  <2>1. Len(t) > 0
    BY <1>1
  <2> HIDE DEF t
  <2>2. t # <<>>
    BY <2>1
  <2> QED
    BY <2>2 DEF t
<1> QED
  BY <1>3, <1>4, <1>6, <1>7, SeqEqual

\* What is committed leaves the queue and joins the line of commits.
LEMMA HeadCommitted ==
  ASSUME NEW S, NEW c \in Seq(S), NEW q \in Seq(S), c # <<>>, q # <<>>
  PROVE  Tail(Append(c, Head(q))) \o Tail(q) = Tail(c) \o q
<1>1. Head(q) \in S /\ Tail(q) \in Seq(S) /\ Tail(c) \in Seq(S) /\ q = <<Head(q)>> \o Tail(q)
  <2>1. Head(q) \in S /\ Tail(q) \in Seq(S) /\ Tail(c) \in Seq(S)
    BY HeadTailProperties
  <2> QED
    BY <2>1, HeadTailProperties, SeqEqual, ConcatProperties
<1>2. Tail(Append(c, Head(q))) = Tail(c) \o <<Head(q)>>
  BY <1>1, HeadTailAppend, HeadTailProperties, AppendIsConcat
<1>3. <<Head(q)>> \in Seq(S)
  BY <1>1
<1> DEFINE h == <<Head(q)>>
<1> HIDE DEF h
<1>4. (Tail(c) \o h) \o Tail(q) = Tail(c) \o (h \o Tail(q))
  BY <1>1, <1>3, ConcatAssociative DEF h
<1> QED
  BY <1>1, <1>2, <1>4 DEF h

\* The entries of a log that are no navigation are the changes, in their order.
Audited(log) == {i \in DOMAIN log : ~WS!isNavigation(log[i].message)}
Audit(log, done) ==
  \E place \in WS!inOrder(Audited(log), Len(done)) : \A k \in DOMAIN done : log[place[k]] = done[k]

LEMMA AuditAgrees ==
  ASSUME NEW log, NEW log2, NEW S, NEW done \in Seq(S), Audit(log, done),
         Audited(log2) = Audited(log), \A i \in Audited(log) : log2[i] = log[i]
  PROVE  Audit(log2, done)
<1>1. PICK place \in WS!inOrder(Audited(log), Len(done)) : \A k \in DOMAIN done : log[place[k]] = done[k]
  BY DEF Audit
<1>2. \A k \in DOMAIN done : place[k] \in Audited(log)
  BY DEF WS!inOrder
<1> QED
  BY <1>1, <1>2 DEF Audit

LEMMA AuditNavigation ==
  ASSUME NEW S, NEW log \in Seq(S), NEW done \in Seq(S), NEW e \in S, Audit(log, done),
         WS!isNavigation(e.message)
  PROVE  Audit(Append(log, e), done)
<1> DEFINE log2 == Append(log, e)
<1>1. /\ DOMAIN log = 1 .. Len(log) /\ DOMAIN log2 = 1 .. Len(log) + 1 /\ Len(log) \in Nat
      /\ log2[Len(log) + 1] = e /\ \A i \in 1 .. Len(log) : log2[i] = log[i]
  BY AppendProperties, LenProperties
<1> HIDE DEF log2
<1>2. Audited(log2) = Audited(log)
  BY <1>1 DEF Audited
<1>3. \A i \in Audited(log) : log2[i] = log[i]
  BY <1>1 DEF Audited
<1> QED
  BY <1>2, <1>3, AuditAgrees DEF log2

LEMMA AuditReplacement ==
  ASSUME NEW S, NEW log \in Seq(S), NEW done \in Seq(S), NEW e \in S, Audit(log, done),
         log # <<>>, WS!isNavigation(log[Len(log)].message), WS!isNavigation(e.message)
  PROVE  Audit(ReplaceLast(log, e), done)
<1> DEFINE log2 == ReplaceLast(log, e)
<1>1. /\ DOMAIN log = 1 .. Len(log) /\ DOMAIN log2 = 1 .. Len(log) /\ Len(log) \in Nat
      /\ \A i \in 1 .. Len(log) : log2[i] = IF i = Len(log) THEN e ELSE log[i]
  BY ExceptSeq, LenProperties, EmptySeq DEF ReplaceLast
<1> HIDE DEF log2
<1>2. Audited(log2) = Audited(log)
  BY <1>1 DEF Audited
<1>3. \A i \in Audited(log) : log2[i] = log[i]
  BY <1>1 DEF Audited
<1> QED
  BY <1>2, <1>3, AuditAgrees DEF log2

LEMMA AuditChange ==
  ASSUME NEW S, NEW log \in Seq(S), NEW done \in Seq(S), NEW e \in S, Audit(log, done),
         ~WS!isNavigation(e.message)
  PROVE  Audit(Append(log, e), Append(done, e))
<1> DEFINE log2 == Append(log, e)
           done2 == Append(done, e)
           n == Len(log) + 1
           m == Len(done) + 1
<1>1. /\ DOMAIN log = 1 .. Len(log) /\ DOMAIN log2 = 1 .. n /\ Len(log) \in Nat
      /\ log2[n] = e /\ \A i \in 1 .. Len(log) : log2[i] = log[i]
  BY AppendProperties, LenProperties
<1>2. /\ DOMAIN done = 1 .. Len(done) /\ DOMAIN done2 = 1 .. m /\ Len(done) \in Nat
      /\ Len(done2) = m
      /\ done2[m] = e /\ \A i \in 1 .. Len(done) : done2[i] = done[i]
  BY AppendProperties, LenProperties
<1> HIDE DEF log2, done2
<1>3. Audited(log2) = Audited(log) \cup {n}
  BY <1>1 DEF Audited
<1>4. Audited(log) \subseteq 1 .. Len(log)
  BY <1>1 DEF Audited
<1>5. PICK place \in WS!inOrder(Audited(log), Len(done)) : \A k \in DOMAIN done : log[place[k]] = done[k]
  BY DEF Audit
<1>6. /\ place \in [1 .. Len(done) -> Audited(log)]
      /\ \A j, k \in 1 .. Len(done) : j < k => place[j] < place[k]
      /\ \A i \in Audited(log) : \E k \in 1 .. Len(done) : place[k] = i
  BY <1>5 DEF WS!inOrder
<1> DEFINE place2 == [k \in 1 .. m |-> IF k = m THEN n ELSE place[k]]
<1>7. place2[m] = n /\ \A k \in 1 .. Len(done) : place2[k] = place[k]
  BY <1>2
<1>8. place2 \in [1 .. m -> Audited(log2)]
  BY <1>2, <1>3, <1>6
<1> HIDE DEF place2
<1>9. ASSUME NEW j \in 1 .. m, NEW k \in 1 .. m, j < k PROVE place2[j] < place2[k]
  <2>1. j \in 1 .. Len(done) /\ place2[j] = place[j]
    BY <1>2, <1>7, <1>9
  <2>2. CASE k = m
    <3>1. place[j] \in 1 .. Len(log)
      BY <2>1, <1>4, <1>6
    <3> QED
      BY <1>1, <1>7, <2>1, <2>2, <3>1
  <2>3. CASE k # m
    <3>1. k \in 1 .. Len(done) /\ place2[k] = place[k]
      BY <1>2, <1>7, <2>3
    <3> QED
      BY <1>6, <1>9, <2>1, <3>1
  <2> QED
    BY <2>2, <2>3
<1>10. ASSUME NEW i \in Audited(log2) PROVE \E k \in 1 .. m : place2[k] = i
  <2>1. CASE i = n
    BY <1>2, <1>7, <2>1
  <2>2. CASE i # n
    <3>1. PICK k \in 1 .. Len(done) : place[k] = i
      BY <1>3, <1>6, <2>2
    <3> QED
      BY <1>2, <1>7, <3>1
  <2> QED
    BY <2>1, <2>2
<1>11. place2 \in WS!inOrder(Audited(log2), Len(done2))
  BY <1>2, <1>8, <1>9, <1>10 DEF WS!inOrder
<1>12. ASSUME NEW k \in DOMAIN done2 PROVE log2[place2[k]] = done2[k]
  <2>1. CASE k = m
    BY <1>1, <1>2, <1>7, <2>1
  <2>2. CASE k # m
    <3>1. k \in 1 .. Len(done) /\ place2[k] = place[k] /\ done2[k] = done[k]
      BY <1>2, <1>7, <2>2
    <3>2. place[k] \in 1 .. Len(log)
      BY <1>4, <1>6, <3>1
    <3> QED
      BY <1>1, <1>2, <1>5, <3>1, <3>2
  <2> QED
    BY <2>1, <2>2
<1>13. Audit(log2, done2)
  BY <1>11, <1>12 DEF Audit
<1> QED
  BY <1>13 DEF log2, done2

\* At the start there is nothing to audit.
LEMMA AuditNothing == Audit(<<>>, <<>>)
<1> DEFINE place == [k \in 1 .. 0 |-> 0]
<1>1. Audited(<<>>) = {} /\ DOMAIN <<>> = {}
  BY DEF Audited
<1>2. place \in WS!inOrder(Audited(<<>>), Len(<<>>))
  BY <1>1 DEF WS!inOrder
<1> QED
  BY <1>1, <1>2 DEF Audit

Tab == [id : Nat, page : Pages, custom : BOOLEAN]
Layouts == [tabs : Seq(Tab), active : Nat]
Messages == {"none", "initialize", "open", "activate", "navigate", "close", "move", "style", "import", "imported"}
Entry == [message : Messages, layout : Layouts]
SaveSteps == {"idle", "write", "stage", "commit", "saved", "rollback", "failed"}
TabSave == [step : SaveSteps, save : Entry, previous : Layouts]
TabLoad == [generation : Nat, step : {"harden", "read", "loaded"}, layout : Layouts]

TabTypes ==
  /\ isOpen \in BOOLEAN /\ tabs \in Seq(Tab) /\ active \in Nat /\ pending \in Messages
  /\ queue \in Seq(Entry) /\ paused \in BOOLEAN /\ worker \in TabSave
  /\ disk \in Layouts /\ index \in Layouts /\ commits \in Seq(Entry) /\ commits # <<>>
  /\ loaders \subseteq TabLoad /\ generation \in Nat /\ nextId \in Nat
  /\ changes \in Seq(Entry) /\ imported \in Nat /\ edits \in Nat /\ failures \in Nat
  /\ unrestored \in BOOLEAN

\* There is an active tab, and no id is used twice.
Whole(t, a, n) ==
  /\ a \in DOMAIN t
  /\ \A i \in DOMAIN t : t[i].id < n
  /\ \A i, j \in DOMAIN t : t[i].id = t[j].id => i = j

WholeEverywhere ==
  /\ isOpen => Whole(tabs, active, nextId)
  /\ Whole(disk.tabs, disk.active, nextId)
  /\ \A i \in DOMAIN queue : Whole(queue[i].layout.tabs, queue[i].layout.active, nextId)
  /\ worker.step # "idle" => Whole(worker.save.layout.tabs, worker.save.layout.active, nextId)
  /\ worker.step \in {"stage", "commit", "saved", "rollback"} =>
       Whole(worker.previous.tabs, worker.previous.active, nextId)
  /\ \A l \in loaders : l.step = "loaded" => Whole(l.layout.tabs, l.layout.active, nextId)

\* The save at work is the head of the queue, and a paused queue has none.
HeadAtWork ==
  /\ worker.step # "idle" => queue # <<>> /\ worker.save = queue[1]
  /\ paused => worker.step = "idle"

\* Every load has a number of its own, and the tabs are open when the last load has come.
LoadsInOrder ==
  /\ \A l \in loaders : 1 <= l.generation /\ l.generation <= generation
  /\ \A l, m \in loaders : l.generation = m.generation => l = m
  /\ isOpen => \A l \in loaders : l.generation # generation
  /\ generation = 0 => isOpen

Committed == commits[Len(commits)]
Strip == WS!Layout(tabs, active)

\* Without a reload or an import, what is queued last, or else committed last, is the strip,
\* and each step of a save leaves the file, the index and the commits related.
InStep ==
  WS!undisturbed =>
    /\ pending = "none"
    /\ IF queue = <<>> THEN Committed.layout = Strip ELSE queue[Len(queue)].layout = Strip
    /\ queue = <<>> => unrestored = FALSE
    /\ worker.step \in {"idle", "write", "failed", "saved"} =>
         unrestored = TRUE \/ disk = Committed.layout
    /\ worker.step \in {"stage", "commit"} => disk = worker.save.layout
    /\ worker.step = "commit" => index = worker.save.layout
    /\ worker.step \in {"stage", "commit", "rollback"} =>
         unrestored = TRUE \/ worker.previous = Committed.layout
    /\ worker.step = "saved" => Committed = worker.save /\ unrestored = FALSE

Waiting == IF worker.step = "saved" THEN Tail(queue) ELSE queue
AllAudited == WS!undisturbed => Audit(Tail(commits) \o Waiting, changes)

TabsInv == TabTypes /\ WholeEverywhere /\ HeadAtWork /\ LoadsInOrder /\ InStep /\ AllAudited

-----------------------------------------------------------------------------
\* A larger bound of the ids changes nothing.
LEMMA WholeGrows ==
  ASSUME NEW t \in Seq(Tab), NEW a, NEW n \in Nat, NEW m \in Nat, n <= m, Whole(t, a, n)
  PROVE  Whole(t, a, m)
<1>1. \A i \in DOMAIN t : t[i].id \in Nat /\ t[i].id < n
  <2>1. \A i \in DOMAIN t : t[i] \in Tab
    BY ElementOfSeq, LenProperties
  <2> QED
    BY <2>1 DEF Whole, Tab
<1>2. \A i \in DOMAIN t : t[i].id < m
  BY <1>1
<1> QED
  BY <1>2 DEF Whole

\* A new tab has a new id.
LEMMA TabAppended ==
  ASSUME NEW t \in Seq(Tab), NEW a, NEW n \in Nat, NEW page \in Pages, Whole(t, a, n)
  PROVE  LET longer == Append(t, WS!makeTab(n, page))
         IN  /\ longer \in Seq(Tab) /\ Whole(longer, Len(t) + 1, n + 1) /\ Whole(longer, a, n + 1)
             /\ ~WS!IdsOf(longer) \subseteq WS!IdsOf(t)
<1> DEFINE e == WS!makeTab(n, page)
           longer == Append(t, e)
<1>1. e \in Tab /\ e.id = n
  BY DEF WS!makeTab, Tab
<1> HIDE DEF e
<1>2. /\ longer \in Seq(Tab) /\ Len(t) \in Nat /\ DOMAIN longer = 1 .. Len(t) + 1 /\ DOMAIN t = 1 .. Len(t)
      /\ longer[Len(t) + 1] = e /\ \A i \in 1 .. Len(t) : longer[i] = t[i]
  BY <1>1, AppendProperties, LenProperties
<1> HIDE DEF longer
<1>3. /\ a \in 1 .. Len(t)
      /\ \A i \in 1 .. Len(t) : t[i].id \in Nat /\ t[i].id < n
      /\ \A i, j \in 1 .. Len(t) : t[i].id = t[j].id => i = j
  <2>1. \A i \in 1 .. Len(t) : t[i] \in Tab
    BY ElementOfSeq
  <2>2. \A i \in 1 .. Len(t) : t[i].id \in Nat
    BY <2>1 DEF Tab
  <2> QED
    BY <1>2, <2>2 DEF Whole
<1>4. \A i \in 1 .. Len(t) + 1 : i \in 1 .. Len(t) \/ i = Len(t) + 1
  BY <1>2
<1>5. \A i \in 1 .. Len(t) + 1 : longer[i].id < n + 1
  BY <1>1, <1>2, <1>3, <1>4
<1>6. \A i, j \in 1 .. Len(t) + 1 : longer[i].id = longer[j].id => i = j
  BY <1>1, <1>2, <1>3, <1>4
<1>7. Whole(longer, Len(t) + 1, n + 1) /\ Whole(longer, a, n + 1)
  BY <1>2, <1>3, <1>5, <1>6 DEF Whole
<1>8. n \in WS!IdsOf(longer)
  BY <1>1, <1>2 DEF WS!IdsOf
<1>9. n \notin WS!IdsOf(t)
  BY <1>2, <1>3 DEF WS!IdsOf
<1> QED
  BY <1>2, <1>7, <1>8, <1>9 DEF longer, e

\* The place of the active tab in a rearranged strip.
LEMMA PositionFound ==
  ASSUME NEW t \in Seq(Tab), t # <<>>, NEW id
  PROVE  /\ WS!positionOf(t, id) \in DOMAIN t
         /\ id \in WS!IdsOf(t) => t[WS!positionOf(t, id)].id = id
<1>1. CASE id \in WS!IdsOf(t)
  <2>1. \E i \in DOMAIN t : t[i].id = id
    BY <1>1 DEF WS!IdsOf
  <2> QED
    BY <1>1, <2>1 DEF WS!positionOf
<1>2. CASE id \notin WS!IdsOf(t)
  <2>1. 1 \in DOMAIN t
    BY LenProperties, EmptySeq
  <2> QED
    BY <1>2, <2>1 DEF WS!positionOf
<1> QED
  BY <1>1, <1>2

\* Tabs of t, each at most once, and not none.
Picks(kept, t) ==
  /\ kept \in Seq(Tab) /\ kept # <<>>
  /\ \E from \in [DOMAIN kept -> DOMAIN t] :
       /\ \A j, k \in DOMAIN kept : from[j] = from[k] => j = k
       /\ \A k \in DOMAIN kept : kept[k] = t[from[k]]

LEMMA Rearranged ==
  ASSUME NEW t \in Seq(Tab), NEW a, NEW n \in Nat, Whole(t, a, n), NEW kept, Picks(kept, t),
         NEW p, p = WS!positionOf(kept, t[a].id)
  PROVE  /\ kept \in Seq(Tab) /\ p \in Nat /\ Whole(kept, p, n)
         /\ t[a].id \in WS!IdsOf(kept) => kept[p].id = t[a].id
<1>0. kept \in Seq(Tab) /\ kept # <<>>
  BY DEF Picks
<1>1. p \in DOMAIN kept
  BY <1>0, PositionFound
<1>2. PICK from \in [DOMAIN kept -> DOMAIN t] :
           /\ \A j, k \in DOMAIN kept : from[j] = from[k] => j = k
           /\ \A k \in DOMAIN kept : kept[k] = t[from[k]]
  BY DEF Picks
<1>3. \A k \in DOMAIN kept : from[k] \in DOMAIN t
  OBVIOUS
<1>4. Whole(kept, p, n)
  BY <1>1, <1>2, <1>3 DEF Whole
<1>5. DOMAIN kept \subseteq Nat
  BY <1>0, LenProperties
<1> QED
  BY <1>0, <1>1, <1>4, <1>5, PositionFound

\* A moved strip is a permutation of the strip.
LEMMA MovedIsPermuted ==
  ASSUME NEW t \in Seq(Tab), NEW i \in DOMAIN t, NEW j \in DOMAIN t
  PROVE  Picks(WS!InsertAt(WS!RemoveAt(t, i), j, t[i]), t)
<1> DEFINE n == Len(t)
           r == WS!RemoveAt(t, i)
           m == WS!InsertAt(r, j, t[i])
           left == SubSeq(t, 1, i - 1)
           after == SubSeq(t, i + 1, n)
<1>1. n \in Nat /\ DOMAIN t = 1 .. n /\ i \in 1 .. n /\ j \in 1 .. n /\ \A k \in 1 .. n : t[k] \in Tab
  BY LenProperties, ElementOfSeq
<1>2. /\ left \in Seq(Tab) /\ Len(left) = i - 1 /\ \A k \in 1 .. i - 1 : left[k] = t[k]
  <2>1. 1 \in Int /\ i - 1 \in Int /\ \A k \in 1 .. i - 1 : t[k] \in Tab
    BY <1>1
  <2>2. /\ left \in Seq(Tab) /\ Len(left) = (IF 1 <= i - 1 THEN (i - 1) - 1 + 1 ELSE 0)
        /\ \A k \in 1 .. (i - 1) - 1 + 1 : left[k] = t[1 + k - 1]
    BY <2>1, SubSeqProperties
  <2>3. Len(left) = i - 1
    BY <1>1, <2>2
  <2>4. ASSUME NEW k \in 1 .. i - 1 PROVE left[k] = t[k]
    <3>1. k \in 1 .. (i - 1) - 1 + 1 /\ 1 + k - 1 = k
      BY <1>1
    <3> QED
      BY <2>2, <3>1
  <2> QED
    BY <2>2, <2>3, <2>4
<1>3. /\ after \in Seq(Tab) /\ Len(after) = n - i /\ \A k \in 1 .. n - i : after[k] = t[i + k]
  <2>1. i + 1 \in Int /\ n \in Int /\ \A k \in i + 1 .. n : t[k] \in Tab
    BY <1>1
  <2>2. /\ after \in Seq(Tab) /\ Len(after) = (IF i + 1 <= n THEN n - (i + 1) + 1 ELSE 0)
        /\ \A k \in 1 .. n - (i + 1) + 1 : after[k] = t[(i + 1) + k - 1]
    BY <2>1, SubSeqProperties
  <2>3. Len(after) = n - i
    BY <1>1, <2>2
  <2>4. ASSUME NEW k \in 1 .. n - i PROVE after[k] = t[i + k]
    <3>1. k \in 1 .. n - (i + 1) + 1 /\ (i + 1) + k - 1 = i + k
      BY <1>1
    <3> QED
      BY <2>2, <3>1
  <2> QED
    BY <2>2, <2>3, <2>4
<1> HIDE DEF left, after
<1>4. r = left \o after
  BY DEF WS!RemoveAt, left, after
<1>5. /\ r \in Seq(Tab) /\ Len(r) = n - 1
      /\ \A k \in 1 .. n - 1 : r[k] = IF k < i THEN t[k] ELSE t[k + 1]
  <2>0. /\ r \in Seq(Tab) /\ Len(r) = Len(left) + Len(after)
        /\ \A k \in 1 .. Len(left) + Len(after) : r[k] = IF k <= Len(left) THEN left[k] ELSE after[k - Len(left)]
    <3> HIDE DEF r
    <3> QED
      BY <1>2, <1>3, <1>4, ConcatProperties
  <2>1. /\ r \in Seq(Tab) /\ Len(r) = (i - 1) + (n - i)
        /\ \A k \in 1 .. (i - 1) + (n - i) : r[k] = IF k <= i - 1 THEN left[k] ELSE after[k - (i - 1)]
    BY <1>2, <1>3, <2>0
  <2>2. (i - 1) + (n - i) = n - 1
    BY <1>1
  <2>3. ASSUME NEW k \in 1 .. n - 1 PROVE r[k] = IF k < i THEN t[k] ELSE t[k + 1]
    <3>1. r[k] = IF k <= i - 1 THEN left[k] ELSE after[k - (i - 1)]
      BY <2>1, <2>2
    <3>2. CASE k < i
      <4>1. k \in 1 .. i - 1 /\ k <= i - 1
        BY <1>1, <3>2
      <4> QED
        BY <1>2, <3>1, <3>2, <4>1
    <3>3. CASE ~(k < i)
      <4>1. k - (i - 1) \in 1 .. n - i /\ ~(k <= i - 1) /\ i + (k - (i - 1)) = k + 1
        BY <1>1, <3>3
      <4> QED
        BY <1>3, <3>1, <3>3, <4>1
    <3> QED
      BY <3>2, <3>3
  <2> QED
    BY <2>1, <2>2, <2>3
<1> HIDE DEF r
<1> DEFINE front == SubSeq(r, 1, j - 1)
           back == SubSeq(r, j, Len(r))
           one == <<t[i]>>
<1>6. /\ front \in Seq(Tab) /\ Len(front) = j - 1 /\ \A k \in 1 .. j - 1 : front[k] = r[k]
  <2>0. \A k \in 1 .. Len(r) : r[k] \in Tab
    BY <1>5, ElementOfSeq
  <2>1. 1 \in Int /\ j - 1 \in Int /\ \A k \in 1 .. j - 1 : r[k] \in Tab
    BY <1>1, <1>5, <2>0
  <2>2. /\ front \in Seq(Tab) /\ Len(front) = (IF 1 <= j - 1 THEN (j - 1) - 1 + 1 ELSE 0)
        /\ \A k \in 1 .. (j - 1) - 1 + 1 : front[k] = r[1 + k - 1]
    BY <2>1, SubSeqProperties
  <2>3. Len(front) = j - 1
    BY <1>1, <2>2
  <2>4. ASSUME NEW k \in 1 .. j - 1 PROVE front[k] = r[k]
    <3>1. k \in 1 .. (j - 1) - 1 + 1 /\ 1 + k - 1 = k
      BY <1>1
    <3> QED
      BY <2>2, <3>1
  <2> QED
    BY <2>2, <2>3, <2>4
<1>7. /\ back \in Seq(Tab) /\ Len(back) = n - j /\ \A k \in 1 .. n - j : back[k] = r[j + k - 1]
  <2>0. \A k \in 1 .. Len(r) : r[k] \in Tab
    BY <1>5, ElementOfSeq
  <2>1. j \in Int /\ Len(r) \in Int /\ \A k \in j .. Len(r) : r[k] \in Tab
    BY <1>1, <1>5, <2>0
  <2>2. /\ back \in Seq(Tab) /\ Len(back) = (IF j <= Len(r) THEN Len(r) - j + 1 ELSE 0)
        /\ \A k \in 1 .. Len(r) - j + 1 : back[k] = r[j + k - 1]
    BY <2>1, SubSeqProperties
  <2>3. Len(back) = n - j /\ Len(r) - j + 1 = n - j
    BY <1>1, <1>5, <2>2
  <2> QED
    BY <2>2, <2>3
<1>8. one \in Seq(Tab) /\ Len(one) = 1 /\ one[1] = t[i]
  BY <1>1
<1> HIDE DEF front, back, one
<1>9. m = (front \o one) \o back
  BY DEF WS!InsertAt, front, back, one
<1>10. /\ m \in Seq(Tab) /\ Len(m) = n
       /\ \A k \in 1 .. n : m[k] = IF k < j THEN r[k] ELSE IF k = j THEN t[i] ELSE r[k - 1]
  <2> DEFINE fo == front \o one
  <2>0. /\ fo \in Seq(Tab) /\ Len(fo) = Len(front) + Len(one)
        /\ \A k \in 1 .. Len(front) + Len(one) : fo[k] = IF k <= Len(front) THEN front[k] ELSE one[k - Len(front)]
    BY <1>6, <1>8, ConcatProperties
  <2> HIDE DEF fo
  <2>1. /\ fo \in Seq(Tab) /\ Len(fo) = (j - 1) + 1
        /\ \A k \in 1 .. (j - 1) + 1 : fo[k] = IF k <= j - 1 THEN front[k] ELSE one[k - (j - 1)]
    BY <1>6, <1>8, <2>0
  <2>2. Len(fo) = j
    BY <1>1, <2>1
  <2>6. m = fo \o back
    BY <1>9 DEF fo
  <2>7. /\ m \in Seq(Tab) /\ Len(m) = Len(fo) + Len(back)
        /\ \A k \in 1 .. Len(fo) + Len(back) : m[k] = IF k <= Len(fo) THEN fo[k] ELSE back[k - Len(fo)]
    <3> HIDE DEF m
    <3> QED
      BY <1>7, <2>1, <2>6, ConcatProperties
  <2>3. /\ m \in Seq(Tab) /\ Len(m) = j + (n - j)
        /\ \A k \in 1 .. j + (n - j) : m[k] = IF k <= j THEN fo[k] ELSE back[k - j]
    BY <1>7, <2>2, <2>7
  <2>4. j + (n - j) = n
    BY <1>1
  <2>5. ASSUME NEW k \in 1 .. n PROVE m[k] = IF k < j THEN r[k] ELSE IF k = j THEN t[i] ELSE r[k - 1]
    <3>1. m[k] = IF k <= j THEN fo[k] ELSE back[k - j]
      BY <2>3, <2>4
    <3>2. CASE k < j
      <4>1. k \in 1 .. (j - 1) + 1 /\ k <= j - 1 /\ k \in 1 .. j - 1 /\ k <= j
        BY <1>1, <3>2
      <4> QED
        BY <1>6, <2>1, <3>1, <3>2, <4>1
    <3>3. CASE k = j
      <4>1. k \in 1 .. (j - 1) + 1 /\ ~(k <= j - 1) /\ k - (j - 1) = 1 /\ k <= j
        BY <1>1, <3>3
      <4> QED
        BY <1>1, <1>8, <2>1, <3>1, <3>3, <4>1
    <3>4. CASE k > j
      <4>1. k - j \in 1 .. n - j /\ ~(k <= j) /\ j + (k - j) - 1 = k - 1 /\ ~(k < j) /\ k # j
        BY <1>1, <3>4
      <4> QED
        BY <1>7, <3>1, <3>4, <4>1
    <3>5. k < j \/ k = j \/ k > j
      BY <1>1
    <3> QED
      BY <3>2, <3>3, <3>4, <3>5
  <2> QED
    BY <2>3, <2>4, <2>5
<1> HIDE DEF m
<1> DEFINE at == [k \in 1 .. n |->
             LET p == IF k > j THEN k - 1 ELSE k IN IF k = j THEN i ELSE IF p < i THEN p ELSE p + 1]
<1>11. DOMAIN m = 1 .. n
  BY <1>10, LenProperties
<1>12. \A k \in 1 .. n : /\ k < j => at[k] = IF k < i THEN k ELSE k + 1
                         /\ k = j => at[k] = i
                         /\ k > j => at[k] = IF k - 1 < i THEN k - 1 ELSE k
  BY <1>1
<1> HIDE DEF at
<1>13. \A k \in 1 .. n : at[k] \in 1 .. n
  BY <1>1, <1>12
<1>14. ASSUME NEW k \in 1 .. n, NEW l \in 1 .. n, at[k] = at[l] PROVE k = l
  BY <1>1, <1>12, <1>14
<1>15. ASSUME NEW k \in 1 .. n PROVE m[k] = t[at[k]]
  <2>1. CASE k < j
    <3>1. m[k] = r[k] /\ k \in 1 .. n - 1
      BY <1>1, <1>10, <2>1
    <3> QED
      BY <1>1, <1>5, <1>12, <2>1, <3>1
  <2>2. CASE k = j
    BY <1>1, <1>10, <1>12, <2>2
  <2>3. CASE k > j
    <3>1. m[k] = r[k - 1] /\ k - 1 \in 1 .. n - 1
      BY <1>1, <1>10, <2>3
    <3>2. r[k - 1] = IF k - 1 < i THEN t[k - 1] ELSE t[(k - 1) + 1]
      BY <1>5, <3>1
    <3> QED
      BY <1>1, <1>12, <2>3, <3>1, <3>2
  <2>4. k < j \/ k = j \/ k > j
    BY <1>1
  <2> QED
    BY <2>1, <2>2, <2>3, <2>4
<1>16. at \in [1 .. n -> 1 .. n]
  BY <1>13 DEF at
<1>17. m # <<>>
  BY <1>1, <1>10
<1>18. /\ at \in [DOMAIN m -> DOMAIN t] /\ \A k \in DOMAIN m : m[k] = t[at[k]]
       /\ \A k, l \in DOMAIN m : at[k] = at[l] => k = l
  <2>1. DOMAIN m = 1 .. n /\ DOMAIN t = 1 .. n
    BY <1>1, <1>11
  <2> HIDE DEF n
  <2> QED
    BY <2>1, <1>14, <1>15, <1>16
<1>19. Picks(m, t)
  BY <1>10, <1>17, <1>18 DEF Picks
<1> QED
  BY <1>19 DEF m, r

-----------------------------------------------------------------------------
\* What every operation on the strip is: a whole strip, with a message when it changed.
Stays(t, a) ==
  t # tabs /\ WS!IdsOf(t) \subseteq WS!IdsOf(tabs) /\ tabs[active].id \in WS!IdsOf(t)
  => t[a].id = tabs[active].id

Change(t, a, message) ==
  /\ WS!changeTo(t, a, message)
  /\ t \in Seq(Tab) /\ message \in Messages \ {"import"}
  /\ nextId' \in Nat /\ nextId <= nextId'
  /\ Whole(t, a, nextId')
  /\ message = "none" => t = tabs /\ a = active
  /\ Stays(t, a)

\* What the operations work on.
LEMMA OpenStrip ==
  ASSUME TabTypes, WholeEverywhere, isOpen
  PROVE  /\ tabs \in Seq(Tab) /\ active \in Nat /\ nextId \in Nat /\ Whole(tabs, active, nextId)
         /\ active \in DOMAIN tabs /\ DOMAIN tabs \subseteq Nat /\ \A i \in DOMAIN tabs : tabs[i] \in Tab
<1>1. tabs \in Seq(Tab) /\ active \in Nat /\ nextId \in Nat /\ Whole(tabs, active, nextId)
  BY DEF TabTypes, WholeEverywhere
<1>2. DOMAIN tabs \subseteq Nat /\ \A i \in DOMAIN tabs : tabs[i] \in Tab
  BY <1>1, ElementOfSeq, LenProperties
<1> QED
  BY <1>1, <1>2 DEF Whole

LEMMA OpenNewTabChanges ==
  ASSUME TabTypes, WholeEverywhere, NEW page \in Pages, WS!openNewTab(page)
  PROVE  \E t, a, message : Change(t, a, message)
<1>1. isOpen /\ nextId' = nextId + 1
  BY DEF WS!openNewTab, WS!changeTo
<1> DEFINE t == Append(tabs, WS!makeTab(nextId, page))
<1>2. WS!changeTo(t, Len(tabs) + 1, "open")
  BY DEF WS!openNewTab
<1>3. /\ t \in Seq(Tab) /\ Whole(t, Len(tabs) + 1, nextId + 1) /\ ~WS!IdsOf(t) \subseteq WS!IdsOf(tabs)
  BY <1>1, OpenStrip, TabAppended
<1> HIDE DEF t
<1>4. Stays(t, Len(tabs) + 1)
  BY <1>3 DEF Stays
<1>5. nextId \in Nat
  BY DEF TabTypes
<1>6. Change(t, Len(tabs) + 1, "open")
  BY <1>1, <1>2, <1>3, <1>4, <1>5 DEF Change, Messages
<1> QED
  BY <1>6

LEMMA ActivateChanges ==
  ASSUME TabTypes, WholeEverywhere, NEW i \in DOMAIN tabs, WS!activate(i)
  PROVE  \E t, a, message : Change(t, a, message)
<1> DEFINE message == IF i = active THEN "none" ELSE "activate"
<1>1. isOpen /\ nextId' = nextId /\ WS!changeTo(tabs, i, message)
  BY DEF WS!activate, WS!changeTo
<1>2. /\ tabs \in Seq(Tab) /\ Whole(tabs, active, nextId) /\ nextId \in Nat
  BY <1>1, OpenStrip
<1>3. Whole(tabs, i, nextId) /\ Stays(tabs, i)
  BY <1>2 DEF Whole, Stays
<1>4. message \in Messages \ {"import"} /\ (message = "none" => i = active)
  BY DEF Messages
<1> HIDE DEF message
<1>5. Change(tabs, i, message)
  BY <1>1, <1>2, <1>3, <1>4 DEF Change
<1> QED
  BY <1>5

\* A change of one tab that keeps its id.
LEMMA TabEdited ==
  ASSUME TabTypes, WholeEverywhere, isOpen, NEW i \in DOMAIN tabs, NEW e \in Tab, e.id = tabs[i].id
  PROVE  LET t == [tabs EXCEPT ![i] = e]
         IN  t \in Seq(Tab) /\ Whole(t, active, nextId) /\ Stays(t, active)
<1> DEFINE t == [tabs EXCEPT ![i] = e]
<1>1. /\ tabs \in Seq(Tab) /\ active \in Nat /\ nextId \in Nat /\ Whole(tabs, active, nextId)
      /\ active \in DOMAIN tabs
  BY OpenStrip
<1>2. /\ t \in Seq(Tab) /\ DOMAIN t = DOMAIN tabs
      /\ \A j \in DOMAIN tabs : t[j] = IF j = i THEN e ELSE tabs[j]
  BY <1>1, ExceptSeq, LenProperties
<1> HIDE DEF t
<1>3. \A j \in DOMAIN tabs : t[j].id = tabs[j].id
  BY <1>2
<1> QED
  BY <1>1, <1>2, <1>3 DEF Whole, Stays, t

LEMMA NavigateChanges ==
  ASSUME TabTypes, WholeEverywhere, NEW page \in Pages, WS!navigateActiveTab(page)
  PROVE  \E t, a, message : Change(t, a, message)
<1> DEFINE message == IF tabs[active].page = page THEN "none" ELSE "navigate"
           e == [tabs[active] EXCEPT !.page = page]
           t == [tabs EXCEPT ![active].page = page]
<1>1. isOpen /\ nextId' = nextId /\ WS!changeTo(t, active, message)
  BY DEF WS!navigateActiveTab, WS!changeTo
<1>2. /\ tabs \in Seq(Tab) /\ active \in DOMAIN tabs /\ tabs[active] \in Tab /\ nextId \in Nat
  BY <1>1, OpenStrip
<1>3. e \in Tab /\ e.id = tabs[active].id
  BY <1>2 DEF Tab
<1>4. t = [tabs EXCEPT ![active] = e]
  OBVIOUS
<1>5. t \in Seq(Tab) /\ Whole(t, active, nextId) /\ Stays(t, active)
  <2> HIDE DEF e, t
  <2> QED
    BY <1>1, <1>2, <1>3, <1>4, TabEdited
<1>6. message = "none" => t = tabs
  <2>1. message = "none" => e = tabs[active]
    BY <1>2 DEF Tab
  <2> HIDE DEF e, t, message
  <2>2. \A j \in DOMAIN tabs : [tabs EXCEPT ![active] = tabs[active]][j] = tabs[j]
    BY <1>2
  <2>3. [tabs EXCEPT ![active] = tabs[active]] = tabs
    BY <1>2, ElementOfSeq
  <2> QED
    BY <1>4, <2>1, <2>3
<1>7. message \in Messages \ {"import"}
  BY DEF Messages
<1> HIDE DEF message, t
<1>8. Change(t, active, message)
  BY <1>1, <1>2, <1>5, <1>6, <1>7 DEF Change
<1> QED
  BY <1>8

LEMMA CloseChanges ==
  ASSUME TabTypes, WholeEverywhere, NEW i \in DOMAIN tabs, WS!close(i)
  PROVE  \E t, a, message : Change(t, a, message)
<1>1. isOpen /\ nextId' = nextId /\ WS!changeTo(tabs, active, "close")
  BY DEF WS!close, WS!changeTo
<1>2. tabs \in Seq(Tab) /\ Whole(tabs, active, nextId) /\ nextId \in Nat
  BY <1>1, OpenStrip
<1>3. Stays(tabs, active)
  BY DEF Stays
<1>4. Change(tabs, active, "close")
  BY <1>1, <1>2, <1>3 DEF Change, Messages
<1> QED
  BY <1>4

LEMMA UpdateChanges ==
  ASSUME TabTypes, WholeEverywhere, NEW i \in DOMAIN tabs, WS!update(i)
  PROVE  \E t, a, message : Change(t, a, message)
<1> DEFINE e == [tabs[i] EXCEPT !.custom = TRUE]
           t == [tabs EXCEPT ![i].custom = TRUE]
<1>1. isOpen /\ nextId' = nextId /\ WS!changeTo(t, active, "style")
  BY DEF WS!update, WS!changeTo
<1>2. tabs[i] \in Tab /\ nextId \in Nat
  BY <1>1, OpenStrip
<1>3. e \in Tab /\ e.id = tabs[i].id
  BY <1>2 DEF Tab
<1>4. t = [tabs EXCEPT ![i] = e]
  OBVIOUS
<1> HIDE DEF e, t
<1>5. t \in Seq(Tab) /\ Whole(t, active, nextId) /\ Stays(t, active)
  BY <1>1, <1>3, <1>4, TabEdited
<1>6. Change(t, active, "style")
  BY <1>1, <1>2, <1>5 DEF Change, Messages
<1> QED
  BY <1>6

LEMMA CloseManyChanges ==
  ASSUME TabTypes, WholeEverywhere, NEW indices \in SUBSET DOMAIN tabs, WS!closeMany(indices)
  PROVE  \E t, a, message : Change(t, a, message)
<1> DEFINE rest == DOMAIN tabs \ indices
<1>0. PICK left \in 1 .. Len(tabs) : \E place \in WS!inOrder(rest, left) :
        LET kept == [k \in 1 .. left |-> tabs[place[k]]]
        IN  WS!changeTo(kept, WS!positionOf(kept, tabs[active].id), "close")
  BY DEF WS!closeMany
<1>1. PICK place \in WS!inOrder(rest, left) :
        LET kept == [k \in 1 .. left |-> tabs[place[k]]]
        IN  WS!changeTo(kept, WS!positionOf(kept, tabs[active].id), "close")
  BY <1>0
<1> DEFINE kept == [k \in 1 .. left |-> tabs[place[k]]]
           p == WS!positionOf(kept, tabs[active].id)
<1>2. isOpen /\ nextId' = nextId /\ WS!changeTo(kept, p, "close")
  BY <1>1 DEF WS!closeMany, WS!changeTo
<1>3. /\ tabs \in Seq(Tab) /\ nextId \in Nat /\ Whole(tabs, active, nextId)
      /\ DOMAIN tabs \subseteq Nat /\ \A i \in DOMAIN tabs : tabs[i] \in Tab
  BY <1>2, OpenStrip
<1>4. /\ left \in Nat /\ left >= 1 /\ place \in [1 .. left -> DOMAIN tabs]
      /\ \A j, k \in 1 .. left : j < k => place[j] < place[k]
  BY <1>1, <1>3 DEF WS!inOrder
<1>5. /\ kept \in Seq(Tab) /\ DOMAIN kept = 1 .. left /\ kept # <<>>
      /\ \A k \in DOMAIN kept : kept[k] = tabs[place[k]]
  <2>1. kept \in [1 .. left -> Tab]
    BY <1>3, <1>4
  <2>2. kept \in Seq(Tab)
    BY <1>4, <2>1, SeqDef
  <2> QED
    BY <1>4, <2>1, <2>2
<1> HIDE DEF kept
<1>6. \A j, k \in DOMAIN kept : place[j] = place[k] => j = k
  <2>1. SUFFICES ASSUME NEW j \in 1 .. left, NEW k \in 1 .. left, place[j] = place[k] PROVE j = k
    BY <1>5
  <2>2. place[j] \in Nat /\ place[k] \in Nat
    BY <1>3, <1>4
  <2> QED
    BY <1>4, <2>1, <2>2
<1>7. Picks(kept, tabs)
  BY <1>4, <1>5, <1>6 DEF Picks
<1>8. /\ p \in Nat /\ Whole(kept, p, nextId)
      /\ tabs[active].id \in WS!IdsOf(kept) => kept[p].id = tabs[active].id
  BY <1>3, <1>7, Rearranged
<1> HIDE DEF p
<1>10. Stays(kept, p)
  BY <1>8 DEF Stays
<1>9. Change(kept, p, "close")
  BY <1>2, <1>3, <1>5, <1>8, <1>10 DEF Change, Messages
<1> QED
  BY <1>9

LEMMA MoveChanges ==
  ASSUME TabTypes, WholeEverywhere, NEW i \in DOMAIN tabs, NEW j \in DOMAIN tabs, WS!move(i, j)
  PROVE  \E t, a, message : Change(t, a, message)
<1>1. isOpen /\ nextId' = nextId
  BY DEF WS!move, WS!changeTo
<1>2. /\ tabs \in Seq(Tab) /\ nextId \in Nat /\ Whole(tabs, active, nextId)
  BY <1>1, OpenStrip
<1>3. CASE i = j
  <2>1. WS!changeTo(tabs, active, "none")
    BY <1>3 DEF WS!move
  <2>2. Stays(tabs, active)
    BY DEF Stays
  <2>3. Change(tabs, active, "none")
    BY <1>1, <1>2, <2>1, <2>2 DEF Change, Messages
  <2> QED
    BY <2>3
<1>4. CASE i # j
  <2> DEFINE m == WS!moved(i, j)
             p == WS!positionOf(m, tabs[active].id)
  <2>1. WS!changeTo(m, p, "move")
    BY <1>4 DEF WS!move
  <2>2. m = WS!InsertAt(WS!RemoveAt(tabs, i), j, tabs[i])
    BY DEF WS!moved
  <2> HIDE DEF m
  <2>3. Picks(m, tabs)
    BY <1>2, <2>2, MovedIsPermuted
  <2>5. /\ m \in Seq(Tab) /\ p \in Nat /\ Whole(m, p, nextId)
        /\ tabs[active].id \in WS!IdsOf(m) => m[p].id = tabs[active].id
    BY <1>2, <2>3, Rearranged
  <2> HIDE DEF p
  <2>6. Stays(m, p)
    BY <2>5 DEF Stays
  <2>7. Change(m, p, "move")
    BY <1>1, <1>2, <2>1, <2>5, <2>6 DEF Change, Messages
  <2> QED
    BY <2>7
<1> QED
  BY <1>3, <1>4

LEMMA OpenPageChanges ==
  ASSUME TabTypes, WholeEverywhere, NEW page \in Pages, WS!openPage(page)
  PROVE  \E t, a, message : Change(t, a, message)
<1>1. CASE \E i \in WS!PositionsOf(page) : WS!activate(i)
  BY <1>1, ActivateChanges DEF WS!PositionsOf
<1>2. CASE WS!openNewTab(page)
  BY <1>2, OpenNewTabChanges
<1> QED
  BY <1>1, <1>2 DEF WS!openPage

-----------------------------------------------------------------------------
\* What queueing a snapshot does to the queue.
LEMMA Enqueued ==
  ASSUME queue \in Seq(Entry), NEW e \in Entry, NEW q, q = WS!enqueued(queue, e)
  PROVE  /\ q \in Seq(Entry) /\ q # <<>> /\ q[Len(q)] = e
         /\ \A i \in DOMAIN q : q[i] = e \/ (i \in DOMAIN queue /\ q[i] = queue[i])
         /\ worker.step # "idle" /\ queue # <<>> => q[1] = queue[1]
         /\ \/ q = Append(queue, e)
            \/ /\ q = ReplaceLast(queue, e) /\ queue # <<>>
               /\ WS!isNavigation(e.message) /\ WS!isNavigation(queue[Len(queue)].message)
               /\ worker.step # "idle" => Len(queue) > 1
<1>0. Len(queue) \in Nat /\ DOMAIN queue = 1 .. Len(queue)
  BY LenProperties
<1>1. CASE q = Append(queue, e)
  <2>1. /\ q \in Seq(Entry) /\ q # <<>> /\ Len(q) = Len(queue) + 1 /\ DOMAIN q = 1 .. Len(q)
        /\ q[Len(q)] = e /\ \A i \in 1 .. Len(queue) : q[i] = queue[i]
    BY <1>1, AppendProperties, LenProperties
  <2>2. \A i \in DOMAIN q : i \in 1 .. Len(queue) \/ i = Len(q)
    BY <1>0, <2>1
  <2>3. queue # <<>> => 1 \in 1 .. Len(queue)
    BY <1>0
  <2> QED
    BY <1>0, <1>1, <2>1, <2>2, <2>3
<1>2. CASE /\ q = ReplaceLast(queue, e)
           /\ WS!isNavigation(e.message) /\ Len(queue) > WS!replaceableStart
           /\ WS!isNavigation(queue[Len(queue)].message)
  <2>1. Len(queue) > 0 /\ (worker.step # "idle" => Len(queue) > 1)
    BY <1>0, <1>2 DEF WS!replaceableStart, WS!busy
  <2>2. /\ q \in Seq(Entry) /\ Len(q) = Len(queue) /\ DOMAIN q = 1 .. Len(q)
        /\ \A i \in 1 .. Len(queue) : q[i] = IF i = Len(queue) THEN e ELSE queue[i]
    BY <1>0, <1>2, <2>1, ExceptSeq, LenProperties DEF ReplaceLast
  <2>3. Len(queue) \in 1 .. Len(queue) /\ 1 \in 1 .. Len(queue)
    BY <1>0, <2>1
  <2>5. q # <<>>
    <3>1. Len(q) > 0
      BY <2>1, <2>2
    <3> QED
      BY <3>1
  <2>6. queue # <<>>
    BY <2>1
  <2>4. worker.step # "idle" => q[1] = queue[1]
    <3>1. q[1] = IF 1 = Len(queue) THEN e ELSE queue[1]
      BY <2>2, <2>3
    <3>2. worker.step # "idle" => 1 # Len(queue)
      BY <1>0, <2>1
    <3> QED
      BY <3>1, <3>2
  <2> QED
    BY <1>0, <1>2, <2>1, <2>2, <2>3, <2>4, <2>5, <2>6
<1> QED
  BY <1>1, <1>2 DEF WS!enqueued, WS!Last, ReplaceLast

\* The queue's worker starts with the head of the queue.
LEMMA Begun ==
  ASSUME NEW q \in Seq(Entry), q # <<>>, NEW halted \in BOOLEAN, worker \in TabSave,
         NEW w, w = WS!begun(q, halted)
  PROVE  /\ w \in TabSave
         /\ worker.step # "idle" \/ halted => w = worker
         /\ worker.step = "idle" /\ ~halted => w.step = "write" /\ w.save = q[1]
<1>1. CASE worker.step # "idle" \/ halted
  BY <1>1 DEF WS!begun, WS!busy
<1>2. CASE worker.step = "idle" /\ ~halted
  <2>1. w = [WS!IdleWorker EXCEPT !.step = "write", !.save = Head(q)]
    BY <1>2 DEF WS!begun, WS!busy
  <2>2. Head(q) \in Entry /\ Head(q) = q[1]
    BY HeadTailProperties
  <2>3. w = [step |-> "write", save |-> Head(q), previous |-> WS!Missing]
    BY <2>1 DEF WS!IdleWorker
  <2>4. WS!Missing \in Layouts
    BY DEF WS!Missing, WS!Layout, Layouts
  <2> QED
    BY <1>2, <2>2, <2>3, <2>4 DEF TabSave, SaveSteps
<1> QED
  BY <1>1, <1>2

\* What is whole stays so when more ids are given out.
LEMMA WholeLater ==
  ASSUME NEW l \in Layouts, NEW n \in Nat, NEW m \in Nat, n <= m, Whole(l.tabs, l.active, n)
  PROVE  Whole(l.tabs, l.active, m)
<1>1. l.tabs \in Seq(Tab)
  BY DEF Layouts
<1> QED
  BY <1>1, WholeGrows

LEMMA AllWholeLater ==
  ASSUME TabTypes, WholeEverywhere, NEW m \in Nat, nextId <= m
  PROVE  /\ isOpen => Whole(tabs, active, m)
         /\ Whole(disk.tabs, disk.active, m)
         /\ \A i \in DOMAIN queue : Whole(queue[i].layout.tabs, queue[i].layout.active, m)
         /\ worker.step # "idle" => Whole(worker.save.layout.tabs, worker.save.layout.active, m)
         /\ worker.step \in {"stage", "commit", "saved", "rollback"} =>
              Whole(worker.previous.tabs, worker.previous.active, m)
         /\ \A l \in loaders : l.step = "loaded" => Whole(l.layout.tabs, l.layout.active, m)
<1>1. nextId \in Nat /\ disk \in Layouts /\ tabs \in Seq(Tab)
  BY DEF TabTypes
<1>2. isOpen => Whole(tabs, active, m)
  BY <1>1, WholeGrows DEF WholeEverywhere
<1>3. Whole(disk.tabs, disk.active, m)
  BY <1>1, WholeLater DEF WholeEverywhere
<1>4. ASSUME NEW i \in DOMAIN queue PROVE Whole(queue[i].layout.tabs, queue[i].layout.active, m)
  <2>1. queue[i].layout \in Layouts
    <3>1. queue[i] \in Entry
      BY ElementOfSeq, LenProperties DEF TabTypes
    <3> QED
      BY <3>1 DEF Entry
  <2> QED
    BY <1>1, <2>1, WholeLater DEF WholeEverywhere
<1>5. worker.save.layout \in Layouts /\ worker.previous \in Layouts
  BY DEF TabTypes, TabSave, Entry
<1>6. worker.step # "idle" => Whole(worker.save.layout.tabs, worker.save.layout.active, m)
  BY <1>1, <1>5, WholeLater DEF WholeEverywhere
<1>7. worker.step \in {"stage", "commit", "saved", "rollback"} =>
        Whole(worker.previous.tabs, worker.previous.active, m)
  BY <1>1, <1>5, WholeLater DEF WholeEverywhere
<1>8. ASSUME NEW l \in loaders, l.step = "loaded" PROVE Whole(l.layout.tabs, l.layout.active, m)
  <2>1. l.layout \in Layouts
    BY DEF TabTypes, TabLoad
  <2> QED
    BY <1>1, <1>8, <2>1, WholeLater DEF WholeEverywhere
<1> QED
  BY <1>2, <1>3, <1>4, <1>6, <1>7, <1>8

\* The audit after a change: the changed log and the recorded changes.
LEMMA AuditOfChange ==
  ASSUME TabTypes, HeadAtWork, AllAudited, WS!undisturbed, NEW e \in Entry, NEW q, q = WS!enqueued(queue, e),
         NEW done, done = IF WS!isNavigation(e.message) THEN changes ELSE Append(changes, e),
         NEW waiting, waiting = IF worker.step = "saved" THEN Tail(q) ELSE q
  PROVE  Audit(Tail(commits) \o waiting, done)
<1> DEFINE c == Tail(commits)
           log == c \o Waiting
<1>1. /\ queue \in Seq(Entry) /\ changes \in Seq(Entry) /\ c \in Seq(Entry)
      /\ worker.step = "saved" => queue # <<>>
      /\ Audit(log, changes)
  BY HeadTailProperties DEF TabTypes, HeadAtWork, AllAudited
<1>2. Waiting \in Seq(Entry)
  BY <1>1, HeadTailProperties DEF Waiting
<1>3. log \in Seq(Entry)
  BY <1>1, <1>2, ConcatProperties
<1> HIDE DEF c
<1>4. CASE q = Append(queue, e)
  <2>1. waiting = Append(Waiting, e)
    BY <1>1, <1>4, HeadTailAppend DEF Waiting
  <2>2. c \o waiting = Append(log, e)
    <3>1. c \o Append(Waiting, e) = Append(c \o Waiting, e)
      BY <1>1, <1>2, ConcatOfAppend
    <3> QED
      BY <2>1, <3>1
  <2> HIDE DEF log
  <2>3. CASE WS!isNavigation(e.message)
    BY <1>1, <1>3, <2>2, <2>3, AuditNavigation DEF c
  <2>4. CASE ~WS!isNavigation(e.message)
    BY <1>1, <1>3, <2>2, <2>4, AuditChange DEF c
  <2> QED
    BY <2>3, <2>4
<1>5. CASE /\ q = ReplaceLast(queue, e) /\ queue # <<>>
           /\ WS!isNavigation(e.message) /\ WS!isNavigation(queue[Len(queue)].message)
           /\ worker.step # "idle" => Len(queue) > 1
  <2>1. /\ Waiting # <<>> /\ waiting = ReplaceLast(Waiting, e)
        /\ Waiting[Len(Waiting)] = queue[Len(queue)]
    <3>1. CASE worker.step = "saved"
      <4>1. Len(queue) > 1
        BY <1>5, <3>1
      <4>2. Tail(queue) # <<>> /\ Tail(ReplaceLast(queue, e)) = ReplaceLast(Tail(queue), e)
        BY <1>1, <4>1, TailOfReplaced
      <4>3. Tail(queue)[Len(Tail(queue))] = queue[Len(queue)]
        <5>1. Len(Tail(queue)) = Len(queue) - 1 /\ \A i \in 1 .. Len(Tail(queue)) : Tail(queue)[i] = queue[i + 1]
          BY <1>1, <1>5, HeadTailProperties
        <5>2. Len(queue) - 1 \in 1 .. Len(queue) - 1 /\ (Len(queue) - 1) + 1 = Len(queue)
          BY <1>1, <4>1, LenProperties
        <5> QED
          BY <5>1, <5>2
      <4> QED
        BY <1>5, <3>1, <4>2, <4>3 DEF Waiting
    <3>2. CASE worker.step # "saved"
      BY <1>5, <3>2 DEF Waiting
    <3> QED
      BY <3>1, <3>2
  <2>2. c \o waiting = ReplaceLast(log, e)
    <3>2. c \in Seq(Entry) /\ Waiting \in Seq(Entry) /\ Waiting # <<>> /\ e \in Entry
      BY <1>1, <1>2, <2>1
    <3>1. c \o ReplaceLast(Waiting, e) = ReplaceLast(c \o Waiting, e)
      BY <3>2, ConcatOfReplaced
    <3> QED
      BY <2>1, <3>1
  <2>3. log # <<>> /\ log[Len(log)] = queue[Len(queue)]
    <3>1. Len(Waiting) \in Nat /\ Len(Waiting) > 0 /\ Len(c) \in Nat
      BY <1>1, <1>2, <2>1
    <3>2. /\ Len(log) = Len(c) + Len(Waiting)
          /\ \A i \in 1 .. Len(c) + Len(Waiting) : log[i] = IF i <= Len(c) THEN c[i] ELSE Waiting[i - Len(c)]
      BY <1>1, <1>2, ConcatProperties
    <3> HIDE DEF log
    <3>3. /\ Len(log) \in 1 .. Len(c) + Len(Waiting) /\ ~(Len(log) <= Len(c))
          /\ Len(log) - Len(c) = Len(Waiting)
      BY <3>1, <3>2
    <3>4. log[Len(log)] = Waiting[Len(Waiting)]
      BY <3>2, <3>3
    <3>5. log # <<>>
      BY <3>1, <3>2
    <3> QED
      BY <2>1, <3>4, <3>5
  <2> HIDE DEF log
  <2>4. WS!isNavigation(log[Len(log)].message)
    BY <1>5, <2>3
  <2>5. done = changes
    BY <1>5
  <2> QED
    BY <1>1, <1>3, <1>5, <2>2, <2>3, <2>4, <2>5, AuditReplacement DEF c
<1> QED
  BY <1>1, <1>4, <1>5, Enqueued

-----------------------------------------------------------------------------
\* An operation on the strip.
LEMMA ChangeKeeps ==
  ASSUME TabsInv, NEW t, NEW a, NEW message, Change(t, a, message)
  PROVE  TabsInv'
<1> DEFINE msg == IF message = "none" THEN pending ELSE message
           e == [message |-> msg, layout |-> WS!Layout(t, a)]
           q == WS!enqueued(queue, e)
           w == WS!begun(q, paused)
<1>1. TabTypes /\ WholeEverywhere /\ HeadAtWork /\ LoadsInOrder /\ InStep /\ AllAudited
  BY DEF TabsInv
<1>2. /\ isOpen /\ tabs' = t /\ active' = a /\ edits' = edits + 1
      /\ msg # "none"
      /\ changes' = IF message \in {"none", "activate", "navigate"} THEN changes
                    ELSE Append(changes, [message |-> message, layout |-> WS!Layout(t, a)])
      /\ UNCHANGED <<isOpen, disk, index, commits, unrestored, loaders, generation, imported, failures,
                     paused>>
  BY DEF Change, WS!changeTo, WS!repository, WS!loading, WS!queueWorkspacePersistence
<1>3. queue' = q /\ worker' = w /\ pending' = "none"
  <2>1. WS!queueWorkspacePersistence(msg)
    BY DEF Change, WS!changeTo
  <2>2. queue' = WS!enqueued(queue, [message |-> msg, layout |-> WS!Layout(tabs', active')]) /\ pending' = "none"
    <3> HIDE DEF msg
    <3> QED
      BY <1>2, <2>1 DEF WS!queueWorkspacePersistence
  <2>3. worker' = WS!begun(queue', paused)
    <3> HIDE DEF msg
    <3> QED
      BY <1>2, <2>1 DEF WS!queueWorkspacePersistence
  <2> QED
    BY <1>2, <2>2, <2>3
<1>4. /\ t \in Seq(Tab) /\ a \in Nat /\ msg \in Messages /\ message \in Messages /\ nextId' \in Nat
      /\ nextId <= nextId' /\ Whole(t, a, nextId')
  <2>1. /\ t \in Seq(Tab) /\ msg \in Messages /\ message \in Messages /\ nextId' \in Nat /\ nextId <= nextId'
        /\ Whole(t, a, nextId')
    BY <1>1 DEF Change, TabTypes
  <2>2. a \in DOMAIN t
    BY <2>1 DEF Whole
  <2> QED
    BY <2>1, <2>2, LenProperties
<1>5. e \in Entry /\ e.message = msg /\ e.layout = WS!Layout(t, a) /\ e.layout.tabs = t /\ e.layout.active = a
  BY <1>4 DEF Entry, Layouts, WS!Layout
<1> HIDE DEF e
<1>6. queue \in Seq(Entry) /\ paused \in BOOLEAN /\ worker \in TabSave
  BY <1>1 DEF TabTypes
<1>7. /\ q \in Seq(Entry) /\ q # <<>> /\ q[Len(q)] = e
      /\ \A i \in DOMAIN q : q[i] = e \/ (i \in DOMAIN queue /\ q[i] = queue[i])
      /\ worker.step # "idle" /\ queue # <<>> => q[1] = queue[1]
  BY <1>5, <1>6, Enqueued
<1> HIDE DEF q
<1>8. /\ w \in TabSave
      /\ worker.step # "idle" \/ paused => w = worker
      /\ worker.step = "idle" /\ ~paused => w.step = "write" /\ w.save = q[1]
  BY <1>6, <1>7, Begun
<1> HIDE DEF w
<1>9. TabTypes'
  <2>1. changes' \in Seq(Entry)
    <3>1. [message |-> message, layout |-> WS!Layout(t, a)] \in Entry
      BY <1>4 DEF Entry, Layouts, WS!Layout
    <3>2. Append(changes, [message |-> message, layout |-> WS!Layout(t, a)]) \in Seq(Entry)
      BY <1>1, <3>1 DEF TabTypes
    <3> QED
      BY <1>1, <1>2, <3>2 DEF TabTypes
  <2>2. /\ isOpen' \in BOOLEAN /\ tabs' \in Seq(Tab) /\ active' \in Nat /\ pending' \in Messages
        /\ queue' \in Seq(Entry) /\ paused' \in BOOLEAN /\ worker' \in TabSave
    BY <1>1, <1>2, <1>3, <1>4, <1>7, <1>8 DEF TabTypes, Messages
  <2>3. /\ disk' \in Layouts /\ index' \in Layouts /\ commits' \in Seq(Entry) /\ commits' # <<>>
        /\ loaders' \subseteq TabLoad /\ generation' \in Nat /\ nextId' \in Nat
        /\ imported' \in Nat /\ edits' \in Nat /\ failures' \in Nat
    BY <1>1, <1>2, <1>4 DEF TabTypes
  <2>4. unrestored' \in BOOLEAN
    BY <1>1, <1>2 DEF TabTypes
  <2> QED
    BY <2>1, <2>2, <2>3, <2>4 DEF TabTypes
<1>10. WholeEverywhere'
  <2>1. /\ Whole(disk.tabs, disk.active, nextId')
        /\ \A i \in DOMAIN queue : Whole(queue[i].layout.tabs, queue[i].layout.active, nextId')
        /\ worker.step # "idle" => Whole(worker.save.layout.tabs, worker.save.layout.active, nextId')
        /\ worker.step \in {"stage", "commit", "saved", "rollback"} =>
             Whole(worker.previous.tabs, worker.previous.active, nextId')
        /\ \A l \in loaders : l.step = "loaded" => Whole(l.layout.tabs, l.layout.active, nextId')
    BY <1>1, <1>4, AllWholeLater
  <2>2. Whole(tabs', active', nextId')
    BY <1>2, <1>4
  <2>3. \A i \in DOMAIN q : Whole(q[i].layout.tabs, q[i].layout.active, nextId')
    BY <1>4, <1>5, <1>7, <2>1
  <2>4. /\ w.step # "idle" => Whole(w.save.layout.tabs, w.save.layout.active, nextId')
        /\ w.step \in {"stage", "commit", "saved", "rollback"} =>
             Whole(w.previous.tabs, w.previous.active, nextId')
    <3>1. 1 \in DOMAIN q
      BY <1>7, LenProperties, EmptySeq
    <3> QED
      BY <1>6, <1>8, <2>1, <2>3, <3>1
  <2> QED
    BY <1>2, <1>3, <2>1, <2>2, <2>3, <2>4 DEF WholeEverywhere
<1>11. HeadAtWork'
  <2>1. /\ worker.step # "idle" => queue # <<>> /\ worker.save = queue[1]
        /\ paused => worker.step = "idle"
    BY <1>1 DEF HeadAtWork
  <2>2. /\ w.step # "idle" => w.save = q[1]
        /\ paused => w.step = "idle"
    BY <1>6, <1>7, <1>8, <2>1
  <2> QED
    BY <1>2, <1>3, <1>7, <2>2 DEF HeadAtWork
<1>12. LoadsInOrder'
  BY <1>1, <1>2 DEF LoadsInOrder
<1>13. WS!undisturbed' <=> WS!undisturbed
  BY <1>2 DEF WS!undisturbed
<1>14. InStep'
  <2>1. SUFFICES ASSUME WS!undisturbed PROVE InStep'
    BY <1>13 DEF InStep
  <2>2. Committed' = Committed /\ Strip' = e.layout
    BY <1>2, <1>5 DEF Committed, Strip, WS!Layout
  <2>3. w = worker \/ (worker.step = "idle" /\ w.step = "write")
    BY <1>6, <1>8
  <2>4. /\ worker.step \in {"idle", "write", "failed", "saved"} =>
             unrestored = TRUE \/ disk = Committed.layout
        /\ worker.step \in {"stage", "commit"} => disk = worker.save.layout
        /\ worker.step = "commit" => index = worker.save.layout
        /\ worker.step \in {"stage", "commit", "rollback"} =>
             unrestored = TRUE \/ worker.previous = Committed.layout
        /\ worker.step = "saved" => Committed = worker.save /\ unrestored = FALSE
    BY <1>1, <2>1 DEF InStep
  <2> QED
    BY <1>2, <1>3, <1>7, <2>2, <2>3, <2>4 DEF InStep
<1>15. AllAudited'
  <2>1. SUFFICES ASSUME WS!undisturbed PROVE Audit(Tail(commits') \o Waiting', changes')
    BY <1>13 DEF AllAudited
  <2>2. pending = "none" /\ message # "none" /\ msg = message
    BY <1>1, <1>2, <2>1 DEF InStep
  <2>3. changes' = IF WS!isNavigation(e.message) THEN changes ELSE Append(changes, e)
    BY <1>2, <1>5, <2>2 DEF WS!isNavigation, e
  <2>4. Waiting' = IF worker.step = "saved" THEN Tail(q) ELSE q
    BY <1>3, <1>6, <1>8 DEF Waiting
  <2>5. Audit(Tail(commits) \o Waiting', changes')
    BY <1>1, <1>5, <2>1, <2>3, <2>4, AuditOfChange DEF q
  <2> QED
    BY <1>2, <2>5
<1> QED
  BY <1>9, <1>10, <1>11, <1>12, <1>14, <1>15 DEF TabsInv

-----------------------------------------------------------------------------
LEMMA MissingIsLayout == WS!Missing \in Layouts /\ WS!IdleWorker \in TabSave /\ WS!IdleWorker.step = "idle"
BY DEF WS!Missing, WS!Layout, WS!IdleWorker, Layouts, TabSave, Entry, Messages, SaveSteps

\* Tabs imported from a file.
LEMMA ImportTabsKeeps ==
  ASSUME TabsInv, WS!importTabs(0)
  PROVE  TabsInv'
<1> DEFINE t == Append(tabs, WS!makeTab(nextId, 0))
<1>1. TabTypes /\ WholeEverywhere /\ HeadAtWork /\ LoadsInOrder
  BY DEF TabsInv
<1>2. /\ isOpen /\ tabs' = t /\ nextId' = nextId + 1 /\ imported' = imported + 1 /\ pending' = "import"
      /\ changes' = Append(changes, [message |-> "import", layout |-> WS!Layout(t, active)])
      /\ UNCHANGED <<isOpen, active, queue, paused, worker, disk, index, commits, unrestored, loaders,
                     generation, edits, failures>>
  BY DEF WS!importTabs, WS!saving, WS!repository, WS!loading
<1>3. t \in Seq(Tab) /\ Whole(t, active, nextId + 1)
  BY <1>1, <1>2, OpenStrip, TabAppended, PagesAssumption
<1> HIDE DEF t
<1>4. nextId \in Nat /\ nextId' \in Nat /\ nextId <= nextId' /\ imported \in Nat
  BY <1>1, <1>2 DEF TabTypes
<1>5. TabTypes'
  <2>1. [message |-> "import", layout |-> WS!Layout(t, active)] \in Entry
    BY <1>1, <1>3 DEF TabTypes, Entry, Messages, Layouts, WS!Layout
  <2>2. changes' \in Seq(Entry)
    BY <1>1, <1>2, <2>1 DEF TabTypes
  <2> QED
    BY <1>1, <1>2, <1>3, <1>4, <2>2 DEF TabTypes, Messages
<1>6. WholeEverywhere'
  <2>1. /\ Whole(disk.tabs, disk.active, nextId')
        /\ \A i \in DOMAIN queue : Whole(queue[i].layout.tabs, queue[i].layout.active, nextId')
        /\ worker.step # "idle" => Whole(worker.save.layout.tabs, worker.save.layout.active, nextId')
        /\ worker.step \in {"stage", "commit", "saved", "rollback"} =>
             Whole(worker.previous.tabs, worker.previous.active, nextId')
        /\ \A l \in loaders : l.step = "loaded" => Whole(l.layout.tabs, l.layout.active, nextId')
    BY <1>1, <1>4, AllWholeLater
  <2> QED
    BY <1>2, <1>3, <2>1 DEF WholeEverywhere
<1>7. HeadAtWork' /\ LoadsInOrder'
  BY <1>1, <1>2 DEF HeadAtWork, LoadsInOrder
<1>8. ~WS!undisturbed'
  BY <1>2, <1>4 DEF WS!undisturbed
<1> QED
  BY <1>5, <1>6, <1>7, <1>8 DEF TabsInv, InStep, AllAudited

\* The folder of an imported project.
LEMMA ImportRepositoryKeeps ==
  ASSUME TabsInv, WS!importRepository(0)
  PROVE  TabsInv'
<1> DEFINE e == WS!makeTab(nextId, 0)
           l == WS!Layout(<<e>>, 1)
<1>1. TabTypes /\ WholeEverywhere /\ HeadAtWork /\ LoadsInOrder
  BY DEF TabsInv
<1>2. /\ isOpen /\ imported' = imported + 1 /\ disk' = l /\ nextId' = nextId + 1 /\ index' = WS!Missing
      /\ commits' = <<[message |-> "imported", layout |-> l]>>
      /\ tabs' = l.tabs /\ active' = l.active
      /\ UNCHANGED <<isOpen, pending, queue, paused, worker, unrestored, loaders, generation, changes, edits,
                     failures>>
  BY DEF WS!importRepository, WS!saving, WS!loading
<1>3. nextId \in Nat /\ nextId' \in Nat /\ nextId <= nextId' /\ imported \in Nat
  BY <1>1, <1>2 DEF TabTypes
<1>4. e \in Tab /\ e.id = nextId
  BY <1>3, PagesAssumption DEF WS!makeTab, Tab
<1> HIDE DEF e
<1>5. l \in Layouts /\ l.tabs = <<e>> /\ l.active = 1
  BY <1>4 DEF WS!Layout, Layouts
<1> HIDE DEF l
<1>6. Whole(l.tabs, l.active, nextId')
  BY <1>2, <1>3, <1>4, <1>5 DEF Whole
<1>7. TabTypes'
  <2>1. [message |-> "imported", layout |-> l] \in Entry
    BY <1>5 DEF Entry, Messages
  <2>2. commits' \in Seq(Entry) /\ commits' # <<>>
    BY <1>2, <2>1
  <2>3. l.tabs \in Seq(Tab) /\ l.active \in Nat
    BY <1>5 DEF Layouts
  <2> QED
    BY <1>1, <1>2, <1>3, <1>5, <2>2, <2>3, MissingIsLayout DEF TabTypes
<1>8. WholeEverywhere'
  <2>1. /\ \A i \in DOMAIN queue : Whole(queue[i].layout.tabs, queue[i].layout.active, nextId')
        /\ worker.step # "idle" => Whole(worker.save.layout.tabs, worker.save.layout.active, nextId')
        /\ worker.step \in {"stage", "commit", "saved", "rollback"} =>
             Whole(worker.previous.tabs, worker.previous.active, nextId')
        /\ \A m \in loaders : m.step = "loaded" => Whole(m.layout.tabs, m.layout.active, nextId')
    BY <1>1, <1>3, AllWholeLater
  <2> QED
    BY <1>2, <1>6, <2>1 DEF WholeEverywhere
<1>9. HeadAtWork' /\ LoadsInOrder'
  BY <1>1, <1>2 DEF HeadAtWork, LoadsInOrder
<1>10. ~WS!undisturbed'
  BY <1>2, <1>3 DEF WS!undisturbed
<1> QED
  BY <1>7, <1>8, <1>9, <1>10 DEF TabsInv, InStep, AllAudited

\* What no step of a save changes.
Saving ==
  UNCHANGED <<isOpen, tabs, active, pending, queue, paused, loaders, generation, nextId, changes, imported, edits>>

LEMMA WriteKeeps ==
  ASSUME TabsInv, WS!writeState
  PROVE  TabsInv'
<1>1. TabTypes /\ WholeEverywhere /\ HeadAtWork /\ LoadsInOrder /\ InStep /\ AllAudited
  BY DEF TabsInv
<1>2. /\ worker.step = "write" /\ index' = WS!Missing /\ Saving /\ UNCHANGED <<commits, unrestored>>
      /\ \/ /\ disk' = worker.save.layout /\ failures' = failures
            /\ worker' = [worker EXCEPT !.step = "stage", !.previous = disk]
         \/ /\ failures' = failures + 1 /\ disk' = disk
            /\ worker' = [worker EXCEPT !.step = "failed"]
  BY DEF WS!writeState, WS!keep, WS!fails, WS!strip, WS!loading, Saving
<1>3. /\ worker \in TabSave /\ worker.save.layout \in Layouts /\ disk \in Layouts /\ failures \in Nat
  BY <1>1 DEF TabTypes, TabSave, Entry
<1>4. /\ worker' \in TabSave /\ worker'.save = worker.save /\ worker'.step \in {"stage", "failed"}
      /\ worker'.step = "stage" => worker'.previous = disk /\ disk' = worker.save.layout
      /\ worker'.step = "failed" => disk' = disk
      /\ disk' \in Layouts /\ failures' \in Nat
  <2>1. CASE /\ disk' = worker.save.layout /\ failures' = failures
             /\ worker' = [worker EXCEPT !.step = "stage", !.previous = disk]
    <3>1. worker' = [step |-> "stage", save |-> worker.save, previous |-> disk]
      BY <1>3, <2>1 DEF TabSave
    <3>2. worker.save \in Entry
      BY <1>3 DEF TabSave
    <3> QED
      BY <1>3, <2>1, <3>1, <3>2 DEF TabSave, SaveSteps
  <2>2. CASE /\ failures' = failures + 1 /\ disk' = disk
             /\ worker' = [worker EXCEPT !.step = "failed"]
    BY <1>3, <2>2 DEF TabSave, SaveSteps
  <2> QED
    BY <1>2, <2>1, <2>2
<1>5. TabTypes'
  BY <1>1, <1>2, <1>4, MissingIsLayout DEF TabTypes, Saving
<1>6. WholeEverywhere'
  BY <1>1, <1>2, <1>4 DEF WholeEverywhere, Saving
<1>7. HeadAtWork' /\ LoadsInOrder'
  BY <1>1, <1>2, <1>4 DEF HeadAtWork, LoadsInOrder, Saving
<1>8. InStep'
  BY <1>1, <1>2, <1>4 DEF InStep, Saving, WS!undisturbed, Committed, Strip
<1>9. AllAudited'
  <2>1. Waiting' = Waiting
    BY <1>2, <1>4 DEF Waiting, Saving
  <2> QED
    BY <1>1, <1>2, <2>1 DEF AllAudited, Saving, WS!undisturbed
<1> QED
  BY <1>5, <1>6, <1>7, <1>8, <1>9 DEF TabsInv

LEMMA StageKeeps ==
  ASSUME TabsInv, WS!stageState
  PROVE  TabsInv'
<1>1. TabTypes /\ WholeEverywhere /\ HeadAtWork /\ LoadsInOrder /\ InStep /\ AllAudited
  BY DEF TabsInv
<1>2. /\ worker.step = "stage" /\ Saving /\ UNCHANGED <<disk, commits, unrestored>>
      /\ \/ /\ index' = disk /\ failures' = failures
            /\ worker' = [worker EXCEPT !.step = "commit"]
         \/ /\ index' = index /\ failures' = failures + 1
            /\ worker' = [worker EXCEPT !.step = "rollback"]
  BY DEF WS!stageState, WS!keep, WS!fails, WS!strip, WS!loading, Saving
<1>3. /\ worker' \in TabSave /\ worker'.save = worker.save /\ worker'.previous = worker.previous
      /\ worker'.step \in {"commit", "rollback"}
      /\ worker'.step = "commit" => index' = disk
      /\ index' \in Layouts /\ failures' \in Nat
  BY <1>1, <1>2 DEF TabTypes, TabSave, SaveSteps
<1>5. TabTypes'
  BY <1>1, <1>2, <1>3 DEF TabTypes, Saving
<1>6. WholeEverywhere'
  BY <1>1, <1>2, <1>3 DEF WholeEverywhere, Saving
<1>7. HeadAtWork' /\ LoadsInOrder'
  BY <1>1, <1>2, <1>3 DEF HeadAtWork, LoadsInOrder, Saving
<1>8. InStep'
  BY <1>1, <1>2, <1>3 DEF InStep, Saving, WS!undisturbed, Committed, Strip
<1>9. AllAudited'
  <2>1. Waiting' = Waiting
    BY <1>2, <1>3 DEF Waiting, Saving
  <2> QED
    BY <1>1, <1>2, <2>1 DEF AllAudited, Saving, WS!undisturbed
<1> QED
  BY <1>5, <1>6, <1>7, <1>8, <1>9 DEF TabsInv

LEMMA CommitKeeps ==
  ASSUME TabsInv, WS!commitState
  PROVE  TabsInv'
<1> DEFINE e == [message |-> worker.save.message, layout |-> index]
<1>1. TabTypes /\ WholeEverywhere /\ HeadAtWork /\ LoadsInOrder /\ InStep /\ AllAudited
  BY DEF TabsInv
<1>2. /\ worker.step = "commit" /\ Saving /\ UNCHANGED <<disk, index>>
      /\ \/ /\ commits' = Append(commits, e) /\ failures' = failures /\ unrestored' = FALSE
            /\ worker' = [worker EXCEPT !.step = "saved"]
         \/ /\ failures' = failures + 1 /\ commits' = commits /\ unrestored' = unrestored
            /\ worker' = [worker EXCEPT !.step = "rollback"]
  BY DEF WS!commitState, WS!keep, WS!fails, WS!strip, WS!loading, Saving
<1>3. /\ worker \in TabSave /\ worker.save \in Entry /\ index \in Layouts /\ failures \in Nat
      /\ commits \in Seq(Entry) /\ commits # <<>> /\ queue \in Seq(Entry)
  BY <1>1 DEF TabTypes, TabSave
<1>4. /\ worker' \in TabSave /\ worker'.save = worker.save /\ worker'.previous = worker.previous
      /\ worker'.step \in {"saved", "rollback"} /\ failures' \in Nat
      /\ worker'.step = "saved" => commits' = Append(commits, e) /\ unrestored' = FALSE
      /\ worker'.step = "rollback" => commits' = commits /\ unrestored' = unrestored
  BY <1>2, <1>3 DEF TabSave, SaveSteps
<1>5. e \in Entry
  BY <1>3 DEF Entry
<1>6. WS!undisturbed => e = worker.save
  BY <1>1, <1>2, <1>3 DEF InStep, Entry
<1> HIDE DEF e
<1>7. /\ commits' \in Seq(Entry) /\ commits' # <<>>
      /\ worker'.step = "saved" => Committed' = e
      /\ worker'.step = "rollback" => Committed' = Committed
  <2> DEFINE longer == Append(commits, e)
  <2>1. /\ longer \in Seq(Entry) /\ longer # <<>> /\ longer[Len(longer)] = e
    BY <1>3, <1>5, AppendProperties
  <2> HIDE DEF longer
  <2>2. worker'.step = "saved" => commits' = longer
    BY <1>4 DEF longer
  <2> QED
    BY <1>3, <1>4, <2>1, <2>2 DEF Committed
<1>13. unrestored' \in BOOLEAN
  BY <1>1, <1>2 DEF TabTypes
<1>8. TabTypes'
  BY <1>1, <1>13, <1>2, <1>4, <1>7 DEF TabTypes, Saving
<1>9. WholeEverywhere'
  BY <1>1, <1>2, <1>4 DEF WholeEverywhere, Saving
<1>10. HeadAtWork' /\ LoadsInOrder'
  BY <1>1, <1>2, <1>4 DEF HeadAtWork, LoadsInOrder, Saving
<1>11. InStep'
  <2>1. SUFFICES ASSUME WS!undisturbed PROVE InStep'
    BY <1>2 DEF InStep, WS!undisturbed, Saving
  <2>2. queue # <<>>
    BY <1>1, <1>2 DEF HeadAtWork
  <2>3. disk = worker.save.layout /\ e = worker.save
        /\ (unrestored = TRUE \/ worker.previous = Committed.layout)
    BY <1>1, <1>2, <1>6, <2>1 DEF InStep
  <2>4. queue[Len(queue)].layout = Strip /\ pending = "none"
    BY <1>1, <2>1, <2>2 DEF InStep
  <2>5. Strip' = Strip /\ queue' = queue /\ pending' = pending /\ disk' = disk
    BY <1>2 DEF Strip, Saving
  <2> QED
    BY <1>4, <1>7, <2>2, <2>3, <2>4, <2>5 DEF InStep
<1>12. AllAudited'
  <2>1. SUFFICES ASSUME WS!undisturbed PROVE Audit(Tail(commits') \o Waiting', changes')
    BY <1>2 DEF AllAudited, WS!undisturbed, Saving
  <2>2. Audit(Tail(commits) \o queue, changes)
    BY <1>1, <1>2, <2>1 DEF AllAudited, Waiting
  <2>3. CASE worker'.step = "saved"
    <3>1. queue # <<>> /\ e = Head(queue)
      <4>1. queue # <<>> /\ worker.save = queue[1]
        BY <1>1, <1>2 DEF HeadAtWork
      <4> QED
        BY <1>3, <1>6, <2>1, <4>1
    <3>2. Tail(Append(commits, Head(queue))) \o Tail(queue) = Tail(commits) \o queue
      BY <1>3, <3>1, HeadCommitted
    <3>3. Waiting' = Tail(queue) /\ commits' = Append(commits, Head(queue)) /\ changes' = changes
      BY <1>2, <1>4, <2>3, <3>1 DEF Waiting, Saving
    <3> QED
      BY <2>2, <3>2, <3>3
  <2>4. CASE worker'.step = "rollback"
    <3>1. Waiting' = queue /\ commits' = commits /\ changes' = changes
      BY <1>2, <1>4, <2>4 DEF Waiting, Saving
    <3> QED
      BY <2>2, <3>1
  <2> QED
    BY <1>4, <2>3, <2>4
<1> QED
  BY <1>8, <1>9, <1>10, <1>11, <1>12 DEF TabsInv

LEMMA RollbackKeeps ==
  ASSUME TabsInv, WS!rollback
  PROVE  TabsInv'
<1>1. TabTypes /\ WholeEverywhere /\ HeadAtWork /\ LoadsInOrder /\ InStep /\ AllAudited
  BY DEF TabsInv
<1>2. /\ worker.step = "rollback" /\ Saving /\ UNCHANGED <<index, commits>>
      /\ \/ disk' = worker.previous /\ unrestored' = unrestored /\ failures' = failures
         \/ disk' = disk /\ unrestored' = TRUE /\ failures' = failures + 1
      /\ worker' = [worker EXCEPT !.step = "failed"]
  BY DEF WS!rollback, WS!rolledBack, WS!keep, WS!fails, WS!strip, WS!loading, Saving
<1>3. /\ worker' \in TabSave /\ worker'.save = worker.save /\ worker'.step = "failed"
      /\ disk' \in Layouts /\ failures' \in Nat
  BY <1>1, <1>2 DEF TabTypes, TabSave, SaveSteps
<1>4. unrestored' \in BOOLEAN
  BY <1>1, <1>2 DEF TabTypes
<1>5. TabTypes'
  BY <1>1, <1>2, <1>3, <1>4 DEF TabTypes, Saving
<1>6. WholeEverywhere'
  BY <1>1, <1>2, <1>3 DEF WholeEverywhere, Saving
<1>7. HeadAtWork' /\ LoadsInOrder'
  BY <1>1, <1>2, <1>3 DEF HeadAtWork, LoadsInOrder, Saving
<1>8. InStep'
  BY <1>1, <1>2, <1>3 DEF InStep, HeadAtWork, Saving, WS!undisturbed, Committed, Strip
<1>9. AllAudited'
  <2>1. Waiting' = Waiting
    BY <1>2, <1>3 DEF Waiting, Saving
  <2> QED
    BY <1>1, <1>2, <2>1 DEF AllAudited, Saving, WS!undisturbed
<1> QED
  BY <1>5, <1>6, <1>7, <1>8, <1>9 DEF TabsInv

\* The answer of a save takes it from the queue, or pauses the queue.
LEMMA DeliverKeeps ==
  ASSUME TabsInv, WS!deliver
  PROVE  TabsInv'
<1>1. TabTypes /\ WholeEverywhere /\ HeadAtWork /\ LoadsInOrder /\ InStep /\ AllAudited
  BY DEF TabsInv
<1>2. /\ worker.step \in {"saved", "failed"}
      /\ queue' = (IF worker.step = "saved" /\ queue # <<>> THEN Tail(queue) ELSE queue)
      /\ paused' = (paused \/ worker.step = "failed")
      /\ worker' = (IF paused' \/ queue' = <<>> THEN WS!IdleWorker
                    ELSE [WS!IdleWorker EXCEPT !.step = "write", !.save = Head(queue')])
      /\ UNCHANGED <<isOpen, tabs, active, pending, disk, index, commits, unrestored, loaders, generation,
                     nextId, changes, imported, edits, failures>>
  BY DEF WS!deliver, WS!strip, WS!repository, WS!loading, WS!bounds
<1>3. /\ queue \in Seq(Entry) /\ queue # <<>> /\ paused = FALSE
  BY <1>1, <1>2 DEF TabTypes, HeadAtWork
<1>4. /\ worker.step = "saved" => queue' = Tail(queue) /\ paused' = FALSE
      /\ worker.step = "failed" => queue' = queue /\ paused' = TRUE
  BY <1>2, <1>3
<1>5. /\ queue' \in Seq(Entry) /\ \A i \in DOMAIN queue' : \E j \in DOMAIN queue : queue'[i] = queue[j]
  <2>1. CASE worker.step = "failed"
    BY <1>3, <1>4, <2>1
  <2>2. CASE worker.step = "saved"
    <3>1. /\ Tail(queue) \in Seq(Entry) /\ Len(Tail(queue)) = Len(queue) - 1 /\ Len(queue) \in Nat
          /\ \A i \in 1 .. Len(Tail(queue)) : Tail(queue)[i] = queue[i + 1]
      BY <1>3, HeadTailProperties, LenProperties
    <3>2. \A i \in 1 .. Len(queue) - 1 : i + 1 \in 1 .. Len(queue)
      BY <3>1
    <3>3. DOMAIN queue = 1 .. Len(queue) /\ DOMAIN Tail(queue) = 1 .. Len(queue) - 1
      BY <1>3, <3>1, LenProperties
    <3> QED
      BY <1>4, <2>2, <3>1, <3>2, <3>3
  <2> QED
    BY <1>2, <2>1, <2>2
<1>6. /\ worker' \in TabSave
      /\ worker'.step = "idle" \/ (worker'.step = "write" /\ queue' # <<>> /\ ~paused' /\ worker'.save = queue'[1])
  <2>1. CASE paused' \/ queue' = <<>>
    BY <1>2, <2>1, MissingIsLayout
  <2>2. CASE ~paused' /\ queue' # <<>>
    <3>1. worker' = [WS!IdleWorker EXCEPT !.step = "write", !.save = Head(queue')]
      BY <1>2, <2>2
    <3>2. Head(queue') \in Entry /\ Head(queue') = queue'[1]
      BY <1>5, <2>2, HeadTailProperties
    <3>3. worker' = [step |-> "write", save |-> Head(queue'), previous |-> WS!Missing]
      BY <3>1 DEF WS!IdleWorker
    <3> QED
      BY <2>2, <3>2, <3>3, MissingIsLayout DEF TabSave, SaveSteps
  <2> QED
    BY <2>1, <2>2
<1>7. TabTypes'
  BY <1>1, <1>2, <1>3, <1>4, <1>5, <1>6 DEF TabTypes
<1>8. WholeEverywhere'
  <2>1. \A i \in DOMAIN queue' : Whole(queue'[i].layout.tabs, queue'[i].layout.active, nextId)
    BY <1>1, <1>5 DEF WholeEverywhere
  <2>2. queue' # <<>> => 1 \in DOMAIN queue'
    BY <1>5, LenProperties, EmptySeq
  <2> QED
    BY <1>1, <1>2, <1>6, <2>1, <2>2 DEF WholeEverywhere
<1>9. HeadAtWork' /\ LoadsInOrder'
  BY <1>1, <1>2, <1>6 DEF HeadAtWork, LoadsInOrder
<1>10. InStep'
  <2>1. SUFFICES ASSUME WS!undisturbed PROVE InStep'
    BY <1>2 DEF InStep, WS!undisturbed
  <2>2. /\ unrestored = TRUE \/ disk = Committed.layout
        /\ pending = "none" /\ queue[Len(queue)].layout = Strip
        /\ worker.step = "saved" => Committed = worker.save /\ unrestored = FALSE
    BY <1>1, <1>2, <1>3, <2>1 DEF InStep
  <2>3. Strip' = Strip /\ Committed' = Committed
    BY <1>2 DEF Strip, Committed
  <2>4. IF queue' = <<>> THEN Committed.layout = Strip ELSE queue'[Len(queue')].layout = Strip
    <3>1. CASE worker.step = "failed"
      BY <1>3, <1>4, <2>2, <3>1
    <3>2. CASE worker.step = "saved"
      <4>1. /\ queue' = Tail(queue) /\ Len(Tail(queue)) = Len(queue) - 1 /\ Len(queue) \in Nat
            /\ \A i \in 1 .. Len(Tail(queue)) : Tail(queue)[i] = queue[i + 1]
        BY <1>3, <1>4, <3>2, HeadTailProperties, LenProperties
      <4>2. CASE queue' = <<>>
        <5>1. Len(queue) = 1
          <6>1. Len(Tail(queue)) = 0
            <7>1. Tail(queue) = <<>>
              BY <4>1, <4>2
            <7>2. Len(<<>>) = 0
              OBVIOUS
            <7> QED
              BY <7>1, <7>2, Zenon
          <6> QED
            BY <4>1, <6>1
        <5>2. worker.save = queue[1]
          BY <1>1, <3>2 DEF HeadAtWork
        <5> QED
          BY <2>2, <3>2, <4>2, <5>1, <5>2
      <4>3. CASE queue' # <<>>
        <5>1. Len(queue') \in 1 .. Len(queue') /\ Len(queue') + 1 = Len(queue)
          <6>1. Len(queue') > 0
            BY <1>5, <4>3, EmptySeq, LenProperties
          <6> QED
            BY <4>1, <6>1
        <5>2. queue'[Len(queue')] = queue[Len(queue)]
          BY <4>1, <5>1
        <5> QED
          BY <2>2, <4>3, <5>2
      <4> QED
        BY <4>2, <4>3
    <3> QED
      BY <1>2, <3>1, <3>2
  <2>5. queue' = <<>> => unrestored = FALSE
    BY <1>2, <1>3, <1>4, <2>2
  <2> QED
    BY <1>2, <1>6, <2>2, <2>3, <2>4, <2>5 DEF InStep
<1>11. AllAudited'
  <2>1. Waiting' = Waiting
    BY <1>2, <1>4, <1>6 DEF Waiting
  <2> QED
    BY <1>1, <1>2, <2>1 DEF AllAudited, WS!undisturbed
<1> QED
  BY <1>7, <1>8, <1>9, <1>10, <1>11 DEF TabsInv

\* The user retries a paused queue.
LEMMA RetryKeeps ==
  ASSUME TabsInv, WS!retryBackgroundPersistence
  PROVE  TabsInv'
<1>1. TabTypes /\ WholeEverywhere /\ HeadAtWork /\ LoadsInOrder /\ InStep /\ AllAudited
  BY DEF TabsInv
<1>2. /\ paused /\ paused' = FALSE /\ worker' = WS!begun(queue, FALSE)
      /\ UNCHANGED <<isOpen, tabs, active, pending, queue, disk, index, commits, unrestored, loaders,
                     generation, nextId, changes, imported, edits, failures>>
  BY DEF WS!retryBackgroundPersistence, WS!strip, WS!repository, WS!loading, WS!bounds
<1>3. queue \in Seq(Entry) /\ worker \in TabSave /\ worker.step = "idle"
  BY <1>1, <1>2 DEF TabTypes, HeadAtWork
<1>4. /\ worker' \in TabSave
      /\ worker' = worker \/ (queue # <<>> /\ worker'.step = "write" /\ worker'.save = queue[1])
  <2>1. CASE queue = <<>>
    BY <1>2, <1>3, <2>1 DEF WS!begun
  <2>2. CASE queue # <<>>
    BY <1>2, <1>3, <2>2, Begun
  <2> QED
    BY <2>1, <2>2
<1>5. TabTypes'
  BY <1>1, <1>2, <1>4 DEF TabTypes
<1>6. WholeEverywhere'
  <2>1. queue # <<>> => 1 \in DOMAIN queue
    BY <1>3, LenProperties, EmptySeq
  <2> QED
    BY <1>1, <1>2, <1>4, <2>1 DEF WholeEverywhere
<1>7. HeadAtWork' /\ LoadsInOrder'
  BY <1>1, <1>2, <1>4 DEF HeadAtWork, LoadsInOrder
<1>8. InStep'
  BY <1>1, <1>2, <1>3, <1>4 DEF InStep, WS!undisturbed, Strip, Committed
<1>9. AllAudited'
  <2>1. Waiting' = Waiting
    BY <1>2, <1>3, <1>4 DEF Waiting
  <2> QED
    BY <1>1, <1>2, <2>1 DEF AllAudited, WS!undisturbed
<1> QED
  BY <1>5, <1>6, <1>7, <1>8, <1>9 DEF TabsInv

\* A load is asked for: the tabs close until it has come.
LEMMA LoadKeeps ==
  ASSUME TabsInv, WS!loadProjectState
  PROVE  TabsInv'
<1> DEFINE new == [generation |-> generation + 1, step |-> "harden", layout |-> WS!Missing]
<1>1. TabTypes /\ WholeEverywhere /\ HeadAtWork /\ LoadsInOrder
  BY DEF TabsInv
<1>2. /\ generation' = generation + 1 /\ isOpen' = FALSE /\ tabs' = <<>> /\ active' = 0 /\ pending' = "none"
      /\ loaders' = loaders \cup {new}
      /\ UNCHANGED <<queue, paused, worker, disk, index, commits, unrestored, nextId, changes, imported, edits,
                     failures>>
  BY DEF WS!loadProjectState, WS!saving, WS!repository, WS!bounds
<1>3. generation \in Nat /\ generation' \in Nat /\ \A l \in loaders : l.generation \in Nat
  BY <1>1, <1>2 DEF TabTypes, TabLoad
<1>4. new \in TabLoad /\ new.generation = generation + 1 /\ new.step = "harden"
  BY <1>3, MissingIsLayout DEF TabLoad
<1> HIDE DEF new
<1>5. TabTypes'
  <2>1. loaders' \subseteq TabLoad
    BY <1>1, <1>2, <1>4 DEF TabTypes
  <2>2. <<>> \in Seq(Tab) /\ 0 \in Nat /\ FALSE \in BOOLEAN /\ "none" \in Messages
    BY DEF Messages
  <2>3. tabs' \in Seq(Tab) /\ active' \in Nat /\ isOpen' \in BOOLEAN /\ pending' \in Messages
    BY <1>2, <2>2
  <2> QED
    BY <1>1, <1>2, <1>3, <2>1, <2>3 DEF TabTypes
<1>6. WholeEverywhere'
  BY <1>1, <1>2, <1>4 DEF WholeEverywhere
<1>7. HeadAtWork'
  BY <1>1, <1>2 DEF HeadAtWork
<1>8. LoadsInOrder'
  <2>1. /\ \A l \in loaders : 1 <= l.generation /\ l.generation <= generation
        /\ \A l, m \in loaders : l.generation = m.generation => l = m
    BY <1>1 DEF LoadsInOrder
  <2>2. \A l \in loaders' : 1 <= l.generation /\ l.generation <= generation'
    BY <1>2, <1>3, <1>4, <2>1
  <2>3. \A l \in loaders : l.generation # new.generation
    BY <1>3, <1>4, <2>1
  <2>4. ASSUME NEW l \in loaders', NEW m \in loaders', l.generation = m.generation PROVE l = m
    BY <1>2, <2>1, <2>3, <2>4
  <2>5. generation' # 0
    BY <1>2, <1>3
  <2> QED
    BY <1>2, <2>2, <2>4, <2>5 DEF LoadsInOrder
<1>9. ~WS!undisturbed'
  BY <1>2, <1>3 DEF WS!undisturbed
<1> QED
  BY <1>5, <1>6, <1>7, <1>8, <1>9 DEF TabsInv, InStep, AllAudited

\* While a load is under way the behaviour is no longer undisturbed.
LEMMA LoaderDisturbs ==
  ASSUME TabTypes, LoadsInOrder, NEW l \in loaders
  PROVE  ~WS!undisturbed
BY DEF TabTypes, TabLoad, LoadsInOrder, WS!undisturbed

\* A load that goes on keeps its number.
LEMMA MovesOn ==
  ASSUME TabTypes, WholeEverywhere, LoadsInOrder, NEW l \in loaders,
         NEW step \in {"read", "loaded"}, NEW layout \in Layouts,
         step = "loaded" => Whole(layout.tabs, layout.active, nextId),
         WS!moveOn(l, step, layout), UNCHANGED <<isOpen, generation>>
  PROVE  /\ loaders' \subseteq TabLoad /\ LoadsInOrder'
         /\ \A m \in loaders' : m.step = "loaded" => Whole(m.layout.tabs, m.layout.active, nextId)
<1> DEFINE n == [l EXCEPT !.step = step, !.layout = layout]
<1>1. loaders' = (loaders \ {l}) \cup {n}
  BY DEF WS!moveOn
<1>2. n \in TabLoad /\ n.generation = l.generation /\ n.step = step /\ n.layout = layout
  BY DEF TabTypes, TabLoad
<1> HIDE DEF n
<1>3. loaders' \subseteq TabLoad
  BY <1>1, <1>2 DEF TabTypes
<1>4. \A m \in loaders' : m.step = "loaded" => Whole(m.layout.tabs, m.layout.active, nextId)
  BY <1>1, <1>2 DEF WholeEverywhere
<1>5. \A m \in loaders' : \E k \in loaders : k.generation = m.generation
  BY <1>1, <1>2
<1>6. \A k, m \in loaders' : k.generation = m.generation => k = m
  BY <1>1, <1>2 DEF LoadsInOrder
<1>7. LoadsInOrder'
  BY <1>5, <1>6 DEF LoadsInOrder
<1> QED
  BY <1>3, <1>4, <1>7

LEMMA HardenKeeps ==
  ASSUME TabsInv, NEW l \in loaders, WS!hardenForLoad(l)
  PROVE  TabsInv'
<1>1. TabTypes /\ WholeEverywhere /\ HeadAtWork /\ LoadsInOrder
  BY DEF TabsInv
<1>2. /\ index' = WS!Missing /\ WS!moveOn(l, "read", WS!Missing)
      /\ UNCHANGED <<isOpen, tabs, active, pending, queue, paused, worker, disk, commits, unrestored, generation,
                     nextId, changes, imported, edits, failures>>
  BY DEF WS!hardenForLoad, WS!strip, WS!saving, WS!bounds
<1>3. /\ loaders' \subseteq TabLoad /\ LoadsInOrder'
      /\ \A m \in loaders' : m.step = "loaded" => Whole(m.layout.tabs, m.layout.active, nextId)
  BY <1>1, <1>2, MissingIsLayout, MovesOn
<1>4. TabTypes'
  BY <1>1, <1>2, <1>3, MissingIsLayout DEF TabTypes
<1>5. WholeEverywhere'
  BY <1>1, <1>2, <1>3 DEF WholeEverywhere
<1>6. HeadAtWork'
  BY <1>1, <1>2 DEF HeadAtWork
<1>7. ~WS!undisturbed'
  BY <1>1, <1>2, LoaderDisturbs DEF WS!undisturbed
<1> QED
  BY <1>3, <1>4, <1>5, <1>6, <1>7 DEF TabsInv, InStep, AllAudited

LEMMA ReadKeeps ==
  ASSUME TabsInv, NEW l \in loaders, WS!loadState(l)
  PROVE  TabsInv'
<1>1. TabTypes /\ WholeEverywhere /\ HeadAtWork /\ LoadsInOrder
  BY DEF TabsInv
<1>2. /\ WS!moveOn(l, "loaded", disk)
      /\ UNCHANGED <<isOpen, tabs, active, pending, queue, paused, worker, disk, index, commits, unrestored,
                     generation, nextId, changes, imported, edits, failures>>
  BY DEF WS!loadState, WS!strip, WS!saving, WS!repository, WS!bounds
<1>3. disk \in Layouts /\ Whole(disk.tabs, disk.active, nextId)
  BY <1>1 DEF TabTypes, WholeEverywhere
<1>4. /\ loaders' \subseteq TabLoad /\ LoadsInOrder'
      /\ \A m \in loaders' : m.step = "loaded" => Whole(m.layout.tabs, m.layout.active, nextId)
  BY <1>1, <1>2, <1>3, MovesOn
<1>5. TabTypes'
  BY <1>1, <1>2, <1>4 DEF TabTypes
<1>6. WholeEverywhere'
  BY <1>1, <1>2, <1>4 DEF WholeEverywhere
<1>7. HeadAtWork'
  BY <1>1, <1>2 DEF HeadAtWork
<1>8. ~WS!undisturbed'
  BY <1>1, <1>2, LoaderDisturbs DEF WS!undisturbed
<1> QED
  BY <1>4, <1>5, <1>6, <1>7, <1>8 DEF TabsInv, InStep, AllAudited

\* The last load that was asked for opens the tabs, an older one is dropped.
LEMMA LoadedKeeps ==
  ASSUME TabsInv, NEW l \in loaders, WS!tabsLoaded(l)
  PROVE  TabsInv'
<1>1. TabTypes /\ WholeEverywhere /\ HeadAtWork /\ LoadsInOrder
  BY DEF TabsInv
<1>2. /\ l.step = "loaded" /\ loaders' = loaders \ {l}
      /\ \/ /\ l.generation = generation
            /\ isOpen' = TRUE /\ tabs' = l.layout.tabs /\ active' = l.layout.active /\ pending' = "none"
         \/ UNCHANGED <<isOpen, tabs, active, pending>>
      /\ UNCHANGED <<queue, paused, worker, disk, index, commits, unrestored, generation, nextId,
                     changes, imported, edits, failures>>
  BY DEF WS!tabsLoaded, WS!isCurrent, WS!strip, WS!saving, WS!repository, WS!bounds
<1>3. l \in TabLoad /\ l.layout \in Layouts /\ l.layout.tabs \in Seq(Tab) /\ l.layout.active \in Nat
  BY <1>1 DEF TabTypes, TabLoad, Layouts
<1>4. Whole(l.layout.tabs, l.layout.active, nextId)
  BY <1>1, <1>2 DEF WholeEverywhere
<1>5. TabTypes'
  BY <1>1, <1>2, <1>3 DEF TabTypes, Messages
<1>6. WholeEverywhere'
  BY <1>1, <1>2, <1>4 DEF WholeEverywhere
<1>7. HeadAtWork' /\ LoadsInOrder'
  BY <1>1, <1>2 DEF HeadAtWork, LoadsInOrder
<1>8. ~WS!undisturbed'
  BY <1>1, <1>2, LoaderDisturbs DEF WS!undisturbed
<1> QED
  BY <1>5, <1>6, <1>7, <1>8 DEF TabsInv, InStep, AllAudited

-----------------------------------------------------------------------------
LEMMA TabsInit == WS!Init => TabsInv
<1> DEFINE e == WS!makeTab(0, 0)
<1> SUFFICES ASSUME WS!Init PROVE TabsInv
  OBVIOUS
<1>1. /\ isOpen = TRUE /\ tabs = <<e>> /\ active = 1 /\ pending = "none"
      /\ queue = <<>> /\ paused = FALSE /\ worker = WS!IdleWorker
      /\ disk = WS!Layout(tabs, active) /\ index = disk
      /\ commits = <<[message |-> "initialize", layout |-> disk]>> /\ unrestored = FALSE
      /\ loaders = {} /\ generation = 0 /\ nextId = 1 /\ changes = <<>>
      /\ imported = 0 /\ edits = 0 /\ failures = 0
  BY DEF WS!Init
<1>2. e \in Tab /\ e.id = 0
  BY PagesAssumption DEF WS!makeTab, Tab
<1> HIDE DEF e
<1>3. disk \in Layouts /\ disk.tabs = <<e>> /\ disk.active = 1
  BY <1>1, <1>2 DEF WS!Layout, Layouts
<1>4. [message |-> "initialize", layout |-> disk] \in Entry
  BY <1>3 DEF Entry, Messages
<1>5. TabTypes
  <2>1. tabs \in Seq(Tab) /\ active \in Nat /\ isOpen \in BOOLEAN /\ pending \in Messages
    BY <1>1, <1>2 DEF Messages
  <2>2. commits \in Seq(Entry) /\ commits # <<>>
    BY <1>1, <1>4
  <2>3. queue \in Seq(Entry) /\ changes \in Seq(Entry) /\ loaders \subseteq TabLoad
    BY <1>1
  <2> QED
    BY <1>1, <1>3, <2>1, <2>2, <2>3, MissingIsLayout DEF TabTypes
<1>6. WholeEverywhere
  <2>1. Whole(<<e>>, 1, 1)
    BY <1>2 DEF Whole
  <2> QED
    BY <1>1, <1>3, <2>1, MissingIsLayout DEF WholeEverywhere
<1>7. HeadAtWork /\ LoadsInOrder
  BY <1>1, MissingIsLayout DEF HeadAtWork, LoadsInOrder
<1>8. InStep
  <2>1. Committed.layout = disk /\ Strip = disk
    BY <1>1 DEF Committed, Strip
  <2> QED
    BY <1>1, <2>1, MissingIsLayout DEF InStep
<1>9. AllAudited
  <2>1. Waiting = <<>> /\ Tail(commits) = <<>>
    BY <1>1, MissingIsLayout DEF Waiting
  <2>2. <<>> \o <<>> = <<>>
    OBVIOUS
  <2> QED
    BY <1>1, <2>1, <2>2, AuditNothing DEF AllAudited
<1> QED
  BY <1>5, <1>6, <1>7, <1>8, <1>9 DEF TabsInv

LEMMA TabsStutter == TabsInv /\ UNCHANGED tabVars => TabsInv'
<1> SUFFICES ASSUME TabsInv, UNCHANGED tabVars PROVE TabsInv'
  OBVIOUS
<1>1. UNCHANGED <<isOpen, tabs, active, pending, queue, paused, worker, disk, index, commits, unrestored,
                  loaders, generation, nextId, changes, imported, edits, failures>>
  BY DEF tabVars
<1>2. TabTypes /\ WholeEverywhere /\ HeadAtWork /\ LoadsInOrder /\ InStep /\ AllAudited
  BY DEF TabsInv
<1>3. TabTypes'
  BY <1>1, <1>2 DEF TabTypes
<1>4. WholeEverywhere'
  BY <1>1, <1>2 DEF WholeEverywhere
<1>5. HeadAtWork' /\ LoadsInOrder'
  BY <1>1, <1>2 DEF HeadAtWork, LoadsInOrder
<1>6. InStep' /\ AllAudited'
  BY <1>1, <1>2 DEF InStep, AllAudited, WS!undisturbed, Committed, Strip, Waiting
<1> QED
  BY <1>3, <1>4, <1>5, <1>6 DEF TabsInv

\* Which operation, save or load a step of the tabs is.
LEMMA StepsOfTabs ==
  ASSUME TabTypes, WholeEverywhere, WS!Next
  PROVE  \/ \E t, a, message : Change(t, a, message)
         \/ WS!importTabs(0) \/ WS!importRepository(0) \/ WS!loadProjectState
         \/ WS!retryBackgroundPersistence
         \/ WS!writeState \/ WS!stageState \/ WS!commitState \/ WS!rollback \/ WS!deliver
         \/ \E l \in loaders : WS!hardenForLoad(l) \/ WS!loadState(l) \/ WS!tabsLoaded(l)
<1>1. CASE WS!Slots
  <2>1. CASE \E page \in Pages : WS!openPage(page) \/ WS!navigateActiveTab(page) \/ WS!openNewTab(page)
    BY <2>1, OpenPageChanges, NavigateChanges, OpenNewTabChanges
  <2>2. CASE \E i \in DOMAIN tabs : \/ WS!activate(i) \/ WS!close(i) \/ WS!update(i)
                                   \/ \E j \in DOMAIN tabs : WS!move(i, j)
    BY <2>2, ActivateChanges, CloseChanges, UpdateChanges, MoveChanges
  <2>3. CASE \E indices \in SUBSET DOMAIN tabs : WS!closeMany(indices)
    BY <2>3, CloseManyChanges
  <2> QED
    BY <1>1, <2>1, <2>2, <2>3 DEF WS!Slots
<1>2. CASE WS!Worker
  BY <1>2 DEF WS!Worker
<1>3. CASE WS!Loader
  BY <1>3 DEF WS!Loader
<1> QED
  BY <1>1, <1>2, <1>3 DEF WS!Next

LEMMA TabsNext == TabsInv /\ WS!Next => TabsInv'
<1> SUFFICES ASSUME TabsInv, WS!Next PROVE TabsInv'
  OBVIOUS
<1>1. TabTypes /\ WholeEverywhere
  BY DEF TabsInv
<1> QED
  BY <1>1, StepsOfTabs, ChangeKeeps, ImportTabsKeeps, ImportRepositoryKeeps, LoadKeeps, RetryKeeps,
     WriteKeeps, StageKeeps, CommitKeeps, RollbackKeeps, DeliverKeeps, HardenKeeps, ReadKeeps, LoadedKeeps

LEMMA TabsAlways == MCSpec => []TabsInv
<1>1. MCInit => TabsInv
  BY TabsInit DEF MCInit
<1>2. TabsInv /\ [MCNext]_<<vars, tabVars, subject>> => TabsInv'
  <2> SUFFICES ASSUME TabsInv, [MCNext]_<<vars, tabVars, subject>> PROVE TabsInv'
    OBVIOUS
  <2>1. WS!Next \/ UNCHANGED tabVars
    BY DEF MCNext
  <2> QED
    BY <2>1, TabsNext, TabsStutter
<1> QED
  BY <1>1, <1>2, PTL DEF MCSpec

LEMMA TabsSaved == TabsInv => StripIsSaved
<1> SUFFICES ASSUME TabsInv PROVE StripIsSaved
  OBVIOUS
<1>1. TabTypes /\ HeadAtWork /\ LoadsInOrder /\ InStep /\ AllAudited
  BY DEF TabsInv
<1>2. WS!LatestLoadWins
  BY <1>1 DEF WS!LatestLoadWins, LoadsInOrder
<1>3. WS!undisturbed /\ (queue = <<>> \/ paused) => worker.step = "idle"
  BY <1>1 DEF HeadAtWork
<1>4. WS!Last(commits) = Committed
  BY DEF WS!Last, Committed
<1>5. WS!QuietTabsAreSaved /\ WS!PausedFileIsCommitted
  BY <1>1, <1>3, <1>4 DEF WS!QuietTabsAreSaved, WS!PausedFileIsCommitted, InStep, Strip, TabTypes
<1>6. WS!ChangesAreCommitted
  BY <1>1 DEF WS!ChangesAreCommitted, AllAudited, Audit, Audited, Waiting
<1> QED
  BY <1>2, <1>5, <1>6 DEF StripIsSaved

\* The strip is the one of the last load that was asked for; without a reload or an import,
\* every change of it gets its commit in order, a finished queue leaves the file and the
\* repository with the tabs on the screen, and a failed save leaves the committed file,
\* unless its rollback failed as well.
THEOREM TabsAreSaved == MCSpec => []StripIsSaved
BY TabsAlways, TabsSaved, PTL

\* Closing or moving other tabs never changes which tab is the active one.
THEOREM ActiveTabIsKept == MCSpec => ActiveTabStays
<1> DEFINE A == isOpen /\ isOpen' /\ imported' = imported /\ tabs' # tabs
                /\ WS!IdsOf(tabs') \subseteq WS!IdsOf(tabs) /\ tabs[active].id \in WS!IdsOf(tabs')
                => tabs'[active'].id = tabs[active].id
<1>1. ASSUME TabsInv, [MCNext]_<<vars, tabVars, subject>> PROVE A
  <2>1. TabTypes /\ WholeEverywhere /\ LoadsInOrder
    BY <1>1 DEF TabsInv
  <2>2. CASE UNCHANGED tabVars
    BY <2>2 DEF tabVars
  <2>3. CASE \E t, a, message : Change(t, a, message)
    BY <2>3 DEF Change, Stays, WS!changeTo
  <2>4. CASE WS!importTabs(0) \/ WS!importRepository(0)
    BY <2>1, <2>4 DEF WS!importTabs, WS!importRepository, TabTypes
  <2>5. CASE WS!loadProjectState
    BY <2>5 DEF WS!loadProjectState
  <2>6. CASE WS!retryBackgroundPersistence \/ WS!deliver
    BY <2>6 DEF WS!retryBackgroundPersistence, WS!deliver, WS!strip
  <2>7. CASE WS!writeState \/ WS!stageState \/ WS!commitState \/ WS!rollback
    BY <2>7 DEF WS!writeState, WS!stageState, WS!commitState, WS!rollback, WS!keep, WS!strip
  <2>8. CASE \E l \in loaders : WS!hardenForLoad(l) \/ WS!loadState(l) \/ WS!tabsLoaded(l)
    BY <2>1, <2>8 DEF WS!hardenForLoad, WS!loadState, WS!tabsLoaded, WS!isCurrent, WS!strip, LoadsInOrder
  <2>9. WS!Next \/ UNCHANGED tabVars
    BY <1>1 DEF MCNext
  <2> QED
    BY <2>1, <2>2, <2>3, <2>4, <2>5, <2>6, <2>7, <2>8, <2>9, StepsOfTabs
<1>2. ASSUME TabsInv, [MCNext]_<<vars, tabVars, subject>>
      PROVE  [A]_(WS!vars)
  BY <1>1, <1>2
<1> QED
  BY <1>2, TabsAlways, PTL DEF MCSpec, ActiveTabStays, WS!ActiveTabStays
=============================================================================
