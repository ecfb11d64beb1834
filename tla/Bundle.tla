------------------------------- MODULE Bundle -------------------------------
(***************************************************************************)
(* ProjectBundle: a project and the notification history saved in one      *)
(* .wimforge file, and imported from it. exportToFile() reads the          *)
(* repositories twice, once to list and hash their files and once to copy  *)
(* them, while other writers may be at work; importFromFile() extracts to  *)
(* a staging directory beside the destination and swaps it in, and another *)
(* import of the same destination, a failing step or a crash may come      *)
(* between any two of its steps.                                           *)
(*                                                                         *)
(* A repository is three things: the objects of its commits, which are     *)
(* added and never change, a ref, and one ordinary file, the numbers of    *)
(* which say which save they are of.                                       *)
(***************************************************************************)
EXTENDS Naturals, Sequences, FiniteSets

CONSTANTS Importer,     \* the processes that import
          MaxSaves,     \* bound: saves made while an export may run
          MaxTroubles   \* bound: failing steps and crashes, taken together

VARIABLES
  objects, ref, file,   \* the repository being exported
  saver,                \* the writer of it: the number of steps of a save done
  exporter,             \* "idle", or a pair of the pass it is in and a place in order
  listed,               \* what the export has listed, by part
  moments,              \* history: the refs and files there were since it began
  bundle,               \* the .wimforge file: what it holds, and its damage
  where,                \* where each import is
  overwrite,            \* whether it was told to overwrite
  staging, backup,      \* its staging directory and its backup, or nothing
  retired,              \* history: imports that succeeded and began to remove their backup
  destination,          \* what is at the destination, or nothing
  before,               \* history: what was there at first
  troubles
source == <<objects, ref, file, saver>>
exporting == <<exporter, listed, moments>>
importing == <<where, overwrite, staging, backup, retired, destination, before>>
vars == <<source, exporting, bundle, importing, troubles>>

nothing == [objects |-> {}, ref |-> 0, file |-> 0, parts |-> {}]
old == [nothing EXCEPT !.parts = {"old"}]
(* What a removal that has not come to its end leaves of a directory. *)
remains == [nothing EXCEPT !.parts = {"remains"}]
(* The order in which directories and then files are listed and written. *)
order == <<"objects", "ref", "file">>
allParts == {"objects", "ref", "file"}
damages == {"none", "header", "manifest", "payload"}

Init ==
  /\ objects = {} /\ ref = 0 /\ file = 0 /\ saver = 0
  /\ exporter = <<"idle", 1>> /\ listed = nothing /\ moments = {}
  /\ bundle = [content |-> nothing, damage |-> "none"]
  /\ where = [i \in Importer |-> "idle"] /\ overwrite \in [Importer -> BOOLEAN]
  /\ staging = [i \in Importer |-> nothing] /\ backup = [i \in Importer |-> nothing]
  /\ retired = {} /\ destination \in {nothing, old} /\ before = destination
  /\ troubles = 0

TypeOK ==
  /\ ref \in Nat /\ file \in Nat /\ objects \subseteq Nat \ {0}
  /\ saver \in 0 .. 2 /\ exporter \in {"idle", "list", "copy"} \X (1 .. 3)
  /\ bundle.damage \in damages /\ retired \subseteq Importer
  /\ where \in [Importer -> {"idle", "extract", "swap", "promote", "rollback", "clean",
                             "imported", "failed", "stranded", "crashed"}]

-----------------------------------------------------------------------------
(* A save of the repository by someone else: the file, the object of the    *)
(* commit, the ref.                                                         *)
Save ==
  /\ Cardinality(objects) < MaxSaves \/ saver # 0
  /\ saver' = (saver + 1) % 3
  /\ CASE saver = 0 -> file' = file + 1 /\ UNCHANGED <<objects, ref>>
       [] saver = 1 -> objects' = objects \cup {file} /\ UNCHANGED <<file, ref>>
       [] saver = 2 -> ref' = file /\ UNCHANGED <<file, objects>>
  /\ moments' = IF exporter[1] = "idle" THEN moments ELSE moments \cup {<<ref', file'>>}
  /\ UNCHANGED <<exporter, listed, bundle, importing, troubles>>

(* exportToFile(). The files are listed and hashed, part by part... *)
StartExport ==
  /\ exporter[1] = "idle" /\ bundle.content = nothing
  /\ exporter' = <<"list", 1>> /\ listed' = nothing /\ moments' = {<<ref, file>>}
  /\ UNCHANGED <<source, bundle, importing, troubles>>

nextStep == IF exporter[2] < Len(order) THEN <<exporter[1], exporter[2] + 1>>
            ELSE <<IF exporter[1] = "list" THEN "copy" ELSE "idle", 1>>
part == order[exporter[2]]
List ==
  /\ exporter[1] = "list" /\ exporter' = nextStep
  /\ listed' = [listed EXCEPT !.parts = @ \cup {part},
                              !.objects = IF part = "objects" THEN objects ELSE @,
                              !.ref = IF part = "ref" THEN ref ELSE @,
                              !.file = IF part = "file" THEN file ELSE @]
  /\ UNCHANGED <<source, moments, bundle, importing, troubles>>

(* ... and then copied, each hashed again: a file that has changed since    *)
(* it was listed ends the export, and the save before it stays.             *)
mutantSame == TRUE
same == (part = "ref" => listed.ref = ref) /\ (part = "file" => listed.file = file)
Copy ==
  /\ exporter[1] = "copy"
  /\ IF same
     THEN /\ exporter' = nextStep
          /\ bundle' = IF exporter[2] = Len(order)
                       THEN [content |-> listed, damage |-> "none"] ELSE bundle
     ELSE exporter' = <<"idle", 1>> /\ UNCHANGED bundle
  /\ UNCHANGED <<source, listed, moments, importing, troubles>>

(* The file may be damaged on its way to where it is imported. *)
Damage ==
  /\ bundle.content # nothing /\ bundle.damage = "none" /\ troubles < MaxTroubles
  /\ \E d \in damages \ {"none"} : bundle' = [bundle EXCEPT !.damage = d]
  /\ troubles' = troubles + 1
  /\ UNCHANGED <<source, exporting, importing>>

-----------------------------------------------------------------------------
(* importFromFile(). *)

importStep == UNCHANGED <<source, exporting, bundle, overwrite, before>>
fails(i) == troubles < MaxTroubles /\ troubles' = troubles + 1

(* The checks of the destination, the header and the manifest, before       *)
(* anything is written; then an empty staging directory.                    *)
admitted(i) == bundle.damage \notin {"header", "manifest"}
               /\ (destination = nothing \/ overwrite[i])
StartImport(i) ==
  /\ where[i] = "idle" /\ bundle.content # nothing
  /\ where' = [where EXCEPT ![i] = IF admitted(i) THEN "extract" ELSE "failed"]
  /\ importStep /\ UNCHANGED <<staging, backup, retired, destination, troubles>>

(* Every file is extracted and its digest compared; a failure leaves        *)
(* nothing, StagingDirectoryGuard removes the staging directory.            *)
mutantAnyDigest == TRUE
digestMatches == bundle.damage = "none"
extracted(s, p) ==
  [objects |-> IF p = "objects" THEN bundle.content.objects ELSE s.objects,
   ref |-> IF p = "ref" THEN bundle.content.ref ELSE s.ref,
   file |-> IF p # "file" THEN s.file
            ELSE IF bundle.damage = "none" THEN bundle.content.file ELSE MaxSaves + 1,
   parts |-> s.parts \cup {p}]
Extract(i) ==
  /\ where[i] = "extract"
  /\ LET left == allParts \ staging[i].parts
     IN  \/ /\ \E p \in left : staging' = [staging EXCEPT ![i] = extracted(staging[i], p)]
            /\ digestMatches /\ UNCHANGED <<where, troubles>>
         \/ /\ left = {} /\ where' = [where EXCEPT ![i] = "swap"]
            /\ UNCHANGED <<staging, troubles>>
         \/ /\ left # {}
            /\ IF digestMatches THEN fails(i) ELSE UNCHANGED troubles
            /\ where' = [where EXCEPT ![i] = "failed"]
            /\ staging' = [staging EXCEPT ![i] = nothing]
  /\ importStep /\ UNCHANGED <<backup, retired, destination>>

(* What is at the destination by now is moved to a backup, if overwriting   *)
(* is allowed.                                                              *)
swapAllowed(i) == overwrite[i]
Swap(i) ==
  /\ where[i] = "swap"
  /\ \/ /\ destination = nothing /\ where' = [where EXCEPT ![i] = "promote"]
        /\ UNCHANGED <<staging, backup, destination, troubles>>
     \/ /\ destination # nothing /\ swapAllowed(i)
        /\ where' = [where EXCEPT ![i] = "promote"]
        /\ backup' = [backup EXCEPT ![i] = destination] /\ destination' = nothing
        /\ UNCHANGED <<staging, troubles>>
     \/ /\ destination # nothing /\ IF swapAllowed(i) THEN fails(i) ELSE UNCHANGED troubles
        /\ where' = [where EXCEPT ![i] = "failed"]
        /\ staging' = [staging EXCEPT ![i] = nothing]
        /\ UNCHANGED <<backup, destination>>
  /\ importStep /\ UNCHANGED retired

(* The staging directory takes its place; a rename never replaces a         *)
(* directory that is there.                                                 *)
mayRename == destination = nothing
Promote(i) ==
  /\ where[i] = "promote"
  /\ \/ /\ mayRename
        /\ destination' = staging[i] /\ staging' = [staging EXCEPT ![i] = nothing]
        /\ where' = [where EXCEPT ![i] = "clean"] /\ UNCHANGED troubles
     \/ /\ IF mayRename THEN fails(i) ELSE UNCHANGED troubles
        /\ where' = [where EXCEPT ![i] = "rollback"] /\ UNCHANGED <<staging, destination>>
  /\ importStep /\ UNCHANGED <<backup, retired>>

(* A promotion that failed puts the backup back, if it can; otherwise the   *)
(* caller is told where the old data is. The staging directory is removed.  *)
Rollback(i) ==
  /\ where[i] = "rollback"
  /\ staging' = [staging EXCEPT ![i] = nothing]
  /\ \/ /\ backup[i] = nothing /\ where' = [where EXCEPT ![i] = "failed"]
        /\ UNCHANGED <<backup, destination, troubles>>
     \/ /\ backup[i] # nothing /\ mayRename
        /\ destination' = backup[i] /\ backup' = [backup EXCEPT ![i] = nothing]
        /\ where' = [where EXCEPT ![i] = "failed"] /\ UNCHANGED troubles
     \/ /\ backup[i] # nothing /\ IF mayRename THEN fails(i) ELSE UNCHANGED troubles
        /\ where' = [where EXCEPT ![i] = "stranded"] /\ UNCHANGED <<backup, destination>>
  /\ importStep /\ UNCHANGED retired

(* After the promotion the backup is removed, file by file. When that fails *)
(* what is left of it is kept and reported.                                 *)
Clean(i) ==
  /\ where[i] = "clean"
  /\ \/ /\ backup[i] \notin {nothing, remains}           \* some of it is gone
        /\ backup' = [backup EXCEPT ![i] = remains] /\ retired' = retired \cup {i}
        /\ UNCHANGED <<where, troubles>>
     \/ /\ backup[i] \in {nothing, remains}
        /\ backup' = [backup EXCEPT ![i] = nothing] /\ where' = [where EXCEPT ![i] = "imported"]
        /\ UNCHANGED <<retired, troubles>>
     \/ /\ backup[i] # nothing /\ fails(i) /\ where' = [where EXCEPT ![i] = "imported"]
        /\ UNCHANGED <<backup, retired>>
  /\ importStep /\ UNCHANGED <<staging, destination>>

(* A crash ends the process where it is; no guard removes anything. *)
Crash(i) ==
  /\ where[i] \in {"extract", "swap", "promote", "rollback", "clean"} /\ fails(i)
  /\ where' = [where EXCEPT ![i] = "crashed"]
  /\ importStep /\ UNCHANGED <<staging, backup, retired, destination>>

Next ==
  \/ Save \/ StartExport \/ List \/ Copy \/ Damage
  \/ \E i \in Importer :
       \/ StartImport(i) \/ Extract(i) \/ Swap(i) \/ Promote(i) \/ Rollback(i)
       \/ Clean(i) \/ Crash(i)
Spec == Init /\ [][Next]_vars

-----------------------------------------------------------------------------
(* The files of a bundle were together in the repository at one moment of   *)
(* the export: listing everything before copying anything, and comparing,   *)
(* makes a snapshot of what existed all along. (copyAndVerifyFile)          *)
ExportIsAMoment ==
  bundle.content # nothing => <<bundle.content.ref, bundle.content.file>> \in moments

(* The destination holds nothing, what was there, or all of an undamaged    *)
(* bundle, whatever fails, crashes or runs beside it. (importFromFile)      *)
WholeOrNothing ==
  destination \in {nothing, before, bundle.content}

(* What was at the destination at first is still there, or lies whole in a  *)
(* backup, unless an import that was told to overwrite has put its project  *)
(* in place and begun to remove that backup: a crash or a failure then      *)
(* leaves part of it.                                                       *)
OldIsKept ==
  \/ before = nothing \/ destination = before
  \/ \E i \in Importer : backup[i] = before
  \/ \E i \in retired : overwrite[i]

(* And there is always one whole project, in place or in a backup: no       *)
(* backup is touched before another project is in place, whatever crashes,  *)
(* fails or runs beside it.                                                 *)
OneIsWhole ==
  before # nothing =>
    \/ destination \in {before, bundle.content} \ {nothing}
    \/ \E i \in Importer : backup[i] \in {before, bundle.content} \ {nothing}

(* An import leaves all of a bundle or what was there, never loses the old  *)
(* project without having been told to overwrite it, and not before the new *)
(* one is in place.                                                         *)
ImportIsWhole == TypeOK /\ WholeOrNothing /\ OldIsKept /\ OneIsWhole
=============================================================================
