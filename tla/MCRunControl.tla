----------------------------- MODULE MCRunControl -----------------------------
(***************************************************************************)
(* From a project to a run: the window's handling of plans and runs on one *)
(* or two project directories, and ServicingPlan::build for every source,  *)
(* container, output format and switch its control flow looks at, with     *)
(* short lists.  A behaviour is of one of the two.                         *)
(***************************************************************************)
EXTENDS RunControl, TLC

VARIABLES
  project, todo, ops, verificationIds, mediaPreparation, imagePreparation,
  lastMediaWrite, lastImageWrite, lastOutputWrite, outcome,
  subject          \* which of the two this behaviour is about
buildVars == <<project, todo, ops, verificationIds, mediaPreparation, imagePreparation,
               lastMediaWrite, lastImageWrite, lastOutputWrite, outcome>>

\* Nothing distinguishes one project directory from another.
DirSymmetry == Permutations(Dirs)

Base == [inputs |-> 2, changes |-> 1, removals |-> 1, pathsOk |-> TRUE, isoPathOk |-> TRUE,
         online |-> FALSE, clone |-> TRUE, inPlace |-> FALSE, discard |-> FALSE, cleanup |-> TRUE,
         verify |-> TRUE, source |-> "folder", container |-> "wim", external |-> FALSE,
         format |-> "none", createIso |-> FALSE, workingIsWim |-> TRUE, tasks |-> 0,
         staged |-> <<"image", "media", "media">>, tweaks |-> 2,
         answers |-> <<"apply", "removeImage">>, postSetup |-> 1]

\* Base with some of its fields given otherwise.
BaseWith(x) == [f \in DOMAIN Base |-> IF f \in DOMAIN x THEN x[f] ELSE Base[f]]

Containers ==
  {BaseWith(x) : x \in [source : {"folder", "iso", "file"}, container : {"wim", "esd", "swm"},
                      external : BOOLEAN, format : {"none", "wim", "esd", "swm", "iso"},
                      createIso : BOOLEAN, workingIsWim : BOOLEAN]}
Switches ==
  {BaseWith(x) : x \in {y \in [source : {"folder", "file"}, clone : BOOLEAN, inPlace : BOOLEAN,
                             discard : BOOLEAN, verify : BOOLEAN, pathsOk : BOOLEAN,
                             isoPathOk : BOOLEAN, createIso : BOOLEAN,
                             answers : {<<>>, <<"removeMedia", "removeImage">>}, tasks : 0..1] :
                        y.createIso = y.isoPathOk}}
Online ==
  {BaseWith(x) : x \in [online : {TRUE}, staged : {<<>>, <<"media">>, <<"image">>}, tweaks : 0..2,
                      answers : {<<>>, <<"apply">>}, format : {"none", "iso"}]}
AllProjects == Containers \cup Switches \cup Online

SP == INSTANCE ServicingPlan WITH Projects <- AllProjects

MCInit ==
  /\ subject \in {"window", "build"}
  /\ Init /\ (subject = "window" \/ \A d \in Dirs : disk[d] = Empty)
  /\ SP!Init /\ (subject = "build" \/ project = Base)

MCNext ==
  \/ subject = "window" /\ Next /\ UNCHANGED <<buildVars, subject>>
  \/ subject = "build" /\ SP!Next /\ UNCHANGED <<vars, subject>>

MCSpec == MCInit /\ [][MCNext]_<<vars, buildVars, subject>>

\* The window alone, for what its documentation says of it.
WindowSpec == MCInit /\ subject = "window" /\ [][MCNext]_<<vars, buildVars, subject>>

\* Everything runs after what it depends on: in a plan, operations that write one
\* tree are ordered, what is published is final and no image is touched before every
\* hash is verified (ServicingPlan), and an exported script keeps that order however
\* the user has reordered the plan (RunControl).
OrderIsKept ==
  SP!WritersOrdered /\ SP!OutputIsFinal /\ SP!ImageWritesGated /\ ScriptRespectsDependencies
=============================================================================
