------------------------------ MODULE MCWindow ------------------------------
(***************************************************************************)
(* What a window does with its project behind the operator's back: it      *)
(* saves what was edited, and takes in what was asked for.  A behaviour is *)
(* of one of the two.                                                      *)
(***************************************************************************)
EXTENDS ProjectPersistence, PayloadIntake, TLC

VARIABLE subject          \* which of the two this behaviour is about

\* With no project open, or with the first of the two, which differ in nothing.
MCInit ==
  /\ subject \in {"saving", "intake"}
  /\ Init /\ IntakeInit
  /\ project \in IF subject = "intake" THEN {"p1", NoDirectory} ELSE {NoDirectory}

MCNext ==
  \/ subject = "saving" /\ Next /\ UNCHANGED <<intakeVars, subject>>
  \/ subject = "intake" /\ IntakeNext /\ UNCHANGED <<vars, subject>>

MCSpec == MCInit /\ [][MCNext]_<<vars, intakeVars, subject>> /\ Fairness /\ IntakeFairness

-----------------------------------------------------------------------------
\* What is under way comes to rest: every queue of edits is worked off, whatever fails
\* (ProjectPersistence), and the catalogue, the scan, the metadata and the inspection
\* are not busy for ever (PayloadIntake).
EverythingSettles == EditsSettle /\ IntakeSettles
=============================================================================
