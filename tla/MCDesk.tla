-------------------------------- MODULE MCDesk --------------------------------
(***************************************************************************)
(* What the desktop keeps of a project beside its settings: the .wimforge  *)
(* bundles it exports and imports, and the workspace tabs with their own   *)
(* repository.  A behaviour is of one of the two.                          *)
(***************************************************************************)
EXTENDS Bundle, TLC

CONSTANTS Pages, MaxTabs, MaxEdits   \* of Workspace, which shares MaxTroubles

ASSUME PagesAssumption == 0 \in Pages
ASSUME MaxTabsAssumption == MaxTabs \in Nat \ {0}

VARIABLES
  isOpen, tabs, active, pending, queue, paused, worker, disk, index, commits, loaders,
  unrestored, generation, nextId, changes, imported, edits, failures,
  subject          \* which of the two this behaviour is about
tabVars == <<isOpen, tabs, active, pending, queue, paused, worker, disk, index, commits,
             unrestored, loaders, generation, nextId, changes, imported, edits, failures>>

WS == INSTANCE Workspace

\* Three changes meet one trouble, two changes meet two.
TroublesAmongFewEdits == edits + generation + imported + failures <= 4

MCInit ==
  /\ subject \in {"tabs", "bundles"}
  /\ WS!Init
  /\ Init /\ (subject = "bundles" \/ (destination = nothing /\ \A i \in Importer : ~overwrite[i]))

MCNext ==
  \/ subject = "tabs" /\ WS!Next /\ UNCHANGED <<vars, subject>>
  \/ subject = "bundles" /\ Next /\ UNCHANGED <<tabVars, subject>>

MCSpec == MCInit /\ [][MCNext]_<<vars, tabVars, subject>>

-----------------------------------------------------------------------------
\* The strip is the one of the last load that was asked for. And until the project is loaded
\* again or tabs are imported, every change of the strip gets its commit in order, when the
\* queue is done the file and the repository hold it, and a save that failed leaves the file
\* as it was committed, unless its rollback failed as well (Workspace).
StripIsSaved ==
  /\ WS!LatestLoadWins /\ WS!QuietTabsAreSaved /\ WS!ChangesAreCommitted
  /\ WS!PausedFileIsCommitted

\* Closing or moving other tabs never changes which tab is the active one (Workspace).
ActiveTabStays == WS!ActiveTabStays
=============================================================================
