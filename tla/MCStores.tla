------------------------------- MODULE MCStores -------------------------------
(***************************************************************************)
(* The three stores that a window and command-line processes, or two       *)
(* command lines, change without knowing of each other: the notification   *)
(* centre, the validation history of the virtual machine lab, and a        *)
(* project folder.  A behaviour is of one of the three.                    *)
(***************************************************************************)
EXTENDS CommandLine, TLC

CONSTANTS Clients, window,                               \* of both stores
          Ids, Actions, MaxOps,                          \* of Notifications
          Required, MaxRuns, MaxChanges, MaxMishaps      \* of VmValidation

VARIABLES
  made, state, events, centreIndex, centreCommits, lock, task, queue, items, listed, told,
  mine, withdrawn, mishaps, ops, crashes,
  primary, backup, vmLock, configured, vmTask, saved, finals, vmOps, vmFaults,
  subject          \* which of the three this behaviour is about
centreVars == <<made, state, events, centreIndex, centreCommits, lock, task, queue, items,
                listed, told, mine, withdrawn, mishaps, ops, crashes>>
vmVars == <<primary, backup, vmLock, configured, vmTask, saved, finals, vmOps, vmFaults>>

NC == INSTANCE Notifications WITH
        index <- centreIndex, commits <- centreCommits, acknowledged <- told,
        undone <- withdrawn, faults <- crashes

VV == INSTANCE VmValidation WITH
        lock <- vmLock, task <- vmTask, told <- saved, ops <- vmOps, faults <- vmFaults,
        MaxOps <- MaxChanges, MaxFaults <- MaxMishaps

ASSUME WindowAssumption == window \in Clients
ASSUME NobodyAssumption == NC!nobody \notin Clients
ASSUME ActionsAssumption == Actions \subseteq NC!Lifecycle

Edit(kind, field) == [kind |-> kind, field |-> field]
Edits(es) == [verb |-> "edit", edits |-> es]
Verb(v) == [verb |-> v]
Apply(dry, yes) == [verb |-> "apply", dryRun |-> dry, yes |-> yes]

(* The command lines the run tries: edits that apply and that do not, blind    *)
(* replacements of the project, both undos, and applies with and without --yes. *)
AllCommands ==
  {Edits(<<Edit("set", "disable")>>),
   Edits(<<Edit("remove", "enable"), Edit("add", "disable")>>),
   Edits(<<Edit("set", "discard"), Edit("erase", "dryRun")>>),
   Edits(<<Edit("set", "dryRun")>>),
   [verb |-> "import", doc |-> {"enable", "disable"}], [verb |-> "import", doc |-> {"discard"}],
   Verb("create"), Verb("recipe"), Verb("undo"), Verb("redo"), Verb("undoAction"),
   Verb("redoAction"), Apply(FALSE, FALSE), Apply(FALSE, TRUE), Apply(TRUE, TRUE)}

(* A notification store that was created late or that a rollback has emptied    *)
(* meets two operations; validations the last change or the last mishap.        *)
Bounded ==
  /\ mishaps \subseteq {"torn"} \/ ops < MaxOps
  /\ vmOps + vmFaults < MaxChanges + MaxMishaps

Symmetry == Permutations(Shell)

MCInit ==
  /\ subject \in {"notifications", "validations", "project"}
  /\ NC!Init /\ (subject = "notifications" \/ made = NC!Files)
  /\ VV!Init /\ (subject = "validations" \/ primary.kind = "missing")
  /\ Init

MCNext ==
  \/ subject = "notifications" /\ NC!Next /\ UNCHANGED <<vars, vmVars, subject>>
  \/ subject = "validations" /\ VV!Next /\ UNCHANGED <<vars, centreVars, subject>>
  \/ subject = "project" /\ Next /\ UNCHANGED <<vmVars, centreVars, subject>>

MCSpec == MCInit /\ [][MCNext]_<<vars, centreVars, vmVars, subject>>

-----------------------------------------------------------------------------
\* What a notification operation reported as done stays in the log as long as nobody has
\* withdrawn it and no rollback had failed to read it, and in the commits anyway, in a
\* store that is not created late (Notifications).
AcknowledgedStays == NC!AcknowledgedStays

\* The store's state is what its events say, it is committed when nobody is at it, and
\* the window shows it (Notifications).
CentreAgrees == NC!CentreAgrees

\* A validation reported as saved survives, and what was finished is what its finisher
\* had read (VmValidation).
ValidationsSurvive == VV!ValidationsSurvive
=============================================================================
