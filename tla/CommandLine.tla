----------------------------- MODULE CommandLine -----------------------------
(***************************************************************************)
(* The command line on one project folder: CliRunner's project, config,    *)
(* plan, apply, history, action-history and winforge import commands.      *)
(* Every command is a process of its own that reads project.json, decides, *)
(* and then writes, stages and commits, or starts the plan's programs one  *)
(* after the other; nothing orders two such processes but Git's own locks  *)
(* and DISM's refusal to mount a directory twice.                          *)
(*                                                                         *)
(* A document is the set of its settings that some property tells apart,   *)
(* with the stamp of the save that wrote it.  ActionHistory models the     *)
(* journal; here an undo appends its event in one step.                    *)
(***************************************************************************)
EXTENDS GitHistory, FiniteSets

CONSTANTS
  Shell,        \* command-line processes
  Command,      \* the command lines that are tried
  MaxCalls,     \* bound: commands started
  MaxFaults     \* bound: writes and Git commands that fail, programs that fail, processes killed

VARIABLES
  call,         \* the command each process is at
  mountedBy,    \* the process that mounted the image, or Nobody
  serviced,     \* the programs that changed the mounted image since it was mounted
  calls, writes, faults,   \* how often each has happened
  overlapped,   \* two commands have been under way at the same time
  reverted,     \* a history undo or redo has touched the folder
  acknowledged  \* stamps of the saves reported as successful

folder == <<gitVars, acknowledged, reverted>>
target == <<mountedBy, serviced>>
vars == <<folder, call, target, calls, writes, faults, overlapped>>

Nobody == "nobody"

Setting == {"paths", "enable", "disable", "discard", "dryRun", "recipe"}

ExitCode == {"Success", "Usage", "Validation", "Conflict", "ConfirmationRequired",
             "ExternalProcessFailed", "IoError", "InternalError"}

\* project is what is going to be saved, or what the plan was built from; the
\* fields after it are runPlanCommand's loop, stamp is the save's number.
Call == [command : Command, pc : STRING, project : SUBSET Setting, stamp : Nat,
         plan : Seq(STRING), completed : SUBSET Nat, executed : Seq(STRING), code : ExitCode]

started(c, pc) ==
  [command |-> c, pc |-> pc, project |-> {}, stamp |-> 0, plan |-> <<>>, completed |-> {},
   executed |-> <<>>, code |-> "Success"]

Revert == -1          \* the subject of a commit that undoes another one
isRevert(commit) == commit.event = Revert

-----------------------------------------------------------------------------
(* Documents and plans. *)

\* validate(): no feature may be asked for and refused.
validate(d) == ~{"enable", "disable"} \subseteq d

\* validateForExecution(): the paths have to lead somewhere as well.
validateForExecution(d) == validate(d) /\ "paths" \in d

\* One edit of a config command, or the reason why it cannot be applied.
applies(d, edit) == edit.kind \in {"set", "add"} \/ edit.field \in d
applyEdit(d, edit) ==
  IF edit.kind \in {"set", "add"} THEN d \union {edit.field} ELSE d \ {edit.field}

\* saveEditedProject() edits a copy; the first edit that does not apply ends it.
afterEdits(d, edits) ==
  LET doc[i \in 0..Len(edits)] == IF i = 0 THEN d ELSE applyEdit(doc[i - 1], edits[i])
  IN  [ok |-> \A i \in DOMAIN edits : applies(doc[i - 1], edits[i]), doc |-> doc[Len(edits)]]

\* ServicingPlan::build, as far as the loop below tells plans apart.
build(d) ==
  <<"mount">>
  \o (IF "enable" \in d THEN <<"enable">> ELSE <<>>)
  \o (IF "disable" \in d THEN <<"disable">> ELSE <<>>)
  \o <<IF "discard" \in d THEN "discard" ELSE "commit">>
dependsOn(i) == IF i = 1 THEN {} ELSE {i - 1}
destructive(operation) == operation \in {"disable", "commit"}
destructiveCount(plan) == Cardinality({i \in DOMAIN plan : destructive(plan[i])})

-----------------------------------------------------------------------------
Init ==
  /\ work = [journal |-> <<"edit">>, project |-> [doc |-> {"paths", "enable"}, stamp |-> 0]]
  /\ index = work
  /\ commits = <<[tree |-> [work EXCEPT !.project.doc = {"paths"}], event |-> NoEvent],
                 [tree |-> work, event |-> NoEvent]>>
  /\ call = [p \in Shell |-> started([verb |-> "none"], "idle")]
  /\ mountedBy = Nobody
  /\ serviced = <<>>
  /\ calls = 0 /\ writes = 0 /\ faults = 0
  /\ overlapped = FALSE /\ reverted = FALSE
  /\ acknowledged = {}

busy(p) == call[p].pc # "idle"

goOn(p, r) == call' = [call EXCEPT ![p] = r]
to(p, pc) == goOn(p, [call[p] EXCEPT !.pc = pc])
exit(p, code) == goOn(p, [call[p] EXCEPT !.pc = "idle", !.code = code])

fails == faults < MaxFaults /\ faults' = faults + 1

firstStep(verb) ==
  CASE verb \in {"edit", "import", "create", "apply", "recipe"} -> "load"
    [] verb \in {"undo", "redo"} -> "latest"
    [] OTHER -> "toggle"

\* CliRunner::run hands the arguments to one command.
run(p) ==
  /\ ~busy(p) /\ calls < MaxCalls
  /\ \E c \in Command : goOn(p, started(c, firstStep(c.verb)))
  /\ calls' = calls + 1
  /\ overlapped' = (overlapped \/ \E q \in Shell : busy(q))
  /\ UNCHANGED <<folder, target, writes, faults>>

\* What a command wants to save, decided from what project.json says now.
configEdits(d, c) == afterEdits(d, c.edits)

\* project create does not look whether there is a project, and an imported file
\* takes the place of what there is as well.
projectEdits(d, c) == [ok |-> TRUE, doc |-> IF c.verb = "create" THEN {} ELSE c.doc]

recipeEdits(d, c) == [ok |-> TRUE, doc |-> d \union {"recipe"}]

wanted(d, c) ==
  CASE c.verb = "edit"   -> configEdits(d, c)
    [] c.verb = "recipe" -> recipeEdits(d, c)
    [] c.verb \in {"create", "import"} -> projectEdits(d, c)

loadProject(p) ==
  /\ call[p].pc = "load" /\ call[p].command.verb # "apply"
  /\ LET edited == wanted(work.project.doc, call[p].command) IN
       IF edited.ok /\ validate(edited.doc)
         THEN goOn(p, [call[p] EXCEPT !.pc = "write", !.project = edited.doc])
         ELSE exit(p, "Validation")
  /\ UNCHANGED <<folder, target, calls, writes, faults, overlapped>>

\* ProjectConfig::save: the file, then its own Git commit.
write(p) ==
  /\ call[p].pc = "write"
  /\ \/ /\ work' = [work EXCEPT !.project = [doc |-> call[p].project, stamp |-> writes + 1]]
        /\ goOn(p, [call[p] EXCEPT !.pc = "stage", !.stamp = writes + 1])
        /\ writes' = writes + 1
        /\ UNCHANGED <<index, commits, faults>>
     \/ fails /\ exit(p, "IoError") /\ UNCHANGED <<gitVars, writes>>
  /\ UNCHANGED <<acknowledged, reverted, target, calls, overlapped>>

commit(p) ==
  /\ \/ /\ call[p].pc = "stage" /\ stage({"project"}) /\ to(p, "commit")
        /\ UNCHANGED <<acknowledged, faults>>
     \/ /\ call[p].pc = "commit" /\ commitIndex(NoEvent)
        /\ \/ exit(p, "Success") /\ acknowledged' = acknowledged \union {call[p].stamp} /\ UNCHANGED faults
           \/ exit(p, "IoError") /\ UNCHANGED acknowledged /\ fails       \* the auto-export fails
     \/ /\ call[p].pc \in {"stage", "commit"} /\ fails /\ exit(p, "IoError")
        /\ UNCHANGED <<gitVars, acknowledged>>
  /\ UNCHANGED <<reverted, target, calls, writes, overlapped>>

-----------------------------------------------------------------------------
(* runHistoryCommand *)

\* "redo" looks at the latest commit first, in a Git command of its own.
historyLatest(p) ==
  /\ call[p].pc = "latest"
  /\ IF call[p].command.verb = "redo" /\ ~isRevert(commits[Len(commits)])
       THEN exit(p, "Conflict") ELSE to(p, "revertable")
  /\ UNCHANGED <<folder, target, calls, writes, faults, overlapped>>

revertLatest(p) ==
  /\ \/ /\ call[p].pc = "revertable"
        /\ IF revertable({"project"}) THEN to(p, "revert") ELSE exit(p, "Conflict")
        /\ UNCHANGED <<gitVars, faults>>
     \/ /\ call[p].pc = "revert"
        /\ IF revertApplies THEN revertNoCommit /\ to(p, "commitRevert")
                            ELSE revertAbort /\ exit(p, "Conflict")
        /\ UNCHANGED faults
     \/ /\ call[p].pc = "commitRevert" /\ commitIndex(Revert) /\ exit(p, "Success")
        /\ UNCHANGED faults
     \/ /\ call[p].pc = "commitRevert" /\ fails /\ revertAbort /\ exit(p, "Conflict")
  /\ reverted' = TRUE
  /\ UNCHANGED <<acknowledged, target, calls, writes, overlapped>>

-----------------------------------------------------------------------------
(* runActionHistoryCommand *)

\* toggle(): the journal has one action, and its chain alternates.
mayToggle(verb) == (verb = "undoAction") = (work.journal[Len(work.journal)] # "undoAction")

\* The event is appended and committed under the journal's lock; the document
\* it carries is saved afterwards, in steps of its own.
toggle(p) ==
  LET verb    == call[p].command.verb
      grown   == Append(work.journal, verb)
      carried == IF verb = "undoAction" THEN {"paths"} ELSE {"paths", "enable"}
  IN
  /\ call[p].pc = "toggle"
  /\ IF mayToggle(verb)
       THEN /\ work' = [work EXCEPT !.journal = grown]
            /\ index' = [index EXCEPT !.journal = grown]
            /\ commits' = Append(commits, [tree |-> index', event |-> Len(grown)])
            /\ goOn(p, [call[p] EXCEPT !.pc = "write", !.project = carried])
       ELSE exit(p, "Conflict") /\ UNCHANGED gitVars
  /\ UNCHANGED <<acknowledged, reverted, target, calls, writes, faults, overlapped>>

-----------------------------------------------------------------------------
(* runPlanCommand *)

previewOnly(c, d) == c.dryRun \/ "dryRun" \in d

confirmed(c, plan) == destructiveCount(plan) = 0 \/ c.yes

\* A project that asks for a dry run need not be ready for execution.  The plan may not
\* be built, or its script not be written.
runPlan(p) ==
  LET c == call[p].command  d == work.project.doc  plan == build(d) IN
  /\ call[p].pc = "load" /\ c.verb = "apply"
  /\ \/ /\ IF ~previewOnly(c, d) /\ ~validateForExecution(d) THEN exit(p, "Validation")
           ELSE IF previewOnly(c, d) THEN exit(p, "Success")
           ELSE IF ~confirmed(c, plan) THEN exit(p, "ConfirmationRequired")
           ELSE goOn(p, [call[p] EXCEPT !.pc = "execute", !.project = d, !.plan = plan])
        /\ UNCHANGED faults
     \/ fails /\ \E code \in {"Validation", "IoError"} : exit(p, code)
  /\ UNCHANGED <<folder, target, calls, writes, overlapped>>

mutantIgnoreExit(ok) == FALSE
stopsAt(ok) == ~ok

\* DISM: one mount of a directory at a time, and changes only to a mounted one.
possible(operation) == (operation = "mount") = (mountedBy = Nobody)

ended(p, operation) ==
  /\ mountedBy' = CASE operation = "mount" -> p
                    [] operation \in {"commit", "discard"} -> Nobody
                    [] OTHER -> mountedBy
  /\ serviced' = IF operation \in {"mount", "commit", "discard"} THEN <<>>
                 ELSE Append(serviced, p)

\* One turn of the loop: the dependencies, the program, its exit code.
execute(p) ==
  LET r == call[p]
      i == Len(r.executed) + 1
      turn(ok) ==
        LET ran == [r EXCEPT !.executed = Append(@, r.plan[i])] IN
        IF stopsAt(ok) THEN goOn(p, [ran EXCEPT !.pc = "idle", !.code = "ExternalProcessFailed"])
                       ELSE goOn(p, [ran EXCEPT !.completed = @ \union {i}])
  IN
  /\ r.pc = "execute" /\ i \in DOMAIN r.plan
  /\ IF ~dependsOn(i) \subseteq r.completed
       THEN exit(p, "InternalError") /\ UNCHANGED <<target, faults>>
       ELSE \/ possible(r.plan[i]) /\ ended(p, r.plan[i]) /\ turn(TRUE) /\ UNCHANGED faults
            \/ ~possible(r.plan[i]) /\ turn(FALSE) /\ UNCHANGED <<target, faults>>
            \/ fails /\ turn(FALSE) /\ UNCHANGED target
  /\ UNCHANGED <<folder, calls, writes, overlapped>>

finish(p) ==
  /\ call[p].pc = "execute" /\ Len(call[p].executed) = Len(call[p].plan)
  /\ exit(p, "Success")
  /\ UNCHANGED <<folder, target, calls, writes, faults, overlapped>>

\* The process is killed; what it has changed stays.
kill(p) ==
  /\ busy(p) /\ fails
  /\ exit(p, "InternalError")
  /\ UNCHANGED <<folder, target, calls, writes, overlapped>>

Next ==
  \E p \in Shell :
    \/ run(p) \/ loadProject(p) \/ write(p) \/ commit(p)
    \/ historyLatest(p) \/ revertLatest(p) \/ toggle(p)
    \/ runPlan(p) \/ execute(p) \/ finish(p) \/ kill(p)

Spec == Init /\ [][Next]_vars

-----------------------------------------------------------------------------
\* Every project.json on disk and in the history can be loaded, saved and planned
\* again, however two commands interleave and wherever they stop.
NoInvalidProject ==
  \A d \in {work.project.doc} \union {commits[i].tree.project.doc : i \in DOMAIN commits} :
    ~{"enable", "disable"} \subseteq d

\* A save that was reported as successful is in the history, itself or as part of
\* what another command had written over it by then.  A history undo at the same
\* time can drop it: `git revert --abort` throws away what the save has staged.
AcknowledgedIsCommitted ==
  ~reverted => \A s \in acknowledged :
                 \E i \in DOMAIN commits : commits[i].tree.project.stamp >= s

\* As long as no two commands overlap, whatever failed or was killed before: a save
\* commits the project that is on disk, and an undo or redo commits the project
\* from before the latest commit and leaves the journal alone.
HistoryFollowsDisk ==
  [][LET n == Len(commits') IN
     ~overlapped' /\ commits' # commits /\ commits'[n].event \in {NoEvent, Revert} =>
       /\ commits'[n].tree.project = work'.project
       /\ isRevert(commits'[n]) => /\ commits'[n].tree.project = commits'[n - 2].tree.project
                                   /\ commits'[n].tree.journal = commits'[n - 1].tree.journal]_vars

\* Of two apply commands on one image only the one that mounted it changes it,
\* although neither knows of the other.
OneServicer == \A i \in DOMAIN serviced : serviced[i] = mountedBy

\* An apply runs the plan of a project that is ready for execution and asks for no
\* dry run, in order, nothing after a failure, and nothing destructive without --yes.
RanAsConfirmed ==
  \A p \in Shell :
    LET r == call[p] IN
    /\ r.executed # <<>> => "paths" \in r.project /\ "dryRun" \notin r.project
    /\ \A i \in DOMAIN r.executed :
         /\ r.executed[i] = r.plan[i]
         /\ r.executed[i] \in {"disable", "commit"} => r.command.yes
         /\ i > 1 => i - 1 \in r.completed

\* Every project on disk and in the history is one that can be loaded again, and what a
\* command has reported as saved is in the history.
ProjectIsKept == NoInvalidProject /\ AcknowledgedIsCommitted

\* Only the apply that mounted the image changes it, and it runs what was confirmed, in
\* order and nothing after a failure.
AppliesAreSafe == OneServicer /\ RanAsConfirmed
=============================================================================
