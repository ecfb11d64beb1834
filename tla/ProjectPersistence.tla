------------------------- MODULE ProjectPersistence -------------------------
(***************************************************************************)
(* How a window keeps the open project: in memory, in project.json, in Git *)
(* and in the action history.                                              *)
(*                                                                         *)
(* Edits change the project in memory at once and queue up; a worker       *)
(* thread saves, commits and records them one by one and posts the outcome *)
(* back to the window's thread.  Undo and redo run on the window's thread, *)
(* only while nothing is queued.  A file watcher imports changes that      *)
(* other programs make to project.json.  The appending of a history event  *)
(* is one step here; ActionHistory models its inside.                      *)
(***************************************************************************)
EXTENDS Integers, Sequences, FiniteSets

CONSTANTS
  Setting,       \* settings of a project
  Value,         \* values of a setting
  Default,       \* the value a new project gives each of them
  AutoImport,    \* is "watch project config for external changes" on?
  MaxEdits, MaxUndos, MaxExternal, MaxFaults, MaxUndoFaults, MaxCrashes,   \* bounds
  MaxBeside,     \* bound: edits and undos beside an outside change
  MaxMisfortune  \* bound: outside changes, failures and crashes in one behaviour

ASSUME DefaultAssumption == Default \in Value
ASSUME ImportAssumption  == AutoImport \in BOOLEAN
ASSUME LimitsAssumption ==
  MaxEdits \in Nat /\ MaxUndos \in Nat /\ MaxExternal \in Nat /\ MaxFaults \in Nat
    /\ MaxUndoFaults \in Nat /\ MaxCrashes \in Nat /\ MaxBeside \in Nat /\ MaxMisfortune \in Nat

Project == [Setting -> Value]

\* from and to carry both patches of an event: the settings in which they
\* differ are its paths, to is what it sets them to and from what it expects.
Change == [from : Project, to : Project]
Event  == [root : Nat, kind : {"action", "undo", "redo"}, from : Project, to : Project]

VARIABLES
  \* the window
  memory,      \* m_project
  unread,      \* could it last not read the file, and has neither read nor saved it since?
  queue,       \* m_projectMutationQueue
  worker,      \* the save in progress: its next step, or "none"
  saved,       \* what it will report
  undo,        \* the undo or redo in progress
  importing,   \* the import or opening in progress: its next step, or "none"
  imported,    \* what it has read
  timers,      \* 250 ms timers of the watcher whose scope generation is current
  open,        \* is the program running with the project open?
  \* the disk
  file,        \* project.json
  commits,     \* the states of it in HEAD's line of commits
  log,         \* the action history
  noticed,     \* has the watcher yet to report a change of the file?
  edits, undos, externals, faults, undoFaults, crashes

windowVars == <<memory, unread, queue, worker, saved, undo, importing, imported, timers, open>>
diskVars   == <<file, commits, log, noticed>>
bounds     == <<edits, undos, externals, faults, undoFaults, crashes>>
vars       == <<windowVars, diskVars, bounds>>

NoUndo == [pc |-> "none", root |-> 0, kind |-> "undo"]
NewProject == [s \in Setting |-> Default]

\* m_projectTransitionBusy is set from the timer to the end of the import.
transitionBusy == importing # "none"
mutationBusy   == worker # "none"

\* Slots of the window's thread run while no undo occupies it.
windowFree == open /\ undo.pc = "none"

Init ==
  /\ memory = NewProject /\ file = NewProject /\ commits = <<NewProject>>
  /\ queue = <<>> /\ worker = "none" /\ saved = FALSE /\ unread = FALSE
  /\ undo = NoUndo
  /\ importing = "none" /\ imported = NewProject /\ timers = 0 /\ noticed = FALSE
  /\ open = TRUE
  /\ log = <<>>
  /\ edits = 0 /\ undos = 0 /\ externals = 0 /\ faults = 0 /\ undoFaults = 0 /\ crashes = 0

fortunate == externals + faults + undoFaults + crashes < MaxMisfortune

fault == fortunate /\ faults < MaxFaults /\ faults' = faults + 1

writeFile(p) == file' = p /\ noticed' = (AutoImport /\ open)

-----------------------------------------------------------------------------
(* Patches and chains, as ActionHistory computes them.                      *)

Paths(e) == {s \in Setting : e.from[s] # e.to[s]}

mutantUnguarded(p, e) == TRUE

\* collectMergePatchConflicts finds none: every path still has the old value.
unconflicted(p, e) == \A s \in Paths(e) : p[s] = e.from[s]

applyMergePatch(p, e) == [s \in Setting |-> IF s \in Paths(e) THEN e.to[s] ELSE p[s]]

Chain(root) == {i \in DOMAIN log : log[i].root = root}
isEffective(root) == Cardinality(Chain(root)) % 2 = 1
Roots == {log[i].root : i \in DOMAIN log}
LastOf(I) == CHOOSE i \in I : \A j \in I : j <= i

\* The event toggle() appends: the patches of the chain's tail, exchanged.
compensation(root, kind) ==
  LET tail == log[LastOf(Chain(root))]
  IN  [root |-> root, kind |-> kind, from |-> tail.to, to |-> tail.from]

opposite(kind) == IF kind = "undo" THEN "redo" ELSE "undo"

-----------------------------------------------------------------------------
(* Edits.                                                                   *)

mutantWaitsForNextEdit(q) == "none"

\* beginNextProjectMutation(): the worker takes the head of a queue, if any.
nextSave(q) == IF q = <<>> THEN "none" ELSE "write"

mutateProject(s, v) ==
  /\ windowFree /\ edits < MaxEdits /\ (externals = 0 \/ edits + undos < MaxBeside)
  /\ ~transitionBusy
  /\ LET after == [memory EXCEPT ![s] = v]
     IN  /\ memory' = after
         /\ queue' = Append(queue, [from |-> memory, to |-> after])
  /\ worker' = IF mutationBusy THEN worker ELSE "write"
  /\ edits' = edits + 1
  /\ UNCHANGED <<unread, saved, undo, importing, imported, timers, open, diskVars,
                 undos, externals, faults, undoFaults, crashes>>

saveWrite ==
  /\ worker = "write"
  /\ \/ writeFile(Head(queue).to) /\ worker' = "commit" /\ UNCHANGED <<saved, faults>>
     \/ fault /\ worker' = "report" /\ saved' = FALSE /\ UNCHANGED <<file, noticed>>
  /\ UNCHANGED <<memory, unread, queue, undo, importing, imported, timers, open, commits, log,
                 edits, undos, externals, undoFaults, crashes>>

\* Git stages and commits the file as it is by now; the export that follows may
\* still fail the save.
saveCommit ==
  /\ worker = "commit"
  /\ \/ commits' = Append(commits, file) /\ worker' = "record" /\ saved' = TRUE /\ UNCHANGED faults
     \/ /\ fault
        /\ commits' \in {commits, Append(commits, file)}
        /\ worker' = "report" /\ saved' = FALSE
  /\ UNCHANGED <<memory, unread, queue, undo, importing, imported, timers, open, file, log, noticed,
                 edits, undos, externals, undoFaults, crashes>>

\* A change that is committed but cannot be recorded is reported and kept.
saveRecord ==
  /\ worker = "record"
  /\ \/ /\ log' = Append(log, [root |-> Len(log) + 1, kind |-> "action",
                               from |-> Head(queue).from, to |-> Head(queue).to])
        /\ UNCHANGED faults
     \/ fault /\ UNCHANGED log
  /\ worker' = "report"
  /\ UNCHANGED <<memory, unread, queue, saved, undo, importing, imported, timers, open, file, commits,
                 noticed, edits, undos, externals, undoFaults, crashes>>

mutantKeepsMemory(ok, loaded) == memory

\* What finishProjectMutation() leaves in memory: after a failure, the project
\* it loads from the file again, if it can.
memoryAfter(ok, loaded) == IF ok \/ ~loaded THEN memory ELSE file

\* A failed save drops the edits queued behind it.
finishProjectMutation ==
  /\ windowFree /\ worker = "report"
  /\ queue' = IF saved THEN Tail(queue) ELSE <<>>
  /\ \/ memory' = memoryAfter(saved, TRUE) /\ unread' = FALSE
     \/ ~saved /\ memory' = memoryAfter(saved, FALSE) /\ unread' = TRUE
  /\ worker' = nextSave(queue')
  /\ UNCHANGED <<saved, undo, importing, imported, timers, open, diskVars, bounds>>

-----------------------------------------------------------------------------
(* Undo and redo, one disk operation at a time.                             *)

mutantIgnoreSaving == TRUE

requireIdleProjectHistory == ~transitionBusy /\ ~mutationBusy /\ queue = <<>>

undoFault == fortunate /\ undoFaults < MaxUndoFaults /\ undoFaults' = undoFaults + 1

\* undoHistoryEvent() and redoHistoryEvent() first record the compensation.
toggleHistoryEvent(root, kind) ==
  /\ windowFree /\ undos < MaxUndos /\ (externals = 0 \/ edits + undos < MaxBeside)
  /\ requireIdleProjectHistory
  /\ isEffective(root) = (kind = "undo")
  /\ log' = Append(log, compensation(root, kind))
  /\ undo' = [pc |-> "apply", root |-> root, kind |-> kind]
  /\ undos' = undos + 1
  /\ UNCHANGED <<memory, unread, queue, worker, saved, importing, imported, timers, open, file, commits,
                 noticed, edits, externals, faults, undoFaults, crashes>>

undoEvent == log[LastOf(Chain(undo.root))]
undone    == applyMergePatch(memory, undoEvent)

\* applyHistoryState(): refuse a conflict, else write the patched project ...
applyHistoryState ==
  /\ undo.pc = "apply"
  /\ \/ /\ ~unconflicted(memory, undoEvent)
        /\ undo' = [undo EXCEPT !.pc = "repair"]
        /\ UNCHANGED <<file, noticed, undoFaults>>
     \/ /\ unconflicted(memory, undoEvent)
        /\ \/ /\ writeFile(undone)
              /\ undo' = [undo EXCEPT !.pc = "commit"]
              /\ UNCHANGED undoFaults
           \/ /\ undoFault
              /\ undo' = [undo EXCEPT !.pc = "repair"]
              /\ UNCHANGED <<file, noticed>>
  /\ UNCHANGED <<memory, unread, queue, worker, saved, importing, imported, timers, open, commits, log,
                 edits, undos, externals, faults, crashes>>

\* ... commit it, and adopt it; loadProjectState outdates the watcher's timers.  The
\* export after the commit may fail it yet.
applyCommit ==
  /\ undo.pc = "commit"
  /\ \/ /\ commits' = Append(commits, file)
        /\ memory' = undone /\ unread' = FALSE
        /\ undo' = NoUndo
        /\ timers' = 0
        /\ UNCHANGED undoFaults
     \/ /\ undoFault
        /\ commits' \in {commits, Append(commits, file)}
        /\ undo' = [undo EXCEPT !.pc = "repair"]
        /\ UNCHANGED <<memory, unread, timers>>
  /\ UNCHANGED <<queue, worker, saved, importing, imported, open, file, log, noticed,
                 edits, undos, externals, faults, crashes>>

\* A change that was not applied is compensated once more, if that works.
repaired(root, kind) == Append(log, compensation(root, opposite(kind)))

repair ==
  /\ undo.pc = "repair"
  /\ \/ log' = repaired(undo.root, undo.kind) /\ UNCHANGED undoFaults
     \/ undoFault /\ UNCHANGED log
  /\ undo' = NoUndo
  /\ UNCHANGED <<memory, unread, queue, worker, saved, importing, imported, timers, open, file, commits,
                 noticed, edits, undos, externals, faults, crashes>>

-----------------------------------------------------------------------------
(* The watcher, other programs, and the end of this one.                    *)

externalEdit(s, v) ==
  /\ fortunate /\ externals < MaxExternal /\ edits + undos <= MaxBeside
  /\ file[s] # v
  /\ writeFile([file EXCEPT ![s] = v])
  /\ externals' = externals + 1
  /\ UNCHANGED <<windowVars, commits, log, edits, undos, faults, undoFaults, crashes>>

\* onWatchedProjectChanged() waits 250 ms.
watcherReports ==
  /\ windowFree /\ noticed
  /\ noticed' = FALSE
  /\ timers' = timers + 1
  /\ UNCHANGED <<memory, unread, queue, worker, saved, undo, importing, imported, open, file, commits,
                 log, bounds>>

\* The import goes ahead if nothing else is going on; it outdates other timers.
watcherTimer ==
  /\ windowFree /\ timers > 0
  /\ IF requireIdleProjectHistory
     THEN importing' = "load" /\ timers' = 0
     ELSE UNCHANGED importing /\ timers' = timers - 1
  /\ UNCHANGED <<memory, unread, queue, worker, saved, undo, imported, open, diskVars, bounds>>

importLoad ==
  /\ importing = "load"
  /\ \/ imported' = file /\ importing' = "deliver" /\ UNCHANGED faults
     \/ fault /\ importing' = "failed" /\ UNCHANGED imported
  /\ UNCHANGED <<memory, unread, queue, worker, saved, undo, timers, open, diskVars, edits,
                 undos, externals, undoFaults, crashes>>

\* The end of an import, and of openProject().
importDeliver ==
  /\ importing = "deliver" /\ undo.pc = "none"
  /\ memory' = imported /\ unread' = FALSE
  /\ importing' = "none"
  /\ timers' = 0
  /\ open' = TRUE
  /\ UNCHANGED <<queue, worker, saved, undo, imported, diskVars, bounds>>

\* The project could not be read: the window keeps the one it has, if any.
importFails ==
  /\ importing = "failed" /\ undo.pc = "none"
  /\ importing' = "none"
  /\ unread' = TRUE
  /\ UNCHANGED <<memory, queue, worker, saved, undo, imported, timers, open, diskVars, bounds>>

crash ==
  /\ open /\ fortunate /\ crashes < MaxCrashes
  /\ crashes' = crashes + 1
  /\ open' = FALSE
  /\ queue' = <<>> /\ worker' = "none" /\ saved' = FALSE /\ undo' = NoUndo
  /\ importing' = "none" /\ timers' = 0 /\ noticed' = FALSE
  /\ UNCHANGED <<memory, unread, imported, file, commits, log, edits, undos, externals,
                 faults, undoFaults>>

openProject ==
  /\ ~open /\ importing = "none"
  /\ importing' = "load"
  /\ UNCHANGED <<memory, unread, queue, worker, saved, undo, imported, timers, open, diskVars, bounds>>

WindowNext ==
  \/ saveWrite \/ saveCommit \/ saveRecord \/ finishProjectMutation
  \/ applyHistoryState \/ applyCommit \/ repair
  \/ watcherReports \/ watcherTimer \/ importLoad \/ importDeliver
  \/ importFails \/ openProject

Next ==
  \/ WindowNext
  \/ \E s \in Setting, v \in Value : mutateProject(s, v) \/ externalEdit(s, v)
  \/ \E root \in Roots, kind \in {"undo", "redo"} : toggleHistoryEvent(root, kind)
  \/ crash

Spec == Init /\ [][Next]_vars

\* The worker thread, the event loop and the disk go on; nobody has to edit,
\* and the program may be closed for good.
Fairness ==
  /\ WF_vars(saveWrite) /\ WF_vars(saveCommit) /\ WF_vars(saveRecord)
  /\ WF_vars(finishProjectMutation)
  /\ WF_vars(applyHistoryState) /\ WF_vars(applyCommit) /\ WF_vars(repair)

-----------------------------------------------------------------------------
(* Properties.                                                              *)

\* Types, and that exactly a non-empty queue keeps the worker busy.
TypeOK ==
  /\ memory \in Project /\ file \in Project /\ imported \in Project
  /\ queue \in Seq(Change)
  /\ worker \in {"none", "write", "commit", "record", "report"}
  /\ (worker = "none") = (queue = <<>>)
  /\ saved \in BOOLEAN /\ unread \in BOOLEAN /\ open \in BOOLEAN /\ noticed \in BOOLEAN
  /\ undo \in [pc : {"none", "apply", "commit", "repair"}, root : Nat, kind : {"undo", "redo"}]
  /\ importing \in {"none", "load", "deliver", "failed"}
  /\ timers \in Nat
  /\ commits \in Seq(Project) /\ commits # <<>>
  /\ log \in Seq(Event)

quiet ==
  /\ open /\ ~noticed
  /\ queue = <<>> /\ worker = "none" /\ undo = NoUndo
  /\ importing = "none" /\ timers = 0

\* With nothing in progress, the window shows what project.json holds: no edit,
\* failed save or failed undo leaves the two apart, nor does one outside change
\* of the file while the window is idle.  The exception is a file that the window had to
\* read, after a failed save or for an import, and could not: then it keeps what it has, and
\* shows what the file does not hold, until it next saves or reads it.
idleSoFar == edits = 0 /\ undos = 0 /\ crashes = 0
QuietIsPersisted ==
  quiet /\ ~unread /\ (externals = 0 \/ (externals = 1 /\ idleSoFar)) => memory = file

\* Between the thread boundary and the disk nothing overtakes: while edits are
\* queued, memory is what the last of them will write.
QueueLeadsToMemory ==
  /\ queue # <<>> => memory = queue[Len(queue)].to
  /\ \A i \in 1..Len(queue) - 1 : queue[i].to = queue[i + 1].from

\* "Saved and committed first, then its immutable action event": what an action
\* event says was done is in Git before the event exists, unless another program
\* wrote the file in between.
RecordedWasCommitted ==
  externals = 0 => \A i \in DOMAIN log :
    log[i].kind = "action" => \E j \in DOMAIN commits : commits[j] = log[i].to

\* The books of an edit agree on its way from memory to the disk and the history.
EditsAreAccounted == TypeOK /\ QueueLeadsToMemory /\ RecordedWasCommitted

\* The history explains the project: each setting has the value its newest
\* effective action gave it, through selective undo, refused undo and redo in
\* any order.  Failures, crashes and other programs may leave changes without an event, and an
\* undo does not see later edits of a setting that returned to an earlier value.
ActionsOn(s) == {i \in DOMAIN log : log[i].kind = "action" /\ s \in Paths(log[i])}
EffectiveActions(s) == {i \in ActionsOn(s) : isEffective(log[i].root)}

neverReturns(s) ==
  \A i \in ActionsOn(s) :
    /\ log[i].to[s] # Default
    /\ \A j \in ActionsOn(s) : log[i].to[s] = log[j].to[s] => i = j

HistoryExplainsProject ==
  quiet /\ externals = 0 /\ faults = 0 /\ undoFaults = 0 /\ crashes = 0 =>
    \A s \in Setting : neverReturns(s) =>
      LET E == EffectiveActions(s)
      IN  file[s] = IF E = {} THEN Default ELSE log[LastOf(E)].to[s]

\* Every queue of edits comes to its end, whatever fails on the way: it is worked off, or
\* dropped by the first save that fails (LaterEditsRemain).
EditsSettle == queue # <<>> ~> queue = <<>>

\* "If the project/tab save fails, later saves pause", and "later edits remain queued"
\* (docs/wiki): a failed save does not drop the edits made after the one it was for.  It
\* does, in finishProjectMutation().
LaterEditsRemain ==
  [][finishProjectMutation /\ ~saved /\ Tail(queue) # <<>> => queue' # <<>>]_vars
=============================================================================
