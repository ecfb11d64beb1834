# WimForge: models, checks and proofs

WimForge is a Qt desktop program (and a command line) that prepares customised
Windows images. It keeps a project as `project.json` in a local Git repository,
turns it into a plan of operations, and runs these as elevated child processes
(mostly DISM) that write one mounted image. Around that core it keeps several
small stores of its own (notifications, tabs, virtual machines and their
validation), a terminal, and packages that are installed at the first logons of
the finished image.

This directory holds TLA+ models of the parts whose correctness depends on
order: threads, callbacks, processes, file writes, Git commands, crashes.
`PROJECT.json` maps every definition to the lines it models and lists the
components, the runs, the hazards and the properties that cover them, a mutant
for each property, and the theorems.

## 1. The system

| Part | State | Operations | Hard behaviour |
|---|---|---|---|
| **Job engine** `core/JobEngine` | operations and their states, active processes, run flags, journal file | `start`, `schedule`, `launch`, `finishOperation`, `cancel`, `finishRun`, destructor | slots interleaved with child exits and timers, cancel against late exits, crash between journal write and process start |
| **Servicing plan** `core/ServicingPlan` | the list being built and a few "last writer" variables | `build`, `exportPowerShell` | which operation waits for which, over every combination of source, container and output |
| **Run control and recovery** `AppController` | plan shown, refresh flags, recovery state, unmount | refresh, reorder, skip, `runPlan`, `safeUnmountRecovery`, project switch | a plan that is stale when it is used; an unmount beside a newer run |
| **Project persistence** `AppController`, `core/ProjectConfig` | project in memory, queue of edits, `project.json` | edit, background save, undo and redo of events, watcher import, open | edits run ahead of a worker thread; failed steps; outside changes |
| **Payload intake** `AppController`, `core/PayloadCatalog` | replies in flight, busy flags and generations of catalogue, scan, metadata and inspection; the lists of each project | search, download, cancel, add files and folders, inspect, export drivers, open, reload | late answers for another project, source or query; failed openings; a reply freed beside a cancel |
| **Action history** `core/ActionHistory` | `.wimforge/action-history.jsonl`, a lock file | record, undo, redo, compensate, bookmark, create and switch lane | several processes; read, decide, lock, append; rollback; crash between file and commit |
| **Git history** `core/GitHistory` | index and commits of one repository | stage and commit tracked files, revert the latest commit | several writers over one index, killed Git commands |
| **Command line** `cli/CliRunner` | a process per command, nothing between them | project, config, plan, apply, history, action-history, winforge | two commands on one folder or one mount; partial failure |
| **Notification centre** `core/NotificationStore` | state and event file with own Git history; the window's queue | add, read, dismiss, delete, restore, undo | several processes, two files and a commit per change, rollback |
| **Workspace tabs** `core/WorkspaceTabs` | tab strip, queue of snapshots, `.wimforge/tabs` | open, close, move, rename, navigate, reload, import | a queue that merges and pauses; loaders of an older project |
| **Project bundles** `core/ProjectBundle` | one `.wimforge` file; staging and backup directories | export, import | reading beside a writer; swap, promotion and rollback beside another import |
| **VM lab** `core/VmLab`, `core/VmLabManager` | catalog with revision, reviewed plan, asynchronous results | detect, review, execute, cancel, select | review before execution; the provider's state changes in between; deletion of directories |
| **VM validation** `core/VmValidationStore` | primary and backup file | create, milestone, evidence, complete, recover | two files, a lock taken after the read, damage |
| **Terminal** `core/EmbeddedTerminalSession` | ConPTY, process, three worker threads, buffers | `start`, input, `stopGracefully`, `forceStop`, destructor | thread starts that fail half-way, output in every split, timers of an older session |
| **OpenCode** `core/OpenCodeSetup`, `AppController` | attempt, joined callers, request queue | `ensureReady`, `runOpenCode`, shutdown | time limits, an attempt that is cut off |
| **Package studio** `core/PackageStudio`, `core/FirstLogonPackages` | staged bundle, the script's markers and cache | stage, script, first-logon run | restarts, retries, downloads, two logons at once |

How they interact. The controller lives on the GUI thread. Edits change memory
at once and go through a queue to a pool thread, which saves (`ProjectConfig`,
through `GitHistory`), then records (`ActionHistory`), and posts the outcome
back. Each edit also asks for a new plan, which another pool thread builds
(`ServicingPlan`). A run hands the plan to `JobEngine`, whose signals replace
the controller's copy of the plan; its journal is what recovery reads at the
next start. What is asked of the network, of a scan or of DISM answers later,
when another project may be open; generations tell which answers still count.
Every other process (a second window, the command line) meets these
only in the files and in Git.

What makes each part correct:

- *Job engine*: prerequisites first, one image writer, no process without an
  owner, the journal ahead of the processes, no run that hangs, cancellation
  that ends.
- *Servicing plan*: two writers of one tree are ordered by dependencies, what is
  published is final, no image is touched before the hashes are verified.
- *Run control*: the plan shown is of the project or on its way to be; an
  unmount closes only its own run's journal; an exported script keeps the order.
- *Persistence*: memory, file, commit and history agree when nothing is in
  progress; edits are neither lost nor reordered; queues drain.
- *Payload intake*: an answer lands in the project, source and query it was asked
  for; a whole download is on the disk and queued; nothing is busy for ever.
- *Histories*: always readable; what was acknowledged stays; undo and redo
  alternate; a step back takes back only what it was checked for.
- *Stores, tabs, bundles*: acknowledged changes stay, files agree with their
  repository, an import is all or nothing, a bundle is of one moment.
- *VM lab*: only what the program owns is deleted, and what is run was reviewed.
- *Sessions and packages*: output arrives whole and before the exit; a stop ends;
  nothing unchecked is installed; later logons finish the job.

## 2. Modules

| Module | Models | Checked in |
|---|---|---|
| `OperationGraph` | dependency graphs and the engine's questions about them, skips transparent | `MCJobEngine` |
| `GraphCheck` | `operationGraphError` node by node, and the recursive form of those questions | `MCJobEngine` |
| `JobEngine` | the engine, its journal, the children, crash and restart | `MCJobEngine` |
| `ServicingRun` | what a run promises, abstractly | refined by `JobEngine` |
| `ServicingPlan` | `build`, one action per kind of operation | `MCRunControl` |
| `RunControl` | the window between project and engine, recovery, script export | `MCRunControl` |
| `GitHistory` | work files, index and commits; one operator per Git command | instantiated or extended by the next two |
| `ActionHistory` | the journal and the processes that use it | `MCActionHistory` |
| `CommandLine` | commands on one project folder and one image | `MCStores` |
| `Notifications`, `VmValidation` | the two stores, step by step | `MCStores` |
| `ProjectPersistence` | one window's project: memory, queue, worker, undo, watcher | `MCWindow` |
| `PayloadIntake` | what a window takes into its project: catalogue, scans, metadata, inspections | `MCWindow` |
| `Bundle`, `Workspace` | what the desktop keeps beside the settings | `MCDesk` |
| `VmLab` | reviews, executions, catalog, provider, user | itself |
| `Terminal`, `OpenCode`, `PackageStudio` | what runs programs for the operator | `MCSessions` |
| `JobEngineProofs`, `RunControlProofs`, `ActionHistoryProofs`, `WindowProofs`, `StoresProofs`, `DeskProofs`, `SessionsProofs`, `VmLabProofs` | theorems | – |

Components that share no state are checked side by side in one run: `MCDesk`,
`MCStores`, `MCSessions`, `MCWindow` and `MCRunControl` have a variable `subject` that says
which component a behaviour is about, and the others rest in one initial state.
Nothing is lost (each component's behaviours are all there) and nothing is
multiplied. A property of such a run names its component's module.

How states and actions correspond to the code:

**Job engine.** A slot consists of several journal writes and process starts,
and the program can die, or a child exit, between any two. `pc` says how far the
running slot is (`"loop"`: the event loop picks the next). `schedule` is
`scheduleBegin`, `blockOne`\*, `blockDone`, (`launch`, `spawn` | `spawnFails`)\*,
then flush, return or finish. `ticks` counts the pending `singleShot(0)` timers,
which survive their run as in the code. `child` is the operating system's view:
a process can have exited before the engine's slot has run. `writeJournal`
replaces the file or, where the code ignores the result, leaves it
(`journalStale`). `dependencyChainDone` and `dependencyChainFailed` recurse
through skipped operations; `OperationGraph` states them by sets closed under
skips; `GraphCheck` has the recursion, and the two forms are checked and proved to be
equal.

**Servicing plan.** The control flow of `build` is the list of kinds a project
asks for; each action appends one operation and wires it from the local
variables the code keeps (`lastImageWrite` and its like). `writes` and `reads`
name the trees the command touches, which the code does not record; `behind`
collects what the operation waits for, directly or not. The properties compare
the two.

**Run control.** Slots are atomic; the plan builder, the saving worker, the
engine's children and DISM end at any time between them. `refreshPlan` keeps its
three flags (busy, pending, timer). The engine is reduced to its signals and its
journal.

**Histories and command line.** Each process is in a call whose step names its
next file or Git operation. A mutation of the action history reads, takes the
lock, loads again, writes, stages, commits, and on a failure rolls the file back
but not the index, as the code does, and to an empty file when the old bytes could not
be read. (`CommandLine` and `ProjectPersistence` take an append to the action history
for one step that succeeds or fails.) Saves and reverts of `project.json` go on
in the same repository without that lock. An event's identifier stands for its
hash. A command of `CommandLine` reads `project.json`, decides, writes, stages
and commits, or starts the plan's programs one after the other.

**Project persistence.** `mutateProject` changes `memory` and appends to
`queue`; the worker writes, commits, records and reports;
`finishProjectMutation` runs on the window's thread. Undo occupies that thread:
one action per disk operation, with nothing else of the window in between.

**Payload intake.** Every question carries the generations, the project and the
source or query of its moment, as the lambdas in the code capture them; the answer
is an action that compares them. `replies` are the network replies in flight; one
that has ended is freed, and `m_catalogReply` may still name it: a later abort of
it is undefined behaviour, which the model lets end the program (`abortKept`). A
payload is its kind, its list and the project it was asked for.

**Stores.** A notification operation prepares the store without the lock, takes
it, reads, writes the state, appends the event, commits, and restores the files
on a failure, each to what could be read of it before; the window's queue and list are beside it. A validation change
reads without the lock, takes it, reads again, compares revisions, and writes
backup and primary. Processes die between any two steps. What the events of a
notification amount to is stated by the last event that set or cleared each of its
flags (`Replayed`).

**Bundle and tabs.** An export lists every part and then copies and compares it,
part by part; objects of a repository are only added, its ref and files change.
An import extracts, swaps, promotes, rolls back and cleans, each a step that may
fail; a backup that is removed is in pieces for a while (`remains`), and stays so if
that fails or the program dies. The tab strip changes at once; the worker hardens, writes, stages and
commits one snapshot of the queue, and puts the file back when that fails, unless that
fails as well; loaders carry the generation they were
started for.

**VM lab.** A review makes a plan from one inventory; an execution holds the
catalog's lock, repeats the preflight, runs the provider's commands one by one,
takes a second inventory before it deletes, and updates the catalog. A user
works in the provider's own program in between; `calm` records that nobody has
changed the machine since the check. What the preflight compares is a value, as in the
code: VirtualBox's description of the machine, VMware's list of the machines that run
(`evidence`), the listed snapshots (`AsToldBefore`), and the configuration file as it was
when the plan was made (`file`). A change undone before the preflight is not noticed, nor
in VMware one that neither the list nor the file shows.

**Sessions.** The terminal's owning thread, reader, writer and waiter are
separate, as are the calls they queue to the owner. A byte of output is named by
its place, so that loss, repetition and half characters are visible; what a process
writes is text, up to where it ends. The
first-logon script is one run per logon, with marker files, a shared download
cache and a mutex, on a machine that restarts at any time.

## 3. Runs

| Run | Question | Bounds |
|---|---|---|
| `job_engine` | Are ordering, ownership, write-ahead journal and wake-up right under every interleaving? Do runs end, do cancelled runs end whatever the children do, does the engine refine `ServicingRun`? Is the graph check exact? | 8 plans of 3 operations, limits 0, 2 and 17, 2 runs, any number of failing journal writes and crashes; all graphs on 3 operations |
| `action_history` | Do journal, chains and lanes survive two windows, failures, crashes and reverts? | 2 windows, 3 calls, 1 save, 2 faults (a second one beside no revert and no crash), 1 crash, 1 revert among up to 2 calls |
| `run_control` | Is the plan shown the project's, the recovery the journal's, and the order of any plan kept? | 2 project directories (symmetric), 1 driver, 2 edits, 2 runs, 1 switch, 1 crash; `build` for every source, container, format and switch |
| `stores` | Do acknowledged notifications, validations and saves stay, and do files agree with their repositories? | 2 processes each; notifications: 2 ids, 3 operations, 1 crash; validation: 2 runs, 4 changes with 1 mishap or 3 with 2; command line: 3 commands of 15, 1 fault (1.3 million states) |
| `desk` | Are the tabs saved as shown, is a bundle of one moment, an import all or nothing? | 2 pages, 3 tabs, 3 changes with 1 trouble or 2 with 2, a failed rollback being one; 2 saves beside an export, 2 imports, 2 troubles |
| `vm_lab` | Is only what the program owns deleted, and what was reviewed run? | 3 machines (VirtualBox, VMware, the user's own), window and command line, detach, restore, unregister, delete, forget, create (with its start) and register, 2 reviews, 1 trouble (1.4 million states) |
| `sessions` | Is output whole, does a stop end, is nothing unchecked installed, do logons finish? | 2 terminal sessions of 5 bytes, 2-byte buffer; 4 calls of OpenCode, 2 changes of the machine; 5 profiles of at most 2 packages, 2 stagings, 2 troubles |
| `window` | Do memory, disk and history agree after edits, undo, failures, crashes? Does what is taken in land where it belongs? Does everything come to rest? | 2 settings of 3 values, 2 edits, 2 undos, 1 failing save, 1 failing undo, 1 crash, 1 outside change beside 1 edit or undo, at most 2 of these disturbances together; intake: 2 directories, 2 sources, 1 file per update, 3 requests, 1 opening or reload, 1 failure |
| `skip_rebuild` | *Violation*: does a skip survive a rebuild of the plan? | 2 drivers, 2 edits |
| `unmount_overlap` | *Violation*: does a run keep clear of a recovery unmount? | 1 directory, 2 runs, 1 crash |
| `terminal_start` | *Violation*: does `start()` return when a thread cannot be started? | 1 session |
| `failed_save` | *Violation*: does a failed save keep the edits queued behind it? | 2 edits, 1 failing save |

Why the bounds are enough. Three operations give a chain through a skipped one,
a join, two unordered writers, and a third that interferes; two runs give
leftovers of the first. Three calls on two windows give a chain of action, undo,
redo with every overlap of two calls; one fault and one crash each hit every
step, with everything before and after free. A second fault meets the one case that
needs two: a call that can read the journal's bytes no more and then fails to commit. Two settings separate related from
unrelated edits; three values let an edit be overwritten by a different one. Two
directories, and two sources, are needed for what is delivered to the wrong one; three
requests are a question, one that overtakes it, and one that meets what both left; one driver
suffices, since the property about several is the subject of `skip_rebuild`.
`build` has no loop whose second pass differs from its first, so two inputs,
tweaks or staged files show every wiring. In the stores, the third and fourth
operation meet what the first wrote, a second process overtook and a third
rolled back; a notification store that was created late, or that a rollback has
emptied, meets two operations, since what is left to promise of it is little. Shell
items are symmetric. In the VM lab every machine is first created or registered, which
takes one review, so the second is the one that meets it; the run's `VIEW`
leaves out previews that can only be dismissed and listings nobody can review
from any more, and its `CONSTRAINT` stops when the last review has been executed or
dismissed, from where the window can only list and select. Five bytes hold a character that a two-byte buffer splits, drops
the head of, or cuts off at the end; two sessions let timers and queued calls of
the first reach the second.

Where a property is known to fail beside one disturbance, the passing run states
it without that disturbance and still lets the disturbance happen.
`AlternatesInTurn`, `LanesInTurn`, `OlderActionsStayInTurn` and
`HistoryFollowsDisk` speak of histories in which two processes were never inside a
call at once (the decisions precede the lock, see section 4), while `JournalIsWhole` and `ProjectIsKept` hold with
every overlap. `QuietIsPersisted` excludes most outside changes.
`HistoryExplainsProject` speaks of settings that never return to an earlier
value. The part of `AskedEnds` about logons excludes downloads with other contents, unchecked images
and offline profiles with an address only.

Failures the code has no answer to are actions of the models, and the properties
name them as exceptions:

- *A stale list in the journal* (`JobEngine.cpp:642`): `finishRun` goes on after a failed
  write, rereads the older journal and stamps its status over it. A journal that says
  `succeeded` is still of a run that did succeed, and shows no operation failed, blocked
  or cancelled; but it may show operations queued or running, so that
  `SucceededJournalIsComplete` promises the complete list only when that write did not
  fail (`journalStale`). `LiveChildIsJournaled`, likewise, speaks of a journal whose
  last write went well.
- *A file that cannot be opened counts as empty* (`ActionHistory.cpp:479`,
  `NotificationStore.cpp:258`): a rollback then writes an empty file over the old one.
  `JournalIsWhole` and `AcknowledgedStays` except the events lost in this way from the
  file (`lost`, `"emptied"`); it takes two failures in one call, and the commits keep
  the events. `OlderActionsStayInTurn` has the same exception.
- *A project file that cannot be read again* (`AppController.cpp:2085`): after a failed save,
  or when an import fails, memory stays what it was; `QuietIsPersisted` speaks of
  windows that have read or saved the file since (`unread`).
- *A rollback of the tabs that fails* (`WorkspaceTabs.cpp:504`): `tabs.json` keeps what
  was not committed. While saving is paused, the file is the committed one unless this
  has happened since the last commit (`unrestored`); a finished queue makes file,
  repository and screen agree all the same.
- *Tabs that are loaded again or imported* (`undisturbed`): neither waits for the queue, whose
  saves of the older strip may land before or after. `StripIsSaved` then keeps only what
  it says of the strip in memory and of the loads; its three parts about saves speak of
  the time before.
- *A read that fails* (`EmbeddedTerminalSession.cpp:1031`): the reader ends, and the exit is
  reported with bytes unread and no count of them. `OutputIsFaithful` then says that
  all that was read is shown (`ReaderFails`, `reader = "failed"`).
- *A revert's abort* drops what a save beside it has staged (`reverted` in `ProjectIsKept`),
  and *a store created late* empties a log begun beside it (`AcknowledgedStays`, `CentreAgrees`).

`CHECK_DEADLOCK FALSE` is given in the runs whose calls are bounded: when the
users have used up their calls the program idles, which is no error. The engine's
runs check deadlock, as a restart is always possible.

Fairness, and why the code justifies it:

- `job_engine`: the event loop runs posted timers and slots (weak fairness
  of the engine's own actions), a process ends once it has been killed, and, for
  `RunEnds` only, children end (`ChildrenEnd`).
- `window`: the pool threads and the event loop go on, network replies have transfer
  timeouts, and an inspection has a time limit after which its process is killed.
- `sessions`: the terminal's threads, its timers and the calls they queue run; a
  process is under no obligation to write, read or end. OpenCode's processes have
  a time limit after which they are killed. Administrators keep logging on and
  every step of the logon script is bounded by a time limit.

Nobody is assumed to edit, cancel, retry, restart or call anything.

## 4. Findings

Four disagreements between the code and what it says of itself are runs:

- *A skip does not survive a rebuild* (`AppController.cpp:3605`): ids count
  positions, so that after a driver is added the plan skips another change.
- *A run can start while a recovery unmount is at work* (`AppController.cpp:3658`):
  only the unmount asks about the other, `runPlan` does not.
- *`start()` can wait for ever* (`EmbeddedTerminalSession.cpp:1217`): on a failure
  after the reader has started it joins the reader before it closes the pipe end
  that keeps the reader reading.
- *A failed save drops the edits queued behind it* (`AppController.cpp:2084`): although
  `docs/wiki/Projects-and-Sources.md:21`, `Application-Tour.md:23` and
  `Troubleshooting.md:13` say that later saves pause, that **Retry save** appears and that
  later edits remain queued, which is what the queue of tabs does. (`EditsSettle`, in
  `window`, says only that the queue comes to its end, in one way or the other.)

Further observations from modelling, each reachable in the model named:

- `JobEngine.cpp:311`: the message "cancelled before launch" is also used for runs
  in which operations ran.
- `ActionHistory.cpp:573`: two windows can undo one action twice; the check
  precedes the lock (`ActionHistory`).
- `GitHistory.cpp:541`: a step back can take a journal event with it; the commit
  that was checked and the one reverted may differ (`ActionHistory`).
- `AppController.cpp:2092`: "the last committed project state was restored" is said
  of a project loaded from a file that the failed save may already have replaced, and
  also when the file could not be loaded (`ProjectPersistence`, `memoryAfter`).
- `NotificationStore.cpp:383`: `addNotification` uses two variables above their
  declaration; the model has what the lines intend (`Notifications`).
- `ActionHistory.cpp:479`, `NotificationStore.cpp:258`: what cannot be opened for a rollback
  is rolled back to an empty file (`previousBytes`, `Restored`).
- `VmLabProviders.cpp:1362`: what is compared of a VMware machine is which machines run, and of
  every machine a value of the moment: one that was paused or suspended, started and stopped
  again, or edited between the inventory and its review, passes the preflight (`VmLab`, `evidence`).
- `OpenCodeSetup.cpp:374`: once ready, any opencode found by then is used unverified
  (`OpenCode`, `ensureReady`).
- `PackageStudio.cpp:1307`: a first-logon task whose removal fails without a word stays, and
  runs the script again at the next logon (`PackageStudio`, `Complete`).
- `AppController.cpp:2613`, `2726`: the reply of an overtaken search or dialog is freed
  while `m_catalogReply` may still point to it; the next cancel aborts a freed object
  (`PayloadIntake`, `abortKept`).
- `AppController.cpp:2329`, `2956`: a driver downloaded as `.cab` is refused and deleted, as
  only `.inf` is a driver file to `PayloadCatalog` (`PayloadIntake`, `arrives`).
- `AppController.cpp:3524`: the drivers of the host go to the project that is open when
  the export ends; it has no generation (`PayloadIntake`, `ExportEnds`).
- `AppController.cpp:7440`: a reload that fails can leave the scan or the catalogue
  busy, since the answers of the older generation are dropped (`unopened`).
- `AppController.cpp:2944`: a payload is removed before the new file is renamed to its
  place; a rename that fails loses both (`PayloadIntake`, `lost`).
- `AppController.cpp:7421`: with auto import off nothing watches `project.json`; an
  undo whose commit fails and is repaired then leaves the file at the value undone
  to and memory at the old one (`ProjectPersistence` with `AutoImport = FALSE`).
- `AppController.cpp:7434`: an outside change during a save can stay unseen
  (`ProjectPersistence`).
- `AppController.cpp:3929`: undo compares values, not edits; a value that came back
  raises no conflict (`ProjectPersistence`).
- `AppController.cpp:3641`, `894`: `runPlan` starts the plan of the moment, which
  may be newer than the one confirmed (`RunControl`).
- `WorkspaceTabs.cpp:651`: closing one tab leaves the list of tabs as it was; only
  closing several by their indices removes any (`Workspace`).
- `PackageStudio.cpp:1211`: a download with other contents stays in the cache and
  is refused at every later logon (`PackageStudio`, `poisoned`).
- `Bundle`: the bundle of an export beside a save can hold a ref without the
  objects of its commit, because `.git/objects` is listed before `.git/refs`;
  `ExportIsAMoment` therefore speaks of the ref and the ordinary files.

## 5. Proofs

Eight modules hold proofs, for every value of the constants, from the named
assumptions on the constants alone (`Persisted` assumes one setting more).

`JobEngineProofs` (any operations, plans, limits and number of runs; journals
that fail or not):

| Theorem | Says |
|---|---|
| `TypeCorrect` | every variable keeps its type |
| `OwnershipHolds` | `Ownership /\ Cancellation`, the inductive core |
| `OneImageWriterHolds` | never two processes that write the image |
| `ChildrenOwnedHolds` | children belong to the run and stay within the limit |
| `LaunchIsAllowedHolds` | no launch after a cancel, beside a lone operation or over a failure |
| `LiveChildIsJournaledHolds` | a live child is in the journal |
| `PrerequisitesFirstHolds` | work only over finished, unfailed prerequisites |
| `SchedulerIsWokenHolds` | an idle engine with a run has been posted a call |
| `SucceededJournalIsCompleteHolds` | a journal that says succeeded is of a run that did, shows nothing failed, and shows every operation over unless the write of the list failed |
| `TerminalIsFinalHolds` | nothing changes an operation that is over |
| `EngineImplementsRun` | the engine refines `ServicingRun` |
| `GraphChecked` | the check of a plan is exact, and the recursive questions of the code have one answer, the one above |

The argument. `OneImageWriter` speaks of processes and is not inductive: it
needs that processes belong to active operations, that active means running,
and that between `launch` and `spawn` the operation being launched is still
allowed. That is `Ownership`. `Cancellation` says that the queue is empty from
the step on which a cancel takes effect, so that no launch is left to allow.
`WriteAhead` strengthens `LiveChildIsJournaled` from live children to active
operations, as the journal is written one step before the process starts.
`PrerequisitesFirst` is inductive together with types: `DoneAndClean` turns
"every chain is over" and "no chain has failed" into one closed set of
successes and skips, and `CleanIsStable` says no step disturbs such a set.
`SchedulerIsWoken` needs `Wakefulness`, which says for each point of `schedule`
what it leaves for the next, and acyclicity of the accepted plan: some pending
operation has no pending one behind it, so a pass with nothing active launches
or blocks something. `SucceededJournalIsComplete` needs `Completed`: however old the
list in the file is, it is of this run and shows as over only what is over in memory,
which between the two writes of `finishRun` is done or skipped; and that a run that
starts has nothing over (`NothingStarted`). The refinement maps the engine's states to the run's phases;
its step simulation uses the invariants above and `CancelSpoils`, that a
cancelled run can no longer be summarised as a success. Each invariant has one
lemma about `Next` with one step per action, and a temporal theorem on top.

`GraphChecked` is about `GraphCheck`, which runs beside the engine in `MCJobEngine`
(hence the proofs extend that module), for plans of any size. The loop: an operation
is ordered after all it depends on, so that what is ordered has no cycle (`Layered`),
and the degrees count the unordered ones (`Counted`); if the ready list runs empty
before everything is ordered, what is left is a set in which everybody waits for
somebody else of it, a cycle. The recursion: `dependencyChainDone` calls itself for
each dependency of a skipped operation, and TLA+ gives such a function a value only if
its equation has a solution. The largest closed sets (`Over`, `Clean`) solve it
(`DoneExists`, `FailedExists`), and on an accepted graph nothing else does: the
operations with another answer would contain one whose dependencies all have the right
one (`DoneRecursion`, `FailedRecursion`).

`RunControlProofs` proves `RecoveryStateIsCurrent`, `RecoveryClosesOwnRun` and
`StalePlanIsRefreshed` for any directories, drivers and bounds. They
are inductive together with the types of what they mention, with
`RunsAreNumbered` (a running engine has a run) and with `RefreshIsDue`: a build
under way is of the current project, or a further refresh is pending, due or
waiting for a project to load. One lemma, `MutationKeepsIInv`, serves every slot
that changes the project.

Its second part is about the exported script, for any drivers and any edits
(`ScriptsKeepOrder`). Its order is computed by recursion, and what the user keeps of a
list by counting, so the proof needs induction over numbers; that follows from the
library's fact that an injection of a finite set into itself is onto: a set of naturals
has a least member (`Least`), and what holds of 0 and carries over to the next holds of
all (`Climb`). The invariant `PlansSound` says that the plan shown and the one the
engine has are `Sound`: ids are unique and each operation depends on operations of the
list with smaller numbers. The builder's list is sound (`OperationsSound`), and neither
the saved order, whatever stale or foreign ids it names (`ReorderedSound`), nor a move
nor a skip changes that. In a sound list something is always ready (`SomeReady`: of
those not taken, the one with the least number), so that the order takes every
operation once, each after those it depends on (`OrderRespects`, `OrderIsWhole`), and
leaving out what is skipped keeps that (`ScriptInOrder`).

Its third part proves `PlansAreOrdered`: the plan `build` returns for any project,
with lists of any length, satisfies `WritersOrdered`, `OutputIsFinal` and
`ImageWritesGated`. First the control flow: every kind of step has a rank, its
place in the code, and `Shape` says that a list of steps follows the ranks, shown
for each piece of `Program` and for their concatenation. Then the wiring, by an
invariant that says what the local variables of `build` stand for:
`lastMediaWrite` is behind every writer of the media, `imagePreparation` behind
those of the image before the mount, `lastImageWrite` behind those of the image
and the mount and behind every hash from the mount on (`Chained`, `Prepared`,
`Mounted`), and the last operation hands on what the step that only follows it
leaves to it (`Owed`). One lemma per action says that the operation it appends
leaves the plan ordered. All that is asked of a project is that its numbers are
numbers and its lists are lists (`IsProject`). `OrderKept` joins it with the script's
order, as the run checks them.

`ActionHistoryProofs` proves `JournalIsWhole` for any windows, lanes and bounds.
That the journal can be read needs no lock: every copy of it, in the folder, the
index, a commit or a call, is intact and uses identifiers given out before
(`AllSound`), so that an event appended to any copy makes another intact one, and
files swapped by a revert are copies too (`MixedTree`). That an acknowledged event
stays needs it: `Owned` says that whoever is between `load` and `rollback` holds
the lock, `InHand` what that process has read, may put back and is about to
commit, and `Kept` that the folder, the index and HEAD hold what was
acknowledged, as long as no commit has been reverted and but for what a rollback
without the old bytes has lost from the folder (`lost`). `InHand` also says that no
commit has been made for the event in hand, which gives each event its one commit.

`Alternating`, `LanesKept` and `OlderActionsKept` are about calls that never
overlapped, for any number of windows, calls, failures, crashes and reverts. Their
invariant says of every copy of the journal, wherever it lies, that it is `Proper`
(an undo or redo targets the newest event of its chain, a lane is created once and
left on purpose), of the one call at work that the event it has drafted `Suits` the
journal it was read from, which is the one on disk, and of the line of commits that
the latest journal in it is the one on disk but for what a failed commit staged. An
older save reverted alone touches only `project.json`, so that no acknowledged event
goes with it. What calls decide before they take the lock holds in turn only, and
section 4 says what becomes of it otherwise.

`WindowProofs` proves `EditsAreAccounted` and `QuietIsPersisted` for any
settings, values and bounds. `Books` adds to the first what excludes what on the
window's thread (`OneAtATime`) and what the save in progress has done
(`SaveInProgress`). For the second, `Settled` weakens "memory is the file" to "or
the watcher has been told, or the file could not be read", which is inductive: an undo whose commit failed leaves
the file changed and the memory old, and the import that follows brings them
together. That is why `Persisted` assumes `AutoImport`.

`Explanation` proves `HistoryExplainsProject`. The property looks at a quiet window;
`Ledger` says at every step which actions explain the project as far as it is
recorded: those in effect, each of which found what those before it left, while the
queue holds what is not recorded yet and an undo in progress has recorded its event
before the file follows. Every chain agrees with its action by parity (`Chained`: an
event flips its chain, `Flips`). An undo of a value that never returns can then only
be of the last action that explains it (`Undone`), and a redo comes after all of
them (`Redone`), since every action found a value set before it.

It also proves `IntakeIsSound`, for any projects, sources, requests and failures
(`NoDirectoryAssumption`, `UpdateAssumption`). Most of its parts are inductive
together. Two are not: that the results fit the query asks what the replies in
flight were asked for (`Replies`: the search of the latest operation is for the query
shown), and that a busy sheet has a reply to wait for asks that this reply is the
current one (`BusyIsAnswered`), as a stale one is freed without an answer.

`StoresProofs` proves `ValidationsSurvive`, `AcknowledgedStays` and `CentreAgrees`
for any number of clients, runs, operations, failures, damages and kills
(`WindowAssumption`, `NobodyAssumption`, `ActionsAssumption`). For the validation
store, `Known` collects every run that anybody has seen: saved, read by a process, or
on display. Each file that can be read carries all of them (`Disk`), and so do the
list that the owner of the lock is about to write and the backup it may put back
(`Writes`). `Carries` also says that one revision of a run has one version only, so
that comparing revisions under the lock is enough: the run that is finished is the
one its user had read.

For the notification centre, `Kept` says that the events that are owed (reported and
not withdrawn) are in the log, and their notifications in the state, of the files and
of the copies the owner of the lock would put back; `Agreed` that every commit, every
copy kept for a rollback and the files nobody is at match: the state is what the
events say (`Matches`); `Settled` that without kills the files nobody is at are the
last commit. Each is stated for the mishaps it survives: a kill between the two writes
leaves them torn, a rollback of an operation that could not read a file empties it, and
a store that is created under another process loses what it held. `SaysAppend` and `MatchesAppend` carry the induction over the log: an event
appended changes what is said of its own notification as `changed` does and nothing
else.

`DeskProofs` proves `ExportIsAMoment` and `ImportIsWhole`, for any number of
importers and saves. Refs only advance (`Grows`), so there was a moment of the
listed file at a ref between the listed one and today's (`ListedAt`); when the
copied ref still equals the listed one, that moment is the bundle's.
`Extracted` says for each step of an import what its staging directory holds,
and `Kept` that a backup is what was at the destination, of an importer told to
overwrite, and in pieces only while that importer removes it. `Somewhere` says that
nothing is at the destination only while a backup that nobody is removing is whole,
which gives `OneIsWhole`: there is always one whole project. `ImportInv` joins them
with the export's invariant.

It also proves `StripIsSaved` and `ActiveTabStays`, for any pages, limits, edits,
reloads, imports and failing saves (`PagesAssumption`). `TabsInv` says that every
strip, in memory, in the queue, in the file or with a loader, has its active tab and
no id twice (`WholeEverywhere`), which is what lets an operation that keeps the
active tab find it again; that the last load asked for is the only one with its
number and keeps the tabs closed until it comes (`LoadsInOrder`); that the save at
work is the head of the queue (`HeadAtWork`); and how each step of a save leaves the
file, the index, the commits and the strip, given what a failed rollback has left
(`InStep`). The commits followed by what
still waits hold the recorded changes in their order (`AllAudited`): a commit moves
one entry across that line, and what a navigation replaces is a navigation, never the
one being saved. Every slot of the strip is first shown to be a `Change` to a whole
strip that keeps the active tab, and the rest of the argument knows only that.

`StoresProofs` also proves `AppliesAreSafe`, `ProjectIsKept` and the action
property `HistoryFollowsDisk` for any set of shells (`Nobody \notin Shell`) and
any number of commands. `KeptInv` says what each step of a save leaves on disk,
in the index and in the history while no revert has intervened (`Folder`,
`Calls`: the stamp on disk is the newest, the index is never newer);
`AppliesInv` says that what a process has executed is the beginning of its
confirmed plan and that between its first and last program it is the one that
mounted the image. `PlanShape`: a plan mounts first and only then. `Alone` adds,
while no two commands have been under way at a time, what the step before has
made sure of (`Sure`: what is staged is what is on disk, what is reverted is
HEAD's parent) and that the journal is never staged without being committed;
with it every commit is the one `HistoryFollowsDisk` promises.

`SessionsProofs` proves `OutputIsFaithful` for any output, buffer sizes, inputs and
sessions. What a process writes is text (`StreamAssumption`: a second byte follows a
first one, and nothing else does), since the property speaks of characters; the
process may end inside one. `Threads` says that an exit comes only to the owner of a
running session and is the only one, and that the reader has ended by then, with all
that was written unless a read has failed. `Flow` says that what is pending is a piece of the output that ends
where the reader is, that the carry is the byte before that piece if it begins a
character, and that the transcript before them makes up the rest, unless bytes were
dropped; the cut of a drop ends between two characters. The bytes are shown to stay
such a piece by lemmas about sequences (`KeptPiece`, `JoinedWhole`, `PieceWhole`),
and one of them (`DrainShows`) says what a drain does to transcript and carry.

It also proves `InstallsAreSafe` for any profiles and any numbers of calls, changes,
troubles and stagings; of a profile it assumes only that it is a list of packages, each
with an identifier and a list of those it depends on (`ProfilesAssumption`). `Staging`
says that what the desktop's staging has copied is good, lies beside the script of the
same profile, and covers, with what is left to copy, all that the profile requires; so
what it records covers it too (`Recorded`), and while the gate's check counts, the files
are the recorded ones: hence a checked image is complete. `Logon` says of a running
script that it holds the mutex and is the only one, that it has seen exactly the packages
before the one it is at, and that it is at an installation of a payload only with good
contents (those it carries, or the cached ones, which only a download into an empty cache
changes).

That this order is right is `OrderIsRight`: for any valid profile it has every enabled
package, once and after all it depends on. The code visits the packages recursively,
and nothing says beforehand that such a recursion has a solution. A visit calls only
ones that have fewer packages left to enter, or as many and a shorter list (`Earlier`),
and any set of visits has a first (`FirstVisit`, from the same pigeonhole argument as in
`JobEngineProofs`); so answers that agree with the code on some visits agree with each
other (`PartsAgree`), their union is one more such answer (`JointIsPart`), and it speaks
of every visit (`EveryVisit`). `Served` says what a visit that meets no cycle leaves, and
a first visit for which it fails is impossible. `CyclesAreFound` is the other half: a
cycle is reported exactly when enabled packages depend on one another in a circle, since
the packages being visited lie on a trail of dependencies (`Trail`) that a package met
again closes, while in an order no circle has a first member. `UnregisteredHolds` is the
safety part of `AskedEnds` for the packages: what a running script has seen stays marked as
installed (`SeenMarks`, which needs that no package comes twice in the order), so a
script at its end has every package marked when it unregisters the task.

`VmLabProofs` proves all three properties of the VM lab for any machines,
providers, processes and bounds. An execution owns the catalog's lock from its
first step to its last (`GoodWorker`), so no two execute at once (`OneExecutes`)
and what one of them has checked is changed by the user only, who takes its calm
away. `MayRun` says that a worker about to run its command has found the provider
telling what it told before the review, by value; `MayRemove` what one about to remove
a directory has made sure of. `IInv` adds that plans never create over
the user's own machine, which keeps that one unmanaged (`NotTheirs`). Lemmas
named after what moves (`WorkerMoves`, `ClientMoves`, `ScreenStep`) say once
what a step of each sort must preserve, and one lemma per action uses them.

Only model-checked: liveness under fairness, which is beyond the prover (`RunEnds`,
`CancelEnds`, `EverythingSettles`, `AskedEnds`). Every other property of a passing run is
stated by a theorem.

## 6. Not modelled

- *Unattended setup, policies (`UnattendGenerator`, `GpoCatalog`), recipes*:
  conversions from settings to files without state of their own.
- *Image inspection*: parsing of what DISM prints; when the answer counts is in
  `PayloadIntake`, as is the traffic with the update catalogue.
- *Logging, launching, search*: a log behind a mutex, process settings, a
  substring index; no protocol.
- *Start-up and elevation*: one relaunch through Windows.
- *QML pages*: they call the controller's slots, which are modelled.
- *Provisioning server, WinPE client, website, build scripts*: other programs or
  no run-time state.

In what is modelled: text, layout, paths, log files and messages; validation of
fields beyond what a property tells apart; how commands are put together; Git's
own lock files and time limits (`GitHistory.cpp:116`); patches below one level;
repository creation and its attribute checks; merge-patch helpers and bounded
queries of the action history; creating, closing and restoring whole projects;
the undo a recovery rollback calls; what DISM does to an image. Children of a
crashed program are forgotten by the model at the restart, as the program itself
forgets them.

## 7. What would come next

Nested merge patches as functions on trees; start-up with the orphans of an earlier
crash.
