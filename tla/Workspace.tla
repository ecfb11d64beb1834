------------------------------ MODULE Workspace ------------------------------
(***************************************************************************)
(* The workspace tabs of one project: the tab strip in memory, the queue   *)
(* of snapshots a background worker writes to .wimforge/tabs and commits   *)
(* there, and the loader thread that opens the project's tabs again.  The  *)
(* strip changes at once; each change queues a snapshot, and a navigation  *)
(* replaces a queued navigation.  The worker hardens the repository (which *)
(* deletes Git's index), writes tabs.json, stages and commits it; a failed *)
(* save pauses the queue until the user retries.                           *)
(***************************************************************************)
EXTENDS Naturals, Sequences, SequencesExt

CONSTANTS
  Pages,         \* page numbers, for 0 .. 11
  MaxTabs,       \* for the limit of 200 tabs
  MaxEdits,      \* bound: changes of the tab strip
  MaxTroubles    \* bound: reloads of the project, imports and failing saves together

VARIABLES
  isOpen, tabs, active,  \* m_workspaceTabs: active counts from 1, 0 is no tab
  pending,               \* m_pendingCommitMessage, or "none"
  queue,                 \* m_workspacePersistenceQueue: [message, layout]
  paused,                \* m_workspacePersistencePaused
  worker,                \* the save at work: its step, its snapshot, the bytes it replaced
  disk,                  \* tabs.json
  index,                 \* Git's index: a layout, or missing
  commits,               \* HEAD's line of commits: [message, layout]
  loaders,               \* threads that open the tabs: [generation, step, layout]
  generation,            \* m_projectScopeGeneration
  unrestored,            \* history: could tabs.json not be restored, with no commit since?
  nextId,                \* the next tab id, for the UUIDs
  changes,               \* history: the changes that are not navigation, in order
  imported, edits, failures

strip == <<isOpen, tabs, active>>
saving == <<queue, paused, worker>>
repository == <<disk, index, commits>>
loading == <<loaders, generation>>
bounds == <<imported, edits, failures>>
vars == <<strip, pending, saving, repository, unrestored, loading, nextId, changes, bounds>>

Layout(t, a) == [tabs |-> t, active |-> a]
Missing == Layout(<<>>, 0)
makeTab(id, page) == [id |-> id, page |-> page, custom |-> FALSE]
IdsOf(t) == {t[i].id : i \in DOMAIN t}
IdleWorker == [step |-> "idle", save |-> [message |-> "none", layout |-> Missing], previous |-> Missing]
busy == worker.step # "idle"

\* The positions S in order, when they are n.
inOrder(S, n) ==
  {place \in [1 .. n -> S] : /\ \A j, k \in 1 .. n : j < k => place[j] < place[k]
                            /\ \A i \in S : \E k \in 1 .. n : place[k] = i}

calm == generation + imported + failures < MaxTroubles

-----------------------------------------------------------------------------
isNavigation(message) == message \in {"activate", "navigate"}

mutantReplaceableStart == 0
replaceableStart == IF busy THEN 1 ELSE 0

\* A navigation takes the place of the navigation queued last, unless that one is being saved.
enqueued(q, entry) ==
  IF isNavigation(entry.message) /\ Len(q) > replaceableStart /\ isNavigation(Last(q).message)
  THEN [q EXCEPT ![Len(q)] = entry]
  ELSE Append(q, entry)

begun(q, isPaused) ==
  IF busy \/ isPaused \/ q = <<>> THEN worker
  ELSE [IdleWorker EXCEPT !.step = "write", !.save = Head(q)]

\* Every slot ends with this: the pending message and the strip's snapshot are queued.
queueWorkspacePersistence(message) ==
  IF message = "none" THEN UNCHANGED saving /\ pending' = message
  ELSE /\ queue' = enqueued(queue, [message |-> message, layout |-> Layout(tabs', active')])
       /\ worker' = begun(queue', paused)
       /\ pending' = "none"
       /\ UNCHANGED paused

\* One accepted operation on the strip; message "none" is one that found nothing to do and
\* matters only when an earlier message is still pending.
changeTo(t, a, message) ==
  /\ isOpen /\ edits < MaxEdits
  /\ message # "none" \/ pending # "none"
  /\ edits' = edits + 1
  /\ tabs' = t /\ active' = a
  /\ queueWorkspacePersistence(IF message = "none" THEN pending ELSE message)
  /\ changes' = IF message \in {"none", "activate", "navigate"} THEN changes
                ELSE Append(changes, [message |-> message, layout |-> Layout(t, a)])
  /\ UNCHANGED <<isOpen, repository, unrestored, loading, imported, failures>>

-----------------------------------------------------------------------------
PositionsOf(page) == {i \in DOMAIN tabs : tabs[i].page = page}

openNewTab(page) ==
  /\ Len(tabs) < MaxTabs
  /\ changeTo(Append(tabs, makeTab(nextId, page)), Len(tabs) + 1, "open")
  /\ nextId' = nextId + 1

activate(i) ==
  /\ changeTo(tabs, i, IF i = active THEN "none" ELSE "activate")
  /\ UNCHANGED nextId

\* The first tab of the page is activated; without one a tab is opened.
openPage(page) ==
  \/ \E i \in PositionsOf(page) :
       /\ \A j \in PositionsOf(page) : i <= j
       /\ activate(i)
  \/ PositionsOf(page) = {} /\ openNewTab(page)

navigateActiveTab(page) ==
  /\ active # 0
  /\ changeTo([tabs EXCEPT ![active].page = page], active, IF tabs[active].page = page THEN "none" ELSE "navigate")
  /\ UNCHANGED nextId

\* The list of tabs is not touched; only the active index is brought into range.
close(i) ==
  /\ changeTo(tabs, active, "close")
  /\ UNCHANGED nextId

mutantKeepsIndex(t, id) == IF active <= Len(t) THEN active ELSE Len(t)
positionOf(t, id) == IF id \in IdsOf(t) THEN CHOOSE i \in DOMAIN t : t[i].id = id ELSE 1

\* The tabs left, of which there is always one, keep their order.
closeMany(indices) ==
  /\ indices # {}
  /\ \E left \in 1 .. Len(tabs) : \E place \in inOrder(DOMAIN tabs \ indices, left) :
       LET kept == [k \in 1 .. left |-> tabs[place[k]]]
       IN  changeTo(kept, positionOf(kept, tabs[active].id), "close")
  /\ UNCHANGED nextId

moved(from, to) == InsertAt(RemoveAt(tabs, from), to, tabs[from])

move(from, to) ==
  /\ IF from = to THEN changeTo(tabs, active, "none")
     ELSE changeTo(moved(from, to), positionOf(moved(from, to), tabs[active].id), "move")
  /\ UNCHANGED nextId

\* Renaming stands for every style.
update(i) ==
  /\ changeTo([tabs EXCEPT ![i].custom = TRUE], active, "style")
  /\ UNCHANGED nextId

\* Appended under new ids; the slot does not call queueWorkspacePersistence().
importTabs(page) ==
  /\ isOpen /\ calm /\ Len(tabs) < MaxTabs
  /\ imported' = imported + 1
  /\ tabs' = Append(tabs, makeTab(nextId, page)) /\ nextId' = nextId + 1
  /\ pending' = "import"
  /\ changes' = Append(changes, [message |-> "import", layout |-> Layout(tabs', active)])
  /\ UNCHANGED <<isOpen, active, saving, repository, unrestored, loading, edits, failures>>

\* On the user interface's thread: the folder is replaced, the queue is not.
importRepository(page) ==
  /\ isOpen /\ calm
  /\ imported' = imported + 1
  /\ disk' = Layout(<<makeTab(nextId, page)>>, 1) /\ nextId' = nextId + 1
  /\ index' = Missing
  /\ commits' = <<[message |-> "imported", layout |-> disk']>>
  /\ tabs' = disk'.tabs /\ active' = disk'.active
  /\ UNCHANGED <<isOpen, pending, saving, unrestored, loading, changes, edits, failures>>

-----------------------------------------------------------------------------
fails == calm /\ failures' = failures + 1
keep == UNCHANGED <<strip, pending, queue, paused, loading, nextId, changes, imported, edits>>

\* Hardening removes the index before the file is written.
writeState ==
  /\ worker.step = "write"
  /\ index' = Missing
  /\ \/ /\ disk' = worker.save.layout
        /\ worker' = [worker EXCEPT !.step = "stage", !.previous = disk]
        /\ UNCHANGED failures
     \/ /\ fails
        /\ worker' = [worker EXCEPT !.step = "failed"]
        /\ UNCHANGED disk
  /\ UNCHANGED <<commits, unrestored>> /\ keep

stageState ==
  /\ worker.step = "stage"
  /\ \/ /\ index' = disk
        /\ worker' = [worker EXCEPT !.step = "commit"]
        /\ UNCHANGED failures
     \/ /\ fails
        /\ worker' = [worker EXCEPT !.step = "rollback"]
        /\ UNCHANGED index
  /\ UNCHANGED <<disk, commits, unrestored>> /\ keep

commitState ==
  /\ worker.step = "commit"
  /\ \/ /\ commits' = Append(commits, [message |-> worker.save.message, layout |-> index])
        /\ worker' = [worker EXCEPT !.step = "saved"]
        /\ unrestored' = FALSE
        /\ UNCHANGED failures
     \/ /\ fails
        /\ worker' = [worker EXCEPT !.step = "rollback"]
        /\ UNCHANGED <<commits, unrestored>>
  /\ UNCHANGED <<disk, index>> /\ keep

rolledBack == worker.previous

\* The bytes this save found are put back; when that fails too, the file keeps what was
\* not committed, and the next save finds it.
rollback ==
  /\ worker.step = "rollback"
  /\ \/ disk' = rolledBack /\ UNCHANGED <<unrestored, failures>>
     \/ fails /\ unrestored' = TRUE /\ UNCHANGED disk
  /\ worker' = [worker EXCEPT !.step = "failed"]
  /\ UNCHANGED <<index, commits>> /\ keep

\* The worker's answer, on the user interface's thread, which starts the next save.
deliver ==
  /\ worker.step \in {"saved", "failed"}
  /\ queue' = IF worker.step = "saved" /\ queue # <<>> THEN Tail(queue) ELSE queue
  /\ paused' = (paused \/ worker.step = "failed")
  /\ worker' = IF paused' \/ queue' = <<>> THEN IdleWorker
               ELSE [IdleWorker EXCEPT !.step = "write", !.save = Head(queue')]
  /\ UNCHANGED <<strip, pending, repository, unrestored, loading, nextId, changes, bounds>>

retryBackgroundPersistence ==
  /\ paused
  /\ paused' = FALSE
  /\ worker' = begun(queue, FALSE)
  /\ UNCHANGED <<strip, pending, queue, repository, unrestored, loading, nextId, changes, bounds>>

-----------------------------------------------------------------------------
\* Opening a project, and every undo and outside change of it, loads the tabs anew.
loadProjectState ==
  /\ calm
  /\ generation' = generation + 1
  /\ isOpen' = FALSE /\ tabs' = <<>> /\ active' = 0 /\ pending' = "none"
  /\ loaders' = loaders \cup {[generation |-> generation', step |-> "harden", layout |-> Missing]}
  /\ UNCHANGED <<saving, repository, unrestored, nextId, changes, bounds>>

moveOn(l, step, layout) == loaders' = (loaders \ {l}) \cup {[l EXCEPT !.step = step, !.layout = layout]}

hardenForLoad(l) ==
  /\ l.step = "harden"
  /\ index' = Missing
  /\ moveOn(l, "read", Missing)
  /\ UNCHANGED <<strip, pending, saving, disk, commits, unrestored, generation, nextId, changes,
                 bounds>>

\* loadState(), with the active index brought into range.
loadState(l) ==
  /\ l.step = "read"
  /\ moveOn(l, "loaded", disk)
  /\ UNCHANGED <<strip, pending, saving, repository, unrestored, generation, nextId, changes,
                 bounds>>

isCurrent(l) == l.generation = generation

tabsLoaded(l) ==
  /\ l.step = "loaded"
  /\ loaders' = loaders \ {l}
  /\ IF isCurrent(l)
     THEN isOpen' = TRUE /\ tabs' = l.layout.tabs /\ active' = l.layout.active /\ pending' = "none"
     ELSE UNCHANGED <<strip, pending>>
  /\ UNCHANGED <<saving, repository, unrestored, generation, nextId, changes, bounds>>

-----------------------------------------------------------------------------
\* A workspace that was opened before, with one tab.
Init ==
  /\ isOpen = TRUE /\ tabs = <<makeTab(0, 0)>> /\ active = 1
  /\ pending = "none"
  /\ queue = <<>> /\ paused = FALSE /\ worker = IdleWorker
  /\ disk = Layout(tabs, active) /\ index = disk
  /\ commits = <<[message |-> "initialize", layout |-> disk]>>
  /\ unrestored = FALSE
  /\ loaders = {} /\ generation = 0
  /\ nextId = 1
  /\ changes = <<>>
  /\ imported = 0 /\ edits = 0 /\ failures = 0

Slots ==
  \/ \E page \in Pages :
       openPage(page) \/ navigateActiveTab(page) \/ openNewTab(page)
  \/ importTabs(0) \/ importRepository(0)
  \/ \E i \in DOMAIN tabs : activate(i) \/ close(i) \/ update(i) \/ \E j \in DOMAIN tabs : move(i, j)
  \/ \E indices \in SUBSET DOMAIN tabs : closeMany(indices)
  \/ loadProjectState \/ retryBackgroundPersistence

Worker == writeState \/ stageState \/ commitState \/ rollback \/ deliver
Loader == \E l \in loaders : hardenForLoad(l) \/ loadState(l) \/ tabsLoaded(l)

Next == Slots \/ Worker \/ Loader

Spec == Init /\ [][Next]_vars

-----------------------------------------------------------------------------
\* Until the project is loaded again or tabs are imported.  Neither waits for the queue: the
\* saves that are still queued are of the strip before, and may replace the file after the
\* loader has read it or the import has written it.  So the next three promise nothing then.
undisturbed == generation = 0 /\ imported = 0

\* When the last queued save is over, the file and the repository hold the tabs on
\* the screen, whatever was replaced in the queue, failed, could not be rolled back and was
\* tried again.
QuietTabsAreSaved ==
  undisturbed /\ queue = <<>> => disk = Layout(tabs, active) /\ Last(commits).layout = disk

\* Every change but a navigation gets a commit of its own with the layout it made, in order.
ChangesAreCommitted ==
  LET waiting == IF worker.step = "saved" THEN Tail(queue) ELSE queue
      log == Tail(commits) \o waiting
      audited == {i \in DOMAIN log : ~isNavigation(log[i].message)}
  IN  undisturbed => \E place \in inOrder(audited, Len(changes)) :
                       \A k \in DOMAIN changes : log[place[k]] = changes[k]

\* While a save is paused after an error, the file is the one of the last commit, unless a
\* rollback failed as well, since that commit.
PausedFileIsCommitted ==
  undisturbed /\ paused /\ ~unrestored => disk = Last(commits).layout

\* Closing or moving other tabs never changes which tab is the active one.
ActiveTabStays ==
  [][ isOpen /\ isOpen' /\ imported' = imported /\ tabs' # tabs
      /\ IdsOf(tabs') \subseteq IdsOf(tabs) /\ tabs[active].id \in IdsOf(tabs')
      => tabs'[active'].id = tabs[active].id ]_vars

\* The tabs shown come from the last load that was asked for.
LatestLoadWins ==
  isOpen /\ generation > 0 => ~\E l \in loaders : l.generation = generation
=============================================================================
