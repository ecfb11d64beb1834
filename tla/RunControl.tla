------------------------------ MODULE RunControl ------------------------------
(***************************************************************************)
(* The window between a project and the job engine: the plan it rebuilds   *)
(* in the background, reordering and skipping, the start of a run, the     *)
(* recovery state it reads from the journal, and the unmount of an         *)
(* interrupted run's image.                                                *)
(*                                                                         *)
(* The window's slots are atomic; the plan builder, the saving worker, the *)
(* engine's children and DISM end at any time between them.  The engine is *)
(* reduced to what the window sees of it: its operations, its signals and  *)
(* its journal.  Saves succeed here; ProjectPersistence has their failures.*)
(***************************************************************************)
EXTENDS Naturals, Sequences, FiniteSets, SequencesExt

CONSTANTS
  Dirs,          \* project directories
  Items,         \* drivers a project may name
  MaxEdits, MaxRuns, MaxOpens, MaxCrashes      \* bounds

VARIABLES
  dir,           \* m_project's directory
  config,        \* what *m_project says: drivers, planSkipped, planOrder
  disk,          \* project.json of each directory
  saves,         \* m_projectMutationQueue
  loading,       \* the directory openProject is loading, or none
  build,         \* the project a plan is being built for, or NoProject (m_planRefreshBusy)
  pending,       \* m_planRefreshPending
  timers,        \* singleShot(0) timers that will call refreshPlan
  plan,          \* m_plan
  planOf,        \* the project m_plan was built from
  engine,        \* m_jobEngine: is it running, for which run, with which operations
  journal,       \* job-journal.json of each directory
  recovery,      \* the run in m_recoveryJournal if m_pendingRecovery, else 0
  unmount,       \* the run whose mount DISM is discarding, or NoUnmount
  discarded,     \* the runs whose mount DISM has discarded
  wanted,        \* the drivers the user has asked to skip, by directory
  edits, opens, crashes

projectVars == <<dir, config, disk, saves, loading>>
planVars == <<build, pending, timers, plan, planOf>>
runVars == <<engine, journal, unmount, discarded>>
counts == <<edits, opens, crashes>>
vars == <<projectVars, planVars, runVars, recovery, wanted, counts>>

none == "none"
ASSUME NoneAssumption == none \notin Dirs
Empty == [drivers |-> <<>>, skipped |-> {}, order |-> <<>>]
NoProject == [dir |-> none, config |-> Empty]
NoUnmount == [dir |-> none, run |-> 0]
Snapshot == [dir |-> dir, config |-> config]

-----------------------------------------------------------------------------
(* ServicingPlan::build for a project with drivers only: a hash each, inspect, *)
(* mount, one change per driver, validate, unmount.  The id of an operation is *)
(* a prefix and the number of operations created before it.                    *)

operations(drivers) ==
  LET n == Len(drivers)
      hash(k) == <<"hash", k>>
      change(k) == <<"driver", n + 2 + k>>
      Op(id, item, deps) == [id |-> id, item |-> item, deps |-> deps, skipped |-> FALSE]
      hashes == {hash(k) : k \in 1..n}
      mount == <<"mount", n + 2>>
      last == IF n = 0 THEN mount ELSE change(n)
  IN  [k \in 1..n |-> Op(hash(k), drivers[k], {})]
      \o <<Op(<<"inspect", n + 1>>, none, hashes), Op(mount, none, hashes \cup {<<"inspect", n + 1>>})>>
      \o [k \in 1..n |-> Op(change(k), drivers[k], {IF k = 1 THEN mount ELSE change(k - 1)})]
      \o <<Op(<<"validate", 2 * n + 3>>, none, {last}),
           Op(<<"unmount", 2 * n + 4>>, none, {<<"validate", 2 * n + 3>>})>>

\* The entries of a list at some of its places, in their order: the k-th of the
\* places is the one with k of them up to it.
kept(list, places) ==
  [k \in 1..Cardinality(places) |->
    list[CHOOSE p \in places : Cardinality({q \in places : q <= p}) = k]]

WithId(list, id) == CHOOSE operation \in ToSet(list) : operation.id = id

\* planOrder first, then what it does not name.
reordered(list, order) ==
  LET known == {k \in DOMAIN order : \E n \in DOMAIN list : list[n].id = order[k]}
      rest  == {n \in DOMAIN list : list[n].id \notin ToSet(order)}
      first == kept(order, known)
  IN  [k \in DOMAIN first |-> WithId(list, first[k])] \o kept(list, rest)

withSkips(list, skipped) ==
  [k \in DOMAIN list |-> [list[k] EXCEPT !.skipped = list[k].id \in skipped]]

built(c) == withSkips(reordered(operations(c.drivers), c.order), c.skipped)

-----------------------------------------------------------------------------
(* refreshPlan, called at the end of a slot with the project p. *)

mutantDropRefresh(busy) == FALSE

postponed(busy) == busy

refreshPlan(p) ==
  IF build # NoProject
  THEN /\ pending' = postponed(TRUE)
       /\ UNCHANGED <<build, plan, planOf>>
  ELSE /\ build' = p
       /\ plan' = <<>>
       /\ planOf' = NoProject
       /\ UNCHANGED pending

\* The builder's result arrives on the window's thread.
deliverPlan ==
  /\ build # NoProject
  /\ build' = NoProject
  /\ IF build.dir = dir
     THEN plan' = built(build.config) /\ planOf' = build
     ELSE UNCHANGED <<plan, planOf>>
  /\ pending' = FALSE
  /\ timers' = IF pending THEN timers + 1 ELSE timers
  /\ UNCHANGED <<projectVars, runVars, recovery, wanted, counts>>

refreshTimer ==
  /\ timers > 0
  /\ timers' = timers - 1
  /\ refreshPlan(Snapshot)
  /\ UNCHANGED <<projectVars, runVars, recovery, wanted, counts>>

\* resumeRecovery, and the "refresh-plan" action of the command palette.
requestRefresh ==
  /\ edits < MaxEdits /\ edits' = edits + 1
  /\ refreshPlan(Snapshot)
  /\ UNCHANGED <<timers, projectVars, runVars, recovery, wanted, opens, crashes>>

-----------------------------------------------------------------------------
mutantKeepsRecovery(d, book) == recovery

\* hasInterruptedRun: the journal still says that its run is at work.
recoveryOf(d, book) == IF book[d].status = "running" THEN book[d].run ELSE 0

busy == engine.running \/ loading # none

\* mutateProject: the project changes at once, is queued for saving, and the plan is
\* rebuilt.  A running engine does not stop it, only the callers that ask busy() do.
mutateProject(c) ==
  /\ edits < MaxEdits /\ edits' = edits + 1
  /\ loading = none
  /\ config' = c
  /\ saves' = Append(saves, c)
  /\ build' = IF build = NoProject THEN [dir |-> dir, config |-> c] ELSE build
  /\ pending' = (pending \/ postponed(build # NoProject))
  /\ recovery' = recoveryOf(dir, journal)
  /\ UNCHANGED <<dir, disk, loading, timers, runVars, opens, crashes>>

addDriver(i) ==
  /\ i \notin ToSet(config.drivers)
  /\ mutateProject([config EXCEPT !.drivers = Append(@, i)])
  /\ IF build = NoProject THEN plan' = <<>> /\ planOf' = NoProject ELSE UNCHANGED <<plan, planOf>>
  /\ UNCHANGED wanted

removeDriver(i) ==
  /\ i \in ToSet(config.drivers)
  /\ mutateProject([config EXCEPT !.drivers = kept(@, {k \in DOMAIN @ : @[k] # i})])
  /\ IF build = NoProject THEN plan' = <<>> /\ planOf' = NoProject ELSE UNCHANGED <<plan, planOf>>
  /\ wanted' = [wanted EXCEPT ![dir] = @ \ {i}]

\* Only optional changes can be skipped; the id is remembered in the project.
skipOperation(k) ==
  /\ ~busy
  /\ k \in DOMAIN plan /\ plan[k].id[1] = "driver"
  /\ mutateProject([config EXCEPT !.skipped =
       IF plan[k].skipped THEN @ \ {plan[k].id} ELSE @ \cup {plan[k].id}])
  /\ wanted' = [wanted EXCEPT ![dir] = IF plan[k].skipped THEN @ \ {plan[k].item}
                                       ELSE @ \cup {plan[k].item}]
  /\ IF build = NoProject THEN plan' = <<>> /\ planOf' = NoProject ELSE UNCHANGED <<plan, planOf>>

\* The plan shown is reordered even when its rebuild has to wait.
moveOperation(k, l) ==
  /\ ~busy
  /\ k \in DOMAIN plan /\ l \in DOMAIN plan /\ k # l
  /\ LET moved == InsertAt(RemoveAt(plan, k), l, plan[k])
     IN /\ mutateProject([config EXCEPT !.order = [n \in DOMAIN moved |-> moved[n].id]])
        /\ IF build = NoProject THEN plan' = <<>> /\ planOf' = NoProject
           ELSE plan' = moved /\ UNCHANGED planOf
  /\ UNCHANGED wanted

saved ==
  /\ saves # <<>>
  /\ disk' = [disk EXCEPT ![dir] = Head(saves)]
  /\ saves' = Tail(saves)
  /\ UNCHANGED <<dir, config, loading, planVars, runVars, recovery, wanted, counts>>

\* Another project may be opened while the engine runs the plan of this one.
openProject(d) ==
  /\ opens < MaxOpens /\ opens' = opens + 1
  /\ loading = none /\ saves = <<>>
  /\ loading' = d
  /\ UNCHANGED <<dir, config, disk, saves, planVars, runVars, recovery, wanted, edits, crashes>>

\* loadProjectState: everything derived from the project is looked up again.
projectOpened ==
  /\ loading # none
  /\ dir' = loading /\ config' = disk[loading] /\ loading' = none
  /\ refreshPlan([dir |-> loading, config |-> disk[loading]])
  /\ recovery' = recoveryOf(loading, journal)
  /\ UNCHANGED <<disk, saves, timers, runVars, wanted, counts>>

-----------------------------------------------------------------------------
(* Runs. *)

mayRun == loading = none /\ saves = <<>> /\ build = NoProject

runPlan ==
  /\ mayRun /\ ~engine.running /\ plan # <<>> /\ engine.run < MaxRuns
  /\ engine' = [running |-> TRUE, run |-> engine.run + 1, dir |-> dir, operations |-> plan, of |-> planOf]
  /\ journal' = [journal EXCEPT ![dir] = [run |-> engine.run + 1, status |-> "running"]]
  /\ UNCHANGED <<projectVars, planVars, recovery, unmount, discarded, wanted, counts>>

\* stateChanged and operationChanged: the window shows the engine's operations.
engineSignals ==
  /\ engine.running
  /\ plan' = engine.operations /\ planOf' = engine.of
  /\ UNCHANGED <<projectVars, build, pending, timers, runVars, recovery, wanted, counts>>

\* finishRun; its last journal write may fail and leave the run looking interrupted.
runFinished ==
  /\ engine.running
  /\ engine' = [engine EXCEPT !.running = FALSE]
  /\ \/ journal' = [journal EXCEPT ![engine.dir] = [run |-> engine.run, status |-> "finished"]]
     \/ UNCHANGED journal
  /\ plan' = engine.operations /\ planOf' = engine.of
  /\ recovery' = recoveryOf(dir, journal')
  /\ UNCHANGED <<projectVars, build, pending, timers, unmount, discarded, wanted, counts>>

safeUnmountRecovery ==
  /\ recovery # 0 /\ unmount = NoUnmount /\ ~engine.running
  /\ unmount' = [dir |-> dir, run |-> recovery]
  /\ UNCHANGED <<projectVars, planVars, engine, journal, discarded, recovery, wanted, counts>>

mutantClosesAny(book, d, run) == [book EXCEPT ![d].status = "recovered"]

\* The journal is closed only if it is still the one of the run that was discarded.
closed(book, d, run) ==
  IF book[d].run = run THEN [book EXCEPT ![d].status = "recovered"] ELSE book

unmountFinished ==
  /\ unmount # NoUnmount
  /\ unmount' = NoUnmount
  /\ \/ UNCHANGED <<journal, discarded, recovery>>         \* DISM failed or could not start
     \/ /\ discarded' = discarded \cup {unmount.run}
        /\ \/ journal' = closed(journal, unmount.dir, unmount.run)
           \/ UNCHANGED journal                            \* it could not be read or written
        /\ recovery' = recoveryOf(dir, journal')
  /\ UNCHANGED <<projectVars, planVars, engine, wanted, counts>>

-----------------------------------------------------------------------------
(* exportPowerShell: the plan in stableTopologicalOrder, without what is skipped. *)

\* Always the first operation of the list whose dependencies have been taken.
stableTopologicalOrder(list) ==
  LET ready(taken) == {k \in DOMAIN list : /\ k \notin taken
                                           /\ \A d \in list[k].deps : \E t \in taken : list[t].id = d}
      first(S) == CHOOSE k \in S : \A l \in S : k <= l
      order[n \in 0..Len(list)] ==
        IF n = 0 THEN <<>>
        ELSE LET taken == order[n - 1] IN Append(taken, first(ready(ToSet(taken))))
  IN  order[Len(list)]

exportScript ==
  LET order == stableTopologicalOrder(plan)
  IN  kept([k \in DOMAIN order |-> plan[order[k]]], {k \in DOMAIN order : ~plan[order[k]].skipped})

\* The program dies and is started again: edits not yet saved are gone.
crash ==
  /\ crashes < MaxCrashes /\ crashes' = crashes + 1
  /\ config' = disk[dir] /\ saves' = <<>> /\ loading' = none
  /\ build' = [dir |-> dir, config |-> disk[dir]]
  /\ pending' = FALSE /\ timers' = 0 /\ plan' = <<>> /\ planOf' = NoProject
  /\ engine' = [engine EXCEPT !.running = FALSE]
  /\ unmount' = NoUnmount
  /\ recovery' = recoveryOf(dir, journal)
  /\ UNCHANGED <<dir, disk, journal, discarded, wanted, edits, opens>>

\* A project names a driver once.
Lists == {q \in SeqOf(Items, Cardinality(Items)) : IsInjective(q)}

Init ==
  /\ dir \in Dirs
  /\ disk \in [Dirs -> {[Empty EXCEPT !.drivers = q] : q \in Lists}]
  /\ config = disk[dir] /\ saves = <<>> /\ loading = none
  /\ build = Snapshot /\ pending = FALSE /\ timers = 0 /\ plan = <<>> /\ planOf = NoProject
  /\ engine = [running |-> FALSE, run |-> 0, dir |-> dir, operations |-> <<>>, of |-> NoProject]
  /\ journal = [d \in Dirs |-> [run |-> 0, status |-> none]]
  /\ recovery = 0 /\ unmount = NoUnmount /\ discarded = {}
  /\ wanted = [d \in Dirs |-> {}]
  /\ edits = 0 /\ opens = 0 /\ crashes = 0

\* Longer moves are sequences of these.
neighbours(k) == {k - 1, k + 1} \cap DOMAIN plan

edit ==
  \/ \E i \in Items : addDriver(i) \/ removeDriver(i)
  \/ \E k \in DOMAIN plan : skipOperation(k) \/ \E l \in neighbours(k) : moveOperation(k, l)

Next ==
  \/ edit \/ requestRefresh \/ deliverPlan \/ refreshTimer \/ saved
  \/ \E d \in Dirs : openProject(d)
  \/ projectOpened \/ runPlan \/ engineSignals \/ runFinished
  \/ safeUnmountRecovery \/ unmountFinished \/ crash

Spec == Init /\ [][Next]_vars

-----------------------------------------------------------------------------
\* What the window offers to recover is what the journal of the open project says,
\* unless the engine is at work on it.
RecoveryStateIsCurrent ==
  ~(engine.running /\ engine.dir = dir) =>
    recovery = IF journal[dir].status = "running" THEN journal[dir].run ELSE 0

\* A journal says "recovered" only of a run whose own mount was discarded: a newer
\* run that replaced the journal during the unmount stays visible.
RecoveryClosesOwnRun ==
  \A d \in Dirs : journal[d].status = "recovered" => journal[d].run \in discarded

\* An exported script runs every operation after the ones it depends on, however
\* the user has reordered the plan.
ScriptRespectsDependencies ==
  LET script == exportScript
      ids == {plan[k].id : k \in {j \in DOMAIN plan : ~plan[j].skipped}}
  IN  /\ {script[k].id : k \in DOMAIN script} = ids
      /\ \A k \in DOMAIN script, j \in DOMAIN script : script[j].id \in script[k].deps => j < k

\* A plan that is not of the current project is never left standing: it is being
\* rebuilt, a rebuild is due, or a run has put its own operations there.
StalePlanIsRefreshed ==
  \/ planOf = Snapshot
  \/ build = Snapshot \/ pending \/ timers > 0 \/ loading # none
  \/ engine.run > 0 /\ planOf = engine.of

-----------------------------------------------------------------------------
\* docs/wiki/Review-and-Run.md:37: "Skip/restore state is committed to the project
\* and survives a plan rebuild."
SkipSurvivesRebuild ==
  planOf = Snapshot =>
    \A k \in DOMAIN plan :
      plan[k].id[1] = "driver" => (plan[k].skipped <=> plan[k].item \in wanted[dir])

\* AppController.cpp:4181: "Wait for the active servicing run before recovering an older
\* mount.": DISM never discards a mount while a run works in the same project.
RunsKeepClearOfUnmount == ~(unmount # NoUnmount /\ engine.running /\ engine.dir = unmount.dir)
=============================================================================
