----------------------------- MODULE VmLabProofs -----------------------------
(***************************************************************************)
(* What executions on the machines of the virtual machine lab may delete   *)
(* and change, for any machines, clients, actions and bounds.              *)
(*                                                                         *)
(* An execution holds the catalog's lock from its first step to its last,  *)
(* so the catalog, the memory it loaded and the world change under no      *)
(* other execution; only the user can come between its check and its       *)
(* command, and then it is no longer calm.                                 *)
(***************************************************************************)
EXTENDS VmLab, TLAPS

Fields == {"kind", "step", "plan", "seen", "of", "cancel", "mutated", "calm", "closing"}
isWorker(t) == t = [f \in Fields |-> t[f]]

SoundPlan(p) == p.id \in Vms /\ (p.action = "create" => p.id # theirs)

\* What a worker about to remove a directory has made sure of.
MayRemove(t) ==
  t.step = "remove" =>
    /\ t.plan.id # theirs /\ t.plan.id \in markers /\ catalog[t.plan.id] = "managed"
    /\ t.calm => t.plan.id \notin known /\ t.plan.id \notin borrowed

\* What a worker about to run its command has made sure of.
MayRun(t) ==
  t.step = "command" /\ t.calm /\ t.plan.action \notin NewMachine \cup {"forget"} =>
    AsToldBefore(t.plan)

\* An execution owns the lock, and its catalog is the one on disk.
GoodWorker(c, t) ==
  /\ isWorker(t) /\ SoundPlan(t.plan) /\ \A m \in t.seen : m.id \in Vms
  /\ t.kind # "execute" => t.step \in {"none", "list", "done", "failed"}
  /\ c # window => t.kind \in {"none", "execute"}
  /\ t.kind = "execute" => lock = c /\ catalog = t.plan.revision /\ mem[c] = catalog
  /\ MayRemove(t) /\ MayRun(t)

Formed == power = [v \in Vms |-> power[v]] /\ snaps = [v \in Vms |-> snaps[v]]

Shape ==
  /\ task = [c \in Clients |-> task[c]]
  /\ mem = [c \in Clients |-> mem[c]]
  /\ catalog = [v \in Vms |-> catalog[v]]
  /\ told = [v \in Vms |-> told[v]]
  /\ Formed
  /\ known \subseteq VirtualBox
  /\ \A m \in machines : m.id \in Vms

Workers == \A c \in Clients : GoodWorker(c, task[c])

NotTheirs == catalog[theirs] # "managed"

IInv ==
  /\ Shape /\ Workers /\ NotTheirs
  /\ SoundPlan(reviewed) /\ SoundPlan(shown)
  /\ ReportsAreRecorded /\ SnapshotsOfSelection

LEMMA InitIInv == Init => IInv
<1> SUFFICES ASSUME Init PROVE IInv
  OBVIOUS
<1> USE VmAssumption
<1>1. Shape /\ NotTheirs /\ ReportsAreRecorded /\ SnapshotsOfSelection
  BY DEF Init, Shape, Formed, NotTheirs, ReportsAreRecorded, SnapshotsOfSelection, NoEntries, NoSnapshots
<1>2. SoundPlan(NoPlan)
  BY DEF SoundPlan, NoPlan
<1>3. isWorker(AtRest) /\ AtRest.plan = NoPlan /\ AtRest.seen = {} /\ AtRest.kind = "none" /\ AtRest.step = "none"
  BY DEF isWorker, AtRest, Fields
<1>4. \A c \in Clients : task[c] = AtRest
  BY DEF Init
<1>5. Workers
  BY <1>2, <1>3, <1>4 DEF Workers, GoodWorker, MayRemove, MayRun
<1> QED
  BY <1>1, <1>2, <1>5 DEF IInv, Init

-----------------------------------------------------------------------------
\* A slot of the window that changes only what it shows.
LEMMA ScreenStep ==
  ASSUME IInv, UNCHANGED <<world, catalog, lock, mem, machines, task, told>>,
         SoundPlan(reviewed'), SoundPlan(shown'),
         snapshots'.of \in {None, selected'}
  PROVE  IInv'
<1>1. Shape' /\ NotTheirs' /\ ReportsAreRecorded' /\ SnapshotsOfSelection'
  BY DEF IInv, Shape, Formed, NotTheirs, ReportsAreRecorded, SnapshotsOfSelection, world, files, provider
<1>2. Workers'
  BY DEF IInv, Workers, GoodWorker, MayRemove, MayRun, AsToldBefore, evidence, Running, world, files, provider
<1> QED
  BY <1>1, <1>2 DEF IInv, SoundPlan

LEMMA ReviewsAreSound ==
  ASSUME IInv, NEW action, NEW m \in machines, NEW seen, NEW listed, NEW entries, action # "create"
  PROVE  SoundPlan(Plan(action, m.id, seen, listed, entries))
BY DEF IInv, Shape, Formed, SoundPlan, Plan

LEMMA NoPlanIsSound == SoundPlan(NoPlan)
BY VmAssumption DEF SoundPlan, NoPlan

LEMMA ReviewKeepsIInv ==
  ASSUME IInv, NEW action, action # "create", review(action)
  PROVE  IInv'
<1>1. PICK m \in machines : stage(Plan(action, m.id, m.evidence, snapshots.list, mem[window]))
  BY DEF review, selectedMachine
<1>2. stage(Plan(action, m.id, m.evidence, snapshots.list, mem[window]))
  BY <1>1
<1>3. SoundPlan(Plan(action, m.id, m.evidence, snapshots.list, mem[window]))
  BY ReviewsAreSound
<1>4. UNCHANGED <<world, catalog, lock, mem, machines, task, told, selected, snapshots>>
  BY <1>2 DEF review, stage
<1>5. /\ reviewed' = Plan(action, m.id, m.evidence, snapshots.list, mem[window])
      /\ shown' = Plan(action, m.id, m.evidence, snapshots.list, mem[window])
  BY <1>2 DEF stage
<1>6. lock' = lock
  BY <1>4
<1> QED
  BY <1>3, <1>4, <1>5, ScreenStep DEF IInv, SnapshotsOfSelection

LEMMA ReviewNewKeepsIInv ==
  ASSUME IInv, NEW action \in NewMachine, NEW v \in Vms, NEW boot, reviewNew(action, v, boot)
  PROVE  IInv'
<1> DEFINE plan == Plan(action, v, NoEvidence, 0, mem[window])
<1>1. SoundPlan(plan)
  BY DEF reviewNew, New, SoundPlan, Plan
<1>2. /\ UNCHANGED <<world, catalog, lock, mem, machines, task, told, selected, snapshots>>
      /\ reviewed' = plan /\ shown' = plan
  BY DEF reviewNew, stage
<1> HIDE DEF plan
<1> QED
  BY <1>1, <1>2, ScreenStep DEF IInv, SnapshotsOfSelection

LEMMA SlotsKeepIInv ==
  ASSUME IInv,
         \/ \E v \in Vms : selectMachine(v)
         \/ clearSelection \/ reviewRefused \/ discardPendingVmPreview
         \/ createVm \/ runVmAction \/ updateVmConfiguration \/ tryPendingVmBoot
         \/ vmDeviceAction \/ vmSnapshotAction
  PROVE  IInv'
<1>1. ASSUME NEW v \in Vms, selectMachine(v) PROVE IInv'
  BY <1>1, ScreenStep, NoPlanIsSound DEF selectMachine, NoSnapshots, IInv
<1>2. CASE clearSelection
  BY <1>2, ScreenStep, NoPlanIsSound DEF clearSelection, NoSnapshots, IInv
<1>3. CASE reviewRefused
  BY <1>3, ScreenStep, NoPlanIsSound DEF reviewRefused, IInv, SnapshotsOfSelection
<1>4. CASE discardPendingVmPreview
  BY <1>4, ScreenStep, NoPlanIsSound DEF discardPendingVmPreview, IInv, SnapshotsOfSelection
<1>5. CASE createVm
  <2>1. PICK v \in Vms : \E boot \in {None, v} : reviewNew("create", v, boot)
    BY <1>5 DEF createVm
  <2> QED
    BY <2>1, ReviewNewKeepsIInv DEF NewMachine
<1>6. CASE runVmAction
  <2>1. ASSUME NEW v \in Vms, reviewNew("register", v, None) PROVE IInv'
    BY <2>1, ReviewNewKeepsIInv DEF NewMachine
  <2>2. ASSUME NEW action \in Actions, review(action) PROVE IInv'
    BY <2>2, ReviewKeepsIInv, ActionsAssumption DEF NewMachine
  <2> QED
    BY <1>6, <2>1, <2>2 DEF runVmAction
<1>7. CASE updateVmConfiguration
  BY <1>7, ReviewKeepsIInv DEF updateVmConfiguration
<1>8. CASE vmDeviceAction \/ vmSnapshotAction
  BY <1>8, ReviewKeepsIInv, ActionsAssumption DEF vmDeviceAction, vmSnapshotAction, NewMachine
<1>9. CASE tryPendingVmBoot
  <2>1. PICK m \in machines :
          /\ IF Plannable("start", m, machines)
             THEN stage(Plan("start", m.id, m.evidence, 0, mem[window]))
             ELSE /\ reviewed' = (IF selected = m.id THEN reviewed ELSE NoPlan) /\ shown' = NoPlan
                  /\ UNCHANGED <<world, catalog, lock, mem, machines, task, told, reviews, troubles>>
          /\ selected' = m.id
          /\ snapshots' = IF selected = m.id THEN snapshots ELSE NoSnapshots
    BY <1>9 DEF tryPendingVmBoot
  <2>2. snapshots'.of \in {None, selected'}
    BY <2>1 DEF IInv, SnapshotsOfSelection, NoSnapshots
  <2>3. UNCHANGED <<world, catalog, lock, mem, machines, task, told>>
    BY <2>1 DEF stage
  <2>4. SoundPlan(Plan("start", m.id, m.evidence, 0, mem[window]))
    BY ReviewsAreSound
  <2>5. SoundPlan(reviewed') /\ SoundPlan(shown')
    BY <2>1, <2>4, NoPlanIsSound DEF stage, IInv
  <2> QED
    BY <2>2, <2>3, <2>5, ScreenStep
<1> QED
  BY <1>1, <1>2, <1>3, <1>4, <1>5, <1>6, <1>7, <1>8, <1>9

-----------------------------------------------------------------------------
(* The steps of the workers.                                               *)

OnlyTask(c) == task' = [d \in Clients |-> IF d = c THEN task'[c] ELSE task[d]]

\* Whoever executes is alone at it.
LEMMA OneExecutes ==
  ASSUME IInv, NEW c \in Clients, NEW d \in Clients, Executing(c), Executing(d)
  PROVE  c = d
BY DEF IInv, Workers, GoodWorker, Executing

\* A worker moves on: if it changes the world, it executes, and no other one is past a check.
LEMMA WorkerMoves ==
  ASSUME IInv, NEW c \in Clients, OnlyTask(c), GoodWorker(c, task[c])',
         UNCHANGED <<catalog, lock, mem, screen, told>>,
         Executing(c) \/ UNCHANGED <<markers, known, borrowed, power, media, snaps>>,
         Formed', known' \subseteq VirtualBox
  PROVE  IInv'
<1>1. UNCHANGED <<machines, selected, snapshots, reviewed, shown, catalog, lock, mem, told>>
  BY DEF screen
<1>2. task' = [d \in Clients |-> task'[d]] /\ \A d \in Clients \ {c} : task'[d] = task[d]
  BY DEF OnlyTask
<1>3. Shape'
  BY <1>1, <1>2 DEF IInv, Shape, Formed
<1>4. ASSUME NEW d \in Clients, d # c PROVE GoodWorker(d, task[d])'
  <2>1. task'[d] = task[d] /\ GoodWorker(d, task[d])
    BY <1>2, <1>4 DEF IInv, Workers
  <2>2. CASE Executing(c)
    <3>1. task[d].kind # "execute"
      BY <1>4, <2>2, OneExecutes DEF Executing
    <3>2. task[d].step \notin {"remove", "command"}
      BY <2>1, <3>1 DEF GoodWorker
    <3> QED
      BY <1>1, <2>1, <3>1, <3>2 DEF GoodWorker, MayRemove, MayRun, SoundPlan
  <2>3. CASE UNCHANGED <<markers, known, borrowed, power, media, snaps>>
    BY <1>1, <2>1, <2>3 DEF GoodWorker, MayRemove, MayRun, AsToldBefore, evidence, Running, SoundPlan
  <2> QED
    BY <2>2, <2>3
<1>5. Workers'
  BY <1>4 DEF Workers
<1>6. NotTheirs' /\ SoundPlan(reviewed)' /\ SoundPlan(shown)' /\ ReportsAreRecorded' /\ SnapshotsOfSelection'
  BY <1>1 DEF IInv, NotTheirs, SoundPlan, ReportsAreRecorded, SnapshotsOfSelection
<1> QED
  BY <1>3, <1>5, <1>6 DEF IInv

\* What a change of one worker's step, and of its listing, leaves as it was.
LEMMA StepOnly ==
  ASSUME IInv, NEW c \in Clients, NEW s, task' = [task EXCEPT ![c].step = s]
  PROVE  /\ OnlyTask(c) /\ isWorker(task'[c]) /\ task'[c].step = s
         /\ \A f \in Fields \ {"step"} : task'[c][f] = task[c][f]
<1>1. isWorker(task[c]) /\ task = [d \in Clients |-> task[d]]
  BY DEF IInv, Shape, Formed, Workers, GoodWorker
<1>2. task'[c] = [task[c] EXCEPT !.step = s] /\ OnlyTask(c)
  BY <1>1 DEF OnlyTask
<1> QED
  BY <1>1, <1>2 DEF isWorker, Fields

LEMMA StepAndListing ==
  ASSUME IInv, NEW c \in Clients, NEW s, NEW ms,
         task' = [task EXCEPT ![c].step = s, ![c].seen = ms]
  PROVE  /\ OnlyTask(c) /\ isWorker(task'[c]) /\ task'[c].step = s /\ task'[c].seen = ms
         /\ \A f \in Fields \ {"step", "seen"} : task'[c][f] = task[c][f]
<1>1. isWorker(task[c]) /\ task = [d \in Clients |-> task[d]]
  BY DEF IInv, Shape, Formed, Workers, GoodWorker
<1>2. task'[c] = [task[c] EXCEPT !.step = s, !.seen = ms] /\ OnlyTask(c)
  BY <1>1 DEF OnlyTask
<1> QED
  BY <1>1, <1>2 DEF isWorker, Fields

\* A worker that goes on to a step without a check of its own.
LEMMA PlainStep ==
  ASSUME IInv, NEW c \in Clients, OnlyTask(c), isWorker(task'[c]),
         task'[c].kind = task[c].kind, task'[c].plan = task[c].plan,
         \A m \in task'[c].seen : m.id \in Vms,
         task'[c].step \notin {"remove", "command"},
         Executing(c) \/ task'[c].step \in {"none", "list", "done", "failed"},
         UNCHANGED <<catalog, lock, mem, screen, told>>,
         Executing(c) \/ UNCHANGED <<markers, known, borrowed, power, media, snaps>>,
         Formed', known' \subseteq VirtualBox
  PROVE  IInv'
<1>1. GoodWorker(c, task[c])
  BY DEF IInv, Workers
<1>2. GoodWorker(c, task[c])'
  BY <1>1 DEF GoodWorker, MayRemove, MayRun, SoundPlan, Executing
<1> QED
  BY <1>2, WorkerMoves

LEMMA FailKeepsIInv ==
  ASSUME IInv, NEW c \in Clients, fail(c),
         UNCHANGED <<catalog, lock, mem, screen, told>>, UNCHANGED <<markers, known, borrowed, power, media, snaps>>
  PROVE  IInv'
<1>1. /\ OnlyTask(c) /\ isWorker(task'[c]) /\ task'[c].step = "failed" /\ task'[c].seen = {}
      /\ \A f \in Fields \ {"step", "seen"} : task'[c][f] = task[c][f]
  BY StepAndListing DEF fail
<1>2. task'[c].kind = task[c].kind /\ task'[c].plan = task[c].plan
  BY <1>1 DEF Fields
<1>3. Formed' /\ known' \subseteq VirtualBox
  BY DEF IInv, Shape, Formed
<1> QED
  BY <1>1, <1>2, <1>3, PlainStep

\* Whoever is at a step of an execution executes, and the world is well-formed.
LEMMA AtStep ==
  ASSUME IInv, NEW c \in Clients, NEW s, at(c, s), s \notin {"none", "list", "done", "failed"}
  PROVE  Executing(c) /\ lock = c /\ mem[c] = catalog /\ SoundPlan(planned(c))
BY DEF IInv, Workers, GoodWorker, at, Executing, planned

LEMMA WorldStays ==
  ASSUME IInv, UNCHANGED provider
  PROVE  Formed' /\ known' \subseteq VirtualBox
BY DEF IInv, Shape, Formed, provider

LEMMA ListingsAreOfVms ==
  ASSUME IInv, NEW entries
  PROVE  \A m \in refreshInventory(entries) : m.id \in Vms
<1>1. Visible(entries) \subseteq Vms
  BY VmAssumption DEF IInv, Shape, Formed, Visible
<1> QED
  BY <1>1 DEF refreshInventory, Live, staleMachine

LEMMA ListKeepsIInv ==
  ASSUME IInv, NEW c \in Clients, list(c)
  PROVE  IInv'
<1>0. /\ UNCHANGED <<world, catalog, lock, mem, screen, told>>
      /\ UNCHANGED <<markers, known, borrowed, power, media, snaps>>
      /\ Formed' /\ known' \subseteq VirtualBox
  <2>1. UNCHANGED <<world, catalog, lock, mem, screen, told>>
    BY DEF list
  <2> QED
    BY <2>1, WorldStays DEF world, files, provider
<1>1. CASE fail(c)
  BY <1>0, <1>1, FailKeepsIInv
<1>2. isWorker(task[c]) /\ task = [d \in Clients |-> task[d]]
  BY DEF IInv, Shape, Formed, Workers, GoodWorker
<1>3. ASSUME NEW ms, NEW of, \A m \in ms : m.id \in Vms,
             task' = [task EXCEPT ![c] = [task[c] EXCEPT !.seen = ms, !.step = "done", !.of = of]]
      PROVE  IInv'
  <2>1. task'[c] = [task[c] EXCEPT !.seen = ms, !.step = "done", !.of = of] /\ OnlyTask(c)
    BY <1>2, <1>3 DEF OnlyTask
  <2>2. /\ isWorker(task'[c]) /\ task'[c].step = "done" /\ task'[c].seen = ms
        /\ task'[c].kind = task[c].kind /\ task'[c].plan = task[c].plan
    BY <1>2, <2>1 DEF isWorker, Fields
  <2> QED
    BY <1>0, <1>3, <2>1, <2>2, PlainStep
<1>4. CASE task' = [task EXCEPT ![c].seen = refreshInventory(mem[c]), ![c].step = "done",
                ![c].of.list = IF task[c].kind = "snapshots" THEN snaps[task[c].of.of] ELSE 0]
  <2> DEFINE of == [task[c].of EXCEPT !.list = IF task[c].kind = "snapshots" THEN snaps[task[c].of.of] ELSE 0]
             ms == refreshInventory(mem[c])
  <2>1. task' = [task EXCEPT ![c] = [task[c] EXCEPT !.seen = ms, !.step = "done", !.of = of]]
    BY <1>2, <1>4 DEF isWorker, Fields
  <2>2. \A m \in ms : m.id \in Vms
    BY ListingsAreOfVms
  <2> HIDE DEF of, ms
  <2> QED
    BY <1>3, <2>1, <2>2
<1>5. CASE task' = [task EXCEPT ![c].step = "done",
                ![c].seen = {staleMachine(mem[c], v) : v \in {u \in Vms : mem[c][u] # "absent"}}]
  <2> DEFINE ms == {staleMachine(mem[c], v) : v \in {u \in Vms : mem[c][u] # "absent"}}
  <2>1. task' = [task EXCEPT ![c] = [task[c] EXCEPT !.seen = ms, !.step = "done", !.of = task[c].of]]
    BY <1>2, <1>5 DEF isWorker, Fields
  <2>2. \A m \in ms : m.id \in Vms
    BY DEF staleMachine
  <2> HIDE DEF ms
  <2> QED
    BY <1>3, <2>1, <2>2
<1> QED
  BY <1>1, <1>4, <1>5 DEF list

\* The steps that check, and those that change only files of the target.
LEMMA CheckKeepsIInv ==
  ASSUME IInv, NEW c \in Clients, fresh(c) \/ validate(c) \/ configure(c) \/ write(c) \/ remove(c)
  PROVE  IInv'
<1>0. UNCHANGED <<provider, catalog, lock, mem, screen, told>>
  BY DEF fresh, validate, configure, write, remove, world
<1>1. /\ UNCHANGED <<known, borrowed, power, media, snaps>>
      /\ Formed' /\ known' \subseteq VirtualBox
  BY <1>0, WorldStays DEF provider
<1>2. Executing(c)
  <2>1. \E s \in {"fresh", "validate", "configure", "write", "remove"} : at(c, s)
    BY DEF fresh, validate, configure, write, remove
  <2> QED
    BY <2>1, AtStep
<1>3. ASSUME NEW s, s \notin {"remove", "command"}, goto(c, s) PROVE IInv'
  <2>1. /\ OnlyTask(c) /\ isWorker(task'[c]) /\ task'[c].step = s
        /\ \A f \in Fields \ {"step"} : task'[c][f] = task[c][f]
    BY <1>3, StepOnly DEF goto
  <2>2. /\ task'[c].kind = task[c].kind /\ task'[c].plan = task[c].plan /\ task'[c].seen = task[c].seen
    BY <2>1 DEF Fields
  <2>3. \A m \in task'[c].seen : m.id \in Vms
    BY <2>2 DEF IInv, Workers, GoodWorker
  <2> QED
    BY <1>0, <1>1, <1>2, <1>3, <2>1, <2>2, <2>3, PlainStep
<1> DEFINE OfVms(ms) == \A m \in ms : m.id \in Vms
<1>4. ASSUME NEW s, NEW ms, s \notin {"remove", "command"}, OfVms(ms),
             task' = [task EXCEPT ![c].step = s, ![c].seen = ms]
      PROVE  IInv'
  <2>1. /\ OnlyTask(c) /\ isWorker(task'[c]) /\ task'[c].step = s /\ task'[c].seen = ms
        /\ \A f \in Fields \ {"step", "seen"} : task'[c][f] = task[c][f]
    BY <1>4, StepAndListing
  <2>2. /\ task'[c].kind = task[c].kind /\ task'[c].plan = task[c].plan
    BY <2>1 DEF Fields
  <2> QED
    BY <1>0, <1>1, <1>2, <1>4, <2>1, <2>2, PlainStep
<1>a. OfVms({})
  OBVIOUS
<1>b. OfVms(refreshInventory(mem[c]))
  BY ListingsAreOfVms
<1> HIDE DEF OfVms
<1>5. CASE fail(c)
  <2>1. task' = [task EXCEPT ![c].step = "failed", ![c].seen = {}]
    BY <1>5 DEF fail
  <2>2. "failed" \notin {"remove", "command"}
    OBVIOUS
  <2> QED
    BY ONLY <1>4, <1>a, <2>1, <2>2
<1>6. CASE fresh(c)
  <2>1. CASE ~fail(c)
    <3> DEFINE ms == refreshInventory(mem[c])
    <3>1. task' = [task EXCEPT ![c].seen = ms, ![c].step = "validate"]
      BY <1>6, <2>1 DEF fresh
    <3>2. OfVms(ms)
      BY <1>b
    <3> HIDE DEF ms
    <3>3. task' = [task EXCEPT ![c].step = "validate", ![c].seen = ms]
      BY <3>1 DEF IInv, Shape, Formed, Workers, GoodWorker, isWorker, Fields
    <3>4. "validate" \notin {"remove", "command"}
      OBVIOUS
    <3> QED
      BY ONLY <1>4, <3>2, <3>3, <3>4
  <2> QED
    BY <1>5, <2>1
<1>7. CASE validate(c)
  <2>1. fail(c) \/ task' = [task EXCEPT ![c].step = "preflight", ![c].seen = {}]
    BY <1>7 DEF validate
  <2> QED
    BY <1>4, <1>5, <1>a, <2>1
<1>8. CASE configure(c)
  BY <1>3, <1>5, <1>8 DEF configure
<1>9. CASE write(c)
  BY <1>3, <1>5, <1>9 DEF write
<1>10. CASE remove(c)
  BY <1>3, <1>5, <1>10 DEF remove
<1> QED
  BY <1>6, <1>7, <1>8, <1>9, <1>10

\* The reviewed state is the one before the command, as long as nobody disturbs it.
LEMMA PreflightKeepsIInv ==
  ASSUME IInv, NEW c \in Clients, preflight(c)
  PROVE  IInv'
<1>0. /\ UNCHANGED <<world, catalog, lock, mem, screen, told>>
      /\ UNCHANGED <<markers, known, borrowed, power, media, snaps>>
      /\ Formed' /\ known' \subseteq VirtualBox
  <2>1. UNCHANGED <<world, catalog, lock, mem, screen, told>>
    BY DEF preflight
  <2> QED
    BY <2>1, WorldStays DEF world, files, provider
<1>1. CASE fail(c)
  BY <1>0, <1>1, FailKeepsIInv
<1>2. CASE /\ planned(c).action \notin NewMachine \cup {"forget"} => mayRead(c) /\ evidenceHolds(c)
           /\ task' = [task EXCEPT ![c].step = "command", ![c].calm = TRUE]
  <2>1. GoodWorker(c, task[c]) /\ task = [d \in Clients |-> task[d]]
    BY DEF IInv, Shape, Formed, Workers
  <2>2. task'[c] = [task[c] EXCEPT !.step = "command", !.calm = TRUE] /\ OnlyTask(c)
    BY <1>2, <2>1 DEF OnlyTask
  <2>3. /\ isWorker(task'[c]) /\ task'[c].step = "command" /\ task'[c].seen = task[c].seen
        /\ task'[c].kind = task[c].kind /\ task'[c].plan = task[c].plan
    BY <2>1, <2>2 DEF GoodWorker, isWorker, Fields
  <2>4. task[c].kind = "execute"
    BY AtStep DEF preflight, Executing
  <2>5. MayRun(task[c])'
    BY <1>0, <1>2, <2>3 DEF MayRun, AsToldBefore, evidence, Running, evidenceHolds, planned, target
  <2>6. GoodWorker(c, task[c])'
    BY <1>0, <2>1, <2>3, <2>4, <2>5 DEF GoodWorker, MayRemove, SoundPlan
  <2> QED
    BY <1>0, <2>2, <2>6, WorkerMoves
<1> QED
  BY <1>1, <1>2 DEF preflight

LEMMA CommandKeepsIInv ==
  ASSUME IInv, NEW c \in Clients, command(c)
  PROVE  IInv'
<1>0. UNCHANGED <<dirs, markers, catalog, lock, mem, screen, told>>
  BY DEF command
<1>1. CASE fail(c) /\ UNCHANGED <<configs, provider>>
  BY <1>0, <1>1, FailKeepsIInv DEF provider
<1>2. Executing(c) /\ SoundPlan(planned(c)) /\ GoodWorker(c, task[c]) /\ task = [d \in Clients |-> task[d]]
  BY AtStep DEF command, IInv, Shape, Formed, Workers
<1>3. AfterCommand(planned(c)) \in {"configure", "second", "done"}
  BY DEF AfterCommand
<1>4. CASE goto(c, AfterCommand(planned(c))) /\ UNCHANGED <<configs, provider>>
  <2> DEFINE s == AfterCommand(planned(c))
  <2>1. /\ OnlyTask(c) /\ isWorker(task'[c]) /\ task'[c].step = s
        /\ \A f \in Fields \ {"step"} : task'[c][f] = task[c][f]
    BY <1>4, StepOnly DEF goto
  <2>2. /\ task'[c].kind = task[c].kind /\ task'[c].plan = task[c].plan /\ task'[c].seen = task[c].seen
    BY <2>1 DEF Fields
  <2>3. Formed' /\ known' \subseteq VirtualBox
    BY <1>4, WorldStays
  <2>4. s \notin {"remove", "command"}
    BY <1>3
  <2> HIDE DEF s
  <2> QED
    BY <1>0, <1>2, <2>1, <2>2, <2>3, <2>4, PlainStep DEF GoodWorker
<1>5. CASE /\ known' = CASE planned(c).action \in NewMachine -> known \cup ({target(c)} \cap VirtualBox)
                         [] planned(c).action \in {"unregister", "delete"} -> known \ {target(c)}
                         [] OTHER -> known
           /\ Formed'
           /\ task' = [task EXCEPT ![c].mutated = TRUE, ![c].step = AfterCommand(planned(c))]
  <2> DEFINE s == AfterCommand(planned(c))
  <2>1. task'[c] = [task[c] EXCEPT !.mutated = TRUE, !.step = s] /\ OnlyTask(c)
    BY <1>2, <1>5 DEF OnlyTask
  <2>2. s \notin {"remove", "command"}
    BY <1>3
  <2> HIDE DEF s
  <2>3. /\ isWorker(task'[c]) /\ task'[c].step = s /\ task'[c].seen = task[c].seen
        /\ task'[c].kind = task[c].kind /\ task'[c].plan = task[c].plan
    BY <1>2, <2>1 DEF GoodWorker, isWorker, Fields
  <2>4. known' \subseteq VirtualBox
    <3>1. known \subseteq VirtualBox
      BY DEF IInv, Shape, Formed
    <3> QED
      BY <1>5, <3>1
  <2>5. Formed'
    BY <1>5 DEF IInv, Shape, Formed
  <2> QED
    BY <1>0, <1>2, <2>1, <2>2, <2>3, <2>4, <2>5, PlainStep DEF GoodWorker
<1> QED
  <2>1. ASSUME NEW p, NEW n, power' = [power EXCEPT ![target(c)] = p], snaps' = [snaps EXCEPT ![target(c)] = n]
        PROVE  Formed'
    BY <2>1 DEF IInv, Shape, Formed
  <2>2. CASE /\ known' = CASE planned(c).action \in NewMachine -> known \cup ({target(c)} \cap VirtualBox)
                           [] planned(c).action \in {"unregister", "delete"} -> known \ {target(c)}
                           [] OTHER -> known
             /\ power' = [power EXCEPT ![target(c)] = Leaves(planned(c).action, @)]
             /\ snaps' = [snaps EXCEPT ![target(c)] = CASE planned(c).action = "create" -> 0
                                                         [] planned(c).action = "take" -> @ + 1
                                                         [] planned(c).action = "drop" -> @ - 1
                                                         [] OTHER -> @]
             /\ task' = [task EXCEPT ![c].mutated = TRUE, ![c].step = AfterCommand(planned(c))]
    <3>1. \E p, n : power' = [power EXCEPT ![target(c)] = p] /\ snaps' = [snaps EXCEPT ![target(c)] = n]
      BY <2>2
    <3> QED
      BY <1>5, <2>1, <2>2, <3>1
  <2> QED
    BY <1>1, <1>4, <2>2 DEF command

\* Nothing is removed before the provider's second listing has been looked at.
LEMMA SecondKeepsIInv ==
  ASSUME IInv, NEW c \in Clients, second(c)
  PROVE  IInv'
<1>0. /\ UNCHANGED <<world, catalog, lock, mem, screen, told>>
      /\ UNCHANGED <<markers, known, borrowed, power, media, snaps>>
      /\ Formed' /\ known' \subseteq VirtualBox
  <2>1. UNCHANGED <<world, catalog, lock, mem, screen, told>>
    BY DEF second
  <2> QED
    BY <2>1, WorldStays DEF world, files, provider
<1>1. CASE fail(c)
  BY <1>0, <1>1, FailKeepsIInv
<1> DEFINE v == target(c)
           list2 == refreshInventory(without(mem[c], v))
           m == [Live(mem[c], v) EXCEPT !.own = owner(mem[c], v)]
<1>2. CASE /\ managedDeletionGuard(list2, m, v \notin VirtualBox)
           /\ task' = [task EXCEPT ![c].step = "remove", ![c].calm = TRUE]
  <2>1. /\ GoodWorker(c, task[c]) /\ task = [d \in Clients |-> task[d]] /\ Executing(c)
        /\ mem[c] = catalog /\ SoundPlan(planned(c)) /\ known \subseteq VirtualBox
    BY AtStep DEF second, IInv, Shape, Formed, Workers
  <2>2. task'[c] = [task[c] EXCEPT !.step = "remove", !.calm = TRUE] /\ OnlyTask(c)
    BY <1>2, <2>1 DEF OnlyTask
  <2>3. /\ isWorker(task'[c]) /\ task'[c].step = "remove" /\ task'[c].seen = task[c].seen
        /\ task'[c].kind = task[c].kind /\ task'[c].plan = task[c].plan
    BY <2>1, <2>2 DEF GoodWorker, isWorker, Fields
  <2>4. /\ m.id = v /\ m.own = owner(mem[c], v) /\ m.shared = (v \in borrowed)
    BY DEF Live
  <2>a. m.own = "managed" /\ m.id \in markers /\ ~m.shared
    BY <1>2 DEF managedDeletionGuard
  <2>b. v \in VirtualBox => ~ \E other \in list2 : other.id = m.id
    BY <1>2 DEF managedDeletionGuard
  <2> HIDE DEF m
  <2>5. catalog[v] = "managed" /\ v \in markers /\ v \notin borrowed
    BY <2>1, <2>4, <2>a DEF owner
  <2>6. v # theirs
    BY <2>5 DEF IInv, NotTheirs
  <2>7. v \notin known
    <3>1. CASE v \notin VirtualBox
      BY <2>1, <3>1
    <3>2. CASE v \in VirtualBox
      <4>1. ~ \E other \in list2 : other.id = v
        BY <2>4, <2>b, <3>2
      <4>2. \A w \in known : Live(without(mem[c], v), w) \in list2
        BY DEF refreshInventory, Visible
      <4>3. Live(without(mem[c], v), v).id = v
        BY DEF Live
      <4> QED
        BY <4>1, <4>2, <4>3
    <3> QED
      BY <3>1, <3>2
  <2>8. MayRemove(task[c])'
    BY <1>0, <2>3, <2>5, <2>6, <2>7 DEF MayRemove, target
  <2>9. GoodWorker(c, task[c])'
    BY <1>0, <2>1, <2>3, <2>8 DEF GoodWorker, MayRun, SoundPlan, Executing
  <2> QED
    BY <1>0, <2>2, <2>9, WorkerMoves
<1> QED
  BY <1>1, <1>2 DEF second

-----------------------------------------------------------------------------
(* What begins and ends a task.                                            *)

OnlyMem(c) == mem' = [d \in Clients |-> IF d = c THEN mem'[c] ELSE mem[d]]
NoOtherExecutes(c) == \A d \in Clients : Executing(d) => d = c

\* A client takes or leaves the lock, loads or saves: nobody else is in an execution, or
\* the lock and the catalog stay.
LEMMA ClientMoves ==
  ASSUME IInv, NEW c \in Clients, OnlyTask(c), OnlyMem(c), GoodWorker(c, task[c])',
         UNCHANGED world,
         NoOtherExecutes(c) \/ UNCHANGED <<lock, catalog>>,
         catalog' = [v \in Vms |-> catalog'[v]], told' = [v \in Vms |-> told'[v]],
         \A v \in Vms : told'[v] = catalog'[v], catalog'[theirs] # "managed",
         \A m \in machines' : m.id \in Vms,
         SoundPlan(reviewed'), SoundPlan(shown'), snapshots'.of \in {None, selected'}
  PROVE  IInv'
<1>1. /\ task' = [d \in Clients |-> task'[d]] /\ \A d \in Clients \ {c} : task'[d] = task[d]
      /\ mem' = [d \in Clients |-> mem'[d]] /\ \A d \in Clients \ {c} : mem'[d] = mem[d]
  BY DEF OnlyTask, OnlyMem
<1>2. UNCHANGED <<dirs, configs, markers, known, power, media, config, snaps, borrowed>>
  BY DEF world, files, provider
<1>3. Shape'
  BY <1>1, <1>2 DEF IInv, Shape, Formed
<1>4. ASSUME NEW d \in Clients, d # c PROVE GoodWorker(d, task[d])'
  <2>1. task'[d] = task[d] /\ mem'[d] = mem[d] /\ GoodWorker(d, task[d])
    BY <1>1, <1>4 DEF IInv, Workers
  <2>2. CASE NoOtherExecutes(c)
    <3>1. task[d].kind # "execute"
      BY <1>4, <2>2 DEF NoOtherExecutes, Executing
    <3>2. task[d].step \notin {"remove", "command"}
      BY <2>1, <3>1 DEF GoodWorker
    <3> QED
      BY <2>1, <3>1, <3>2 DEF GoodWorker, MayRemove, MayRun, SoundPlan
  <2>3. CASE UNCHANGED <<lock, catalog>>
    BY <1>2, <2>1, <2>3 DEF GoodWorker, MayRemove, MayRun, AsToldBefore, evidence, Running, SoundPlan
  <2> QED
    BY <2>2, <2>3
<1>5. Workers'
  BY <1>4 DEF Workers
<1>6. NotTheirs' /\ SoundPlan(reviewed)' /\ SoundPlan(shown)' /\ ReportsAreRecorded' /\ SnapshotsOfSelection'
  BY DEF NotTheirs, SoundPlan, ReportsAreRecorded, SnapshotsOfSelection
<1> QED
  BY <1>3, <1>5, <1>6 DEF IInv

\* A worker that does not execute needs no more than its shape.
LEMMA IdleIsGood ==
  ASSUME NEW c \in Clients, isWorker(task'[c]), task'[c].plan = NoPlan,
         \A m \in task'[c].seen : m.id \in Vms,
         task'[c].kind \in {"none", "inventory", "snapshots"},
         task'[c].step \in {"none", "list", "done", "failed"},
         c # window => task'[c].kind = "none"
  PROVE  GoodWorker(c, task[c])'
<1>1. SoundPlan(NoPlan)
  BY NoPlanIsSound
<1>2. SoundPlan(task[c].plan)'
  BY <1>1 DEF SoundPlan
<1> QED
  BY <1>2 DEF GoodWorker, MayRemove, MayRun

LEMMA TaskReplaced ==
  ASSUME IInv, NEW c \in Clients, NEW t, task' = [task EXCEPT ![c] = t]
  PROVE  OnlyTask(c) /\ task'[c] = t
BY DEF IInv, Shape, Formed, OnlyTask

LEMMA MemReplaced ==
  ASSUME IInv, NEW c \in Clients, NEW e, mem' = [mem EXCEPT ![c] = e]
  PROVE  OnlyMem(c) /\ mem'[c] = e
BY DEF IInv, Shape, Formed, OnlyMem

LEMMA MemStays ==
  ASSUME IInv, NEW c \in Clients, UNCHANGED mem
  PROVE  OnlyMem(c)
BY DEF IInv, Shape, Formed, OnlyMem

LEMMA TaskStays ==
  ASSUME IInv, NEW c \in Clients, UNCHANGED task
  PROVE  OnlyTask(c)
BY DEF IInv, Shape, Formed, OnlyTask

LEMMA WorkersBegin ==
  /\ isWorker(AtRest) /\ AtRest.plan = NoPlan /\ AtRest.seen = {}
  /\ AtRest.kind = "none" /\ AtRest.step = "none" /\ ~AtRest.mutated
  /\ \A kind, step :
       /\ isWorker(Worker(kind, step)) /\ Worker(kind, step).plan = NoPlan /\ Worker(kind, step).seen = {}
       /\ Worker(kind, step).kind = kind /\ Worker(kind, step).step = step /\ ~Worker(kind, step).mutated
BY DEF isWorker, AtRest, Worker, Fields

LEMMA FreeLock ==
  ASSUME IInv, lock = nobody
  PROVE  \A d \in Clients : ~Executing(d)
BY NobodyAssumption DEF IInv, Workers, GoodWorker, Executing

LEMMA ReleasedIsAlone ==
  ASSUME IInv, NEW c \in Clients, lock' = released(c)
  PROVE  NoOtherExecutes(c) \/ UNCHANGED lock
BY DEF IInv, Workers, GoodWorker, Executing, NoOtherExecutes, released

\* What a record says of the catalog stays as it is.
LEMMA RecordStays ==
  ASSUME IInv, UNCHANGED <<catalog, told>>
  PROVE  /\ catalog' = [v \in Vms |-> catalog'[v]] /\ told' = [v \in Vms |-> told'[v]]
         /\ \A v \in Vms : told'[v] = catalog'[v]
         /\ catalog'[theirs] # "managed"
BY DEF IInv, Shape, Formed, ReportsAreRecorded, NotTheirs

\* An update of the catalog and its report agree, and never manage the user's own machine.
LEMMA CommitIsHonest ==
  ASSUME IInv, NEW c \in Clients, commit(c)
  PROVE  /\ catalog' = [v \in Vms |-> catalog'[v]] /\ told' = [v \in Vms |-> told'[v]]
         /\ \A v \in Vms : told'[v] = catalog'[v]
         /\ catalog'[theirs] # "managed"
<1> DEFINE plan == planned(c)
<1>1. SoundPlan(plan)
  BY DEF IInv, Workers, GoodWorker, planned
<1> HIDE DEF plan
<1>2. CASE catalog' = updated(catalog, plan) /\ told' = updated(told, plan)
  <2>1. theirs \in Vms
    BY VmAssumption
  <2>2. plan.id = theirs => Ownership(plan) # "managed"
    BY <1>1 DEF SoundPlan, Ownership
  <2>3. plan.id \in Vms
    BY <1>1 DEF SoundPlan
  <2> DEFINE own == Ownership(plan)
  <2>4. /\ catalog = [v \in Vms |-> catalog[v]] /\ told = [v \in Vms |-> told[v]]
        /\ \A v \in Vms : told[v] = catalog[v]
        /\ catalog[theirs] # "managed"
    BY DEF IInv, Shape, Formed, ReportsAreRecorded, NotTheirs
  <2>5. CASE Changes(plan)
    <3>1. catalog' = [catalog EXCEPT ![plan.id] = own] /\ told' = [told EXCEPT ![plan.id] = own]
      BY <1>2, <2>5 DEF updated
    <3> HIDE DEF own
    <3>2. plan.id = theirs => own # "managed"
      BY <2>2 DEF own
    <3> QED
      BY <2>1, <2>3, <2>4, <3>1, <3>2
  <2>6. CASE ~Changes(plan)
    BY <1>2, <2>4, <2>6 DEF updated
  <2> QED
    BY <2>5, <2>6
<1>3. CASE UNCHANGED <<catalog, told>>
  BY <1>3, RecordStays
<1> QED
  BY <1>2, <1>3 DEF commit, reported, plan

LEMMA NothingButTask ==
  ASSUME IInv, NEW c \in Clients, OnlyTask(c), GoodWorker(c, task[c])',
         UNCHANGED <<world, catalog, lock, mem, screen, told>>
  PROVE  IInv'
<1>1. UNCHANGED <<markers, known, borrowed, power, media, snaps, provider>>
  BY DEF world, files, provider
<1> QED
  BY <1>1, WorldStays, WorkerMoves

LEMMA BeginningsKeepIInv ==
  ASSUME IInv, refresh \/ refreshSnapshots \/ cancel
  PROVE  IInv'
<1>0. UNCHANGED <<world, catalog, lock, mem, screen, told>> /\ window \in Clients
  BY VmAssumption DEF refresh, refreshSnapshots, cancel
<1>1. CASE refresh
  <2>1. OnlyTask(window) /\ task'[window] = Worker("inventory", "list")
    BY <1>0, <1>1, TaskReplaced DEF refresh
  <2>2. GoodWorker(window, task[window])'
    BY <1>0, <2>1, WorkersBegin, IdleIsGood
  <2> QED
    BY <1>0, <2>1, <2>2, NothingButTask
<1>2. CASE refreshSnapshots
  <2> DEFINE w == Worker("snapshots", "list")
  <2>1. PICK id : task' = [task EXCEPT ![window] = [w EXCEPT !.of.of = id]]
    BY <1>2 DEF refreshSnapshots
  <2>2. OnlyTask(window) /\ task'[window] = [w EXCEPT !.of.of = id]
    BY <1>0, <2>1, TaskReplaced
  <2>3. isWorker(w) /\ w.plan = NoPlan /\ w.seen = {} /\ w.kind = "snapshots" /\ w.step = "list"
    BY WorkersBegin
  <2> HIDE DEF w
  <2>4. /\ isWorker(task'[window]) /\ task'[window].plan = NoPlan /\ task'[window].seen = {}
        /\ task'[window].kind = "snapshots" /\ task'[window].step = "list"
    BY <2>2, <2>3 DEF isWorker, Fields
  <2>5. GoodWorker(window, task[window])'
    BY <1>0, <2>4, IdleIsGood
  <2> QED
    BY <1>0, <2>2, <2>5, NothingButTask
<1>3. CASE cancel
  <2>1. /\ OnlyTask(window) /\ isWorker(task'[window])
        /\ \A f \in Fields \ {"cancel", "closing"} : task'[window][f] = task[window][f]
    <3>1. GoodWorker(window, task[window]) /\ task = [d \in Clients |-> task[d]]
      BY <1>0 DEF IInv, Shape, Formed, Workers
    <3>2. task'[window] = [task[window] EXCEPT !.cancel = TRUE] /\ OnlyTask(window)
      BY <1>0, <1>3, <3>1 DEF cancel, OnlyTask
    <3> QED
      BY <3>1, <3>2 DEF GoodWorker, isWorker, Fields
  <2>2. /\ task'[window].kind = task[window].kind /\ task'[window].step = task[window].step
        /\ task'[window].plan = task[window].plan /\ task'[window].seen = task[window].seen
        /\ task'[window].calm = task[window].calm
    BY <2>1 DEF Fields
  <2>3. GoodWorker(window, task[window])
    BY <1>0 DEF IInv, Workers
  <2>4. GoodWorker(window, task[window])'
    BY <1>0, <2>1, <2>2, <2>3 DEF GoodWorker, MayRemove, MayRun, AsToldBefore, evidence, Running, SoundPlan, world, files, provider
  <2> QED
    BY <1>0, <2>1, <2>4, NothingButTask
<1> QED
  BY <1>1, <1>2, <1>3

\* A new manager shows what the catalog holds.
LEMMA LoadIsSound ==
  ASSUME IInv, load, UNCHANGED catalog
  PROVE  /\ OnlyMem(window) /\ mem'[window] = catalog
         /\ \A m \in machines' : m.id \in Vms
         /\ SoundPlan(reviewed') /\ SoundPlan(shown') /\ snapshots'.of \in {None, selected'}
<1>1. OnlyMem(window) /\ mem'[window] = catalog
  BY MemReplaced, VmAssumption DEF load
<1>2. \A m \in machines' : m.id \in Vms
  BY DEF load, staleMachine
<1> QED
  BY <1>1, <1>2, NoPlanIsSound DEF load, NoSnapshots

LEMMA RecreateKeepsIInv ==
  ASSUME IInv, recreateVmLab
  PROVE  IInv'
<1>0. UNCHANGED <<world, catalog, lock, told>> /\ window \in Clients
  BY VmAssumption DEF recreateVmLab
<1>1. CASE ~busy(window)
  <2>1. load /\ UNCHANGED task
    BY <1>1 DEF recreateVmLab
  <2>2. ~Executing(window)
    BY <1>1 DEF busy, Executing
  <2>3. GoodWorker(window, task[window])'
    BY <1>0, <2>1, <2>2
       DEF IInv, Workers, GoodWorker, Executing, MayRemove, MayRun, SoundPlan, world, files, provider
  <2> QED
    BY <1>0, <2>1, <2>3, TaskStays, LoadIsSound, RecordStays, ClientMoves
<1>2. CASE busy(window)
  <2>0. /\ UNCHANGED <<mem, screen>>
        /\ task' = [task EXCEPT ![window].cancel = TRUE, ![window].closing = TRUE]
    BY <1>2 DEF recreateVmLab
  <2>1. GoodWorker(window, task[window]) /\ task = [d \in Clients |-> task[d]]
    BY <1>0 DEF IInv, Shape, Formed, Workers
  <2>2. task'[window] = [task[window] EXCEPT !.cancel = TRUE, !.closing = TRUE] /\ OnlyTask(window)
    BY <1>0, <2>0, <2>1 DEF OnlyTask
  <2>3. /\ isWorker(task'[window])
        /\ task'[window].kind = task[window].kind /\ task'[window].step = task[window].step
        /\ task'[window].plan = task[window].plan /\ task'[window].seen = task[window].seen
        /\ task'[window].calm = task[window].calm
    BY <2>1, <2>2 DEF GoodWorker, isWorker, Fields
  <2>4. GoodWorker(window, task[window])'
    <3>1. UNCHANGED <<catalog, lock, mem, markers, known, power, media, snaps, borrowed>>
      BY <1>0, <2>0 DEF world, files, provider
    <3>2. MayRun(task[window])'
      BY <2>1, <2>3, <3>1 DEF GoodWorker, MayRun, AsToldBefore, evidence, Running
    <3> QED
      BY <2>1, <2>3, <3>1, <3>2 DEF GoodWorker, MayRemove, SoundPlan
  <2> QED
    BY <1>0, <2>0, <2>2, <2>4, NothingButTask
<1> QED
  BY <1>1, <1>2

\* An execution begins with the lock and the catalog its plan was made from.
LEMMA ExecuteBeginsWell ==
  ASSUME IInv, NEW c \in Clients, NEW plan, SoundPlan(plan), execute(c, plan),
         UNCHANGED <<world, catalog>>, mem'[c] = catalog
  PROVE  /\ OnlyTask(c) /\ GoodWorker(c, task[c])' /\ NoOtherExecutes(c)
<1> DEFINE w == Worker("execute", FirstStep(plan))
<1>1. task' = [task EXCEPT ![c] = [w EXCEPT !.plan = plan]]
  BY DEF execute
<1>2. isWorker(w) /\ w.seen = {} /\ w.kind = "execute" /\ w.step = FirstStep(plan)
  BY WorkersBegin
<1>3. FirstStep(plan) \in {"fresh", "validate"}
  BY DEF FirstStep
<1> HIDE DEF w
<1>4. OnlyTask(c) /\ task'[c] = [w EXCEPT !.plan = plan]
  BY <1>1, TaskReplaced
<1>5. /\ isWorker(task'[c]) /\ task'[c].seen = {} /\ task'[c].kind = "execute"
      /\ task'[c].step = FirstStep(plan) /\ task'[c].plan = plan
  BY <1>2, <1>4 DEF isWorker, Fields
<1>6. lock' = c /\ catalog' = plan.revision /\ mem'[c] = catalog'
  BY DEF execute
<1>7. SoundPlan(task[c].plan)'
  BY <1>5 DEF SoundPlan
<1>8. GoodWorker(c, task[c])'
  BY <1>3, <1>5, <1>6, <1>7 DEF GoodWorker, MayRemove, MayRun
<1>9. NoOtherExecutes(c)
  BY FreeLock DEF execute, mayLock, NoOtherExecutes
<1> QED
  BY <1>4, <1>8, <1>9

LEMMA ExecuteReviewedKeepsIInv ==
  ASSUME IInv, executeReviewed
  PROVE  IInv'
<1>0. /\ UNCHANGED <<world, catalog, machines, selected, snapshots, reviewed, told>> /\ window \in Clients
      /\ mem' = [mem EXCEPT ![window] = catalog] /\ lock = nobody
  BY VmAssumption DEF executeReviewed, execute, mayLock
<1>1. OnlyMem(window) /\ mem'[window] = catalog
  BY <1>0, MemReplaced
<1>2. /\ \A m \in machines' : m.id \in Vms
      /\ SoundPlan(reviewed') /\ snapshots'.of \in {None, selected'}
  BY <1>0 DEF IInv, Shape, Formed, SnapshotsOfSelection
<1>3. SoundPlan(shown')
  BY NoPlanIsSound DEF executeReviewed, IInv
<1>4. CASE UNCHANGED <<lock, task>>
  <2>1. ~Executing(window)
    BY <1>0, FreeLock
  <2>2. GoodWorker(window, task[window])'
    BY <1>0, <1>4, <2>1
       DEF IInv, Workers, GoodWorker, Executing, MayRemove, MayRun, SoundPlan, world, files, provider
  <2> QED
    BY <1>0, <1>1, <1>2, <1>3, <1>4, <2>2, TaskStays, RecordStays, ClientMoves
<1>5. CASE execute(window, reviewed)
  <2>1. OnlyTask(window) /\ GoodWorker(window, task[window])' /\ NoOtherExecutes(window)
    BY <1>0, <1>1, <1>5, ExecuteBeginsWell DEF IInv
  <2> QED
    BY <1>0, <1>1, <1>2, <1>3, <2>1, RecordStays, ClientMoves
<1> QED
  BY <1>4, <1>5 DEF executeReviewed

LEMMA HandleKeepsIInv ==
  ASSUME IInv, NEW c \in Clients, Handle(c)
  PROVE  IInv'
<1>1. PICK v \in Vms : \/ handleForget(c, v)
                       \/ \E action \in NewMachine : handleNew(c, action, v)
                       \/ \E action \in Actions : handle(c, action, v)
  BY DEF Handle
<1>2. \E plan : SoundPlan(plan) /\ execute(c, plan)
  <2>1. CASE handleForget(c, v)
    BY <2>1 DEF handleForget, SoundPlan, Plan
  <2>2. ASSUME NEW action \in NewMachine, handleNew(c, action, v)
        PROVE  \E plan : SoundPlan(plan) /\ execute(c, plan)
    BY <2>2 DEF handleNew, New, SoundPlan, Plan
  <2>3. ASSUME NEW action \in Actions, handle(c, action, v)
        PROVE  \E plan : SoundPlan(plan) /\ execute(c, plan)
    <3>1. PICK m \in refreshInventory(catalog) : execute(c, Plan(action, v, m.evidence, snaps[v], catalog))
      BY <2>3 DEF handle
    <3>2. SoundPlan(Plan(action, v, m.evidence, snaps[v], catalog))
      BY ActionsAssumption DEF SoundPlan, Plan, NewMachine
    <3> QED
      BY <3>1, <3>2
  <2> QED
    BY <1>1, <2>1, <2>2, <2>3
<1>3. PICK plan : SoundPlan(plan) /\ execute(c, plan)
  BY <1>2
<1>4. /\ UNCHANGED <<world, catalog, screen, told>>
      /\ mem' = [mem EXCEPT ![c] = catalog]
  BY <1>1 DEF handleForget, handleNew, handle, Called
<1>5. OnlyMem(c) /\ mem'[c] = catalog
  BY <1>4, MemReplaced
<1>6. OnlyTask(c) /\ GoodWorker(c, task[c])' /\ NoOtherExecutes(c)
  BY <1>3, <1>4, <1>5, ExecuteBeginsWell
<1>7. /\ \A m \in machines' : m.id \in Vms
      /\ SoundPlan(reviewed') /\ SoundPlan(shown') /\ snapshots'.of \in {None, selected'}
  BY <1>4 DEF IInv, Shape, Formed, SnapshotsOfSelection, screen
<1> QED
  BY <1>4, <1>5, <1>6, <1>7, RecordStays, ClientMoves

\* The end of an execution on the command line; the lock is given back after the update.
LEMMA EndOfHandleKeepsIInv ==
  ASSUME IInv, NEW c \in Clients, endOfHandle(c)
  PROVE  IInv'
<1>1. /\ UNCHANGED <<world, screen>> /\ lock' = released(c) /\ c # window
      /\ mem' = [mem EXCEPT ![c] = NoEntries] /\ task' = [task EXCEPT ![c] = AtRest]
      /\ commit(c) \/ UNCHANGED <<catalog, told>>
  BY DEF endOfHandle
<1>2. OnlyTask(c) /\ task'[c] = AtRest /\ OnlyMem(c)
  BY <1>1, TaskReplaced, MemReplaced
<1>3. GoodWorker(c, task[c])'
  BY <1>2, WorkersBegin, IdleIsGood
<1>4. Executing(c)
  BY DEF endOfHandle, busy, Executing, IInv, Workers, GoodWorker
<1>5. NoOtherExecutes(c)
  BY <1>4, OneExecutes DEF NoOtherExecutes
<1>6. /\ \A m \in machines' : m.id \in Vms
      /\ SoundPlan(reviewed') /\ SoundPlan(shown') /\ snapshots'.of \in {None, selected'}
  BY <1>1 DEF IInv, Shape, Formed, SnapshotsOfSelection, screen
<1>7. /\ catalog' = [v \in Vms |-> catalog'[v]] /\ told' = [v \in Vms |-> told'[v]]
      /\ \A v \in Vms : told'[v] = catalog'[v]
      /\ catalog'[theirs] # "managed"
  BY <1>1, CommitIsHonest, RecordStays
<1> QED
  BY <1>1, <1>2, <1>3, <1>5, <1>6, <1>7, ClientMoves

LEMMA FinishKeepsIInv ==
  ASSUME IInv, finishAsync
  PROVE  IInv'
<1>0. window \in Clients
  BY VmAssumption
<1> DEFINE w == IF queuesRefresh THEN Worker("inventory", "list") ELSE AtRest
<1>1. /\ UNCHANGED <<world, shown>> /\ lock' = released(window)
      /\ task' = [task EXCEPT ![window] = w]
      /\ reviewed' \in {NoPlan, reviewed}
      /\ machines' \in {task[window].seen, machines}
  BY DEF finishAsync
<1>2. isWorker(w) /\ w.plan = NoPlan /\ w.seen = {} /\ w.kind \in {"none", "inventory"} /\ w.step \in {"none", "list"}
  BY WorkersBegin
<1> HIDE DEF w
<1>3. OnlyTask(window) /\ task'[window] = w
  BY <1>0, <1>1, TaskReplaced
<1>4. GoodWorker(window, task[window])'
  BY <1>0, <1>2, <1>3, IdleIsGood
<1>5. \A m \in machines' : m.id \in Vms
  BY <1>0, <1>1 DEF IInv, Shape, Formed, Workers, GoodWorker
<1>6. SoundPlan(reviewed') /\ SoundPlan(shown')
  BY <1>1, NoPlanIsSound DEF IInv
<1>7. snapshots'.of \in {None, selected'}
  <2> DEFINE gone == \/ /\ succeeded /\ task[window].kind = "inventory"
                        /\ ~\E m \in task[window].seen : m.id = selected
                     \/ /\ succeeded /\ Executing(window) /\ planned(window).id = selected
                        /\ planned(window).action \in TakesAway
             listed == succeeded /\ task[window].kind = "snapshots"
  <2>1. /\ selected' = IF gone THEN None ELSE selected
        /\ snapshots' = IF gone THEN NoSnapshots ELSE IF listed THEN snapshotsFor ELSE snapshots
    BY DEF finishAsync
  <2> HIDE DEF gone, listed
  <2>2. snapshots.of \in {None, selected} /\ NoSnapshots.of = None
    BY DEF IInv, SnapshotsOfSelection, NoSnapshots
  <2>3. snapshotsFor.of \in {None, selected}
    BY <2>2 DEF snapshotsFor
  <2> QED
    BY <2>1, <2>2, <2>3
<1>8. /\ catalog' = [v \in Vms |-> catalog'[v]] /\ told' = [v \in Vms |-> told'[v]]
      /\ \A v \in Vms : told'[v] = catalog'[v]
      /\ catalog'[theirs] # "managed"
  <2>1. commit(window) \/ UNCHANGED <<catalog, told>>
    BY DEF finishAsync
  <2> QED
    BY <1>0, <2>1, CommitIsHonest, RecordStays
<1>9. OnlyMem(window)
  BY <1>0, MemReplaced, MemStays DEF finishAsync
<1>10. NoOtherExecutes(window) \/ UNCHANGED <<lock, catalog>>
  <2>1. CASE Executing(window)
    BY <1>0, <2>1, OneExecutes DEF NoOtherExecutes
  <2>2. CASE ~Executing(window)
    BY <1>0, <1>1, <2>2, ReleasedIsAlone DEF finishAsync
  <2> QED
    BY <2>1, <2>2
<1> QED
  BY <1>0, <1>1, <1>3, <1>4, <1>5, <1>6, <1>7, <1>8, <1>9, <1>10, ClientMoves

LEMMA DestroyedKeepsIInv ==
  ASSUME IInv, destroyed
  PROVE  IInv'
<1>0. /\ UNCHANGED <<world, catalog, told>> /\ window \in Clients /\ lock' = released(window) /\ load
      /\ task' = [task EXCEPT ![window] = AtRest]
  BY VmAssumption DEF destroyed
<1>1. OnlyTask(window) /\ task'[window] = AtRest
  BY <1>0, TaskReplaced
<1>2. GoodWorker(window, task[window])'
  BY <1>0, <1>1, WorkersBegin, IdleIsGood
<1>3. NoOtherExecutes(window) \/ UNCHANGED <<lock, catalog>>
  BY <1>0, ReleasedIsAlone
<1> QED
  BY <1>0, <1>1, <1>2, <1>3, LoadIsSound, RecordStays, ClientMoves

\* A killed process leaves its task and its lock.
LEMMA CrashKeepsIInv ==
  ASSUME IInv, NEW c \in Clients, crash(c)
  PROVE  IInv'
<1>0. /\ UNCHANGED <<world, catalog, told>> /\ lock' = released(c)
      /\ task' = [task EXCEPT ![c] = AtRest]
  BY DEF crash
<1>1. OnlyTask(c) /\ task'[c] = AtRest
  BY <1>0, TaskReplaced
<1>2. GoodWorker(c, task[c])'
  BY <1>0, <1>1, WorkersBegin, IdleIsGood
<1>3. NoOtherExecutes(c) \/ UNCHANGED <<lock, catalog>>
  BY <1>0, ReleasedIsAlone
<1>4. CASE c = window
  <2>1. load
    BY <1>4 DEF crash
  <2> QED
    BY <1>0, <1>1, <1>2, <1>3, <1>4, <2>1, LoadIsSound, RecordStays, ClientMoves
<1>5. CASE c # window
  <2>1. mem' = [mem EXCEPT ![c] = NoEntries] /\ UNCHANGED screen
    BY <1>5 DEF crash
  <2>2. OnlyMem(c)
    BY <2>1, MemReplaced
  <2>3. /\ \A m \in machines' : m.id \in Vms
        /\ SoundPlan(reviewed') /\ SoundPlan(shown') /\ snapshots'.of \in {None, selected'}
    BY <2>1 DEF IInv, Shape, Formed, SnapshotsOfSelection, screen
  <2> QED
    BY <1>0, <1>1, <1>2, <1>3, <2>2, <2>3, RecordStays, ClientMoves
<1> QED
  BY <1>4, <1>5

\* The user comes between: whoever is at work on that machine is calm no more.
LEMMA OutsideKeepsIInv ==
  ASSUME IInv, NEW v \in Vms, outside(v)
  PROVE  IInv'
<1>0. /\ UNCHANGED <<dirs, configs, markers, catalog, lock, mem, told>>
      /\ UNCHANGED <<machines, selected, snapshots, reviewed, shown>>
  BY DEF outside, files, screen
<1>1. task' = [c \in Clients |-> IF busy(c) /\ Concerns(v, task[c].plan)
                                 THEN [task[c] EXCEPT !.calm = FALSE] ELSE task[c]]
  BY DEF outside
<1>2. \A w \in Vms \ {v} : /\ w \in known' <=> w \in known
                           /\ w \in borrowed' <=> w \in borrowed
                           /\ w \in media' <=> w \in media
                           /\ power'[w] = power[w] /\ snaps'[w] = snaps[w]
  BY DEF outside, usesMachine, IInv, Shape, Formed
<1>a. Formed'
  BY DEF outside, usesMachine, IInv, Shape, Formed
<1>b. known' \subseteq VirtualBox
  BY DEF outside, usesMachine, IInv, Shape, Formed
<1>3. Shape'
  BY <1>0, <1>1, <1>a, <1>b DEF IInv, Shape, Formed
<1>4. ASSUME NEW c \in Clients PROVE GoodWorker(c, task[c])'
  <2>1. GoodWorker(c, task[c])
    BY DEF IInv, Workers
  <2>2. CASE busy(c) /\ Concerns(v, task[c].plan)
    <3>1. task'[c] = [task[c] EXCEPT !.calm = FALSE]
      BY <1>1, <2>2
    <3>2. /\ isWorker(task'[c]) /\ ~task'[c].calm
          /\ task'[c].kind = task[c].kind /\ task'[c].step = task[c].step
          /\ task'[c].plan = task[c].plan /\ task'[c].seen = task[c].seen
      BY <2>1, <3>1 DEF GoodWorker, isWorker, Fields
    <3> QED
      BY <1>0, <2>1, <3>2 DEF GoodWorker, MayRemove, MayRun, SoundPlan
  <2>3. CASE ~busy(c)
    <3>1. task'[c] = task[c] /\ task[c].step \notin {"remove", "command"}
      BY <1>1, <2>1, <2>3 DEF GoodWorker, busy
    <3> QED
      BY <1>0, <2>1, <3>1 DEF GoodWorker, MayRemove, MayRun, SoundPlan
  <2>4. CASE ~Concerns(v, task[c].plan)
    <3> DEFINE plan == task[c].plan
    <3>1. task'[c] = task[c] /\ plan.id \in Vms \ {v} /\ (plan.id \in VirtualBox \/ v \in VirtualBox)
      BY <1>1, <2>1, <2>4 DEF GoodWorker, SoundPlan, Concerns
    <3>2. AsToldBefore(plan)' = AsToldBefore(plan)
      <4>1. plan.id \notin VirtualBox => Running' = Running
        BY <1>2, <3>1 DEF Running
      <4>2. evidence(plan.id)' = evidence(plan.id)
        <5>1. CASE plan.id \in VirtualBox
          <6>1. power'[plan.id] = power[plan.id] /\ snaps'[plan.id] = snaps[plan.id]
            BY <1>2, <3>1
          <6>2. (plan.id \in media') = (plan.id \in media)
            BY <1>2, <3>1
          <6> QED
            BY <5>1, <6>1, <6>2, <3>1 DEF evidence
        <5>2. CASE plan.id \notin VirtualBox
          BY <3>1, <4>1, <5>2 DEF evidence
        <5> QED
          BY <5>1, <5>2
      <4>3. snaps'[plan.id] = snaps[plan.id]
        BY <1>2, <3>1
      <4> QED
        BY <3>1, <4>2, <4>3 DEF AsToldBefore
    <3>3. MayRun(task[c])'
      BY <2>1, <3>1, <3>2 DEF GoodWorker, MayRun
    <3>4. MayRemove(task[c])'
      BY <1>0, <1>2, <2>1, <3>1 DEF GoodWorker, MayRemove
    <3> QED
      BY <1>0, <2>1, <3>1, <3>3, <3>4 DEF GoodWorker, SoundPlan
  <2> QED
    BY <2>2, <2>3, <2>4
<1>5. Workers'
  BY <1>4 DEF Workers
<1>6. NotTheirs' /\ SoundPlan(reviewed)' /\ SoundPlan(shown)' /\ ReportsAreRecorded' /\ SnapshotsOfSelection'
  BY <1>0 DEF IInv, NotTheirs, SoundPlan, ReportsAreRecorded, SnapshotsOfSelection
<1> QED
  BY <1>3, <1>5, <1>6 DEF IInv

LEMMA NextKeepsIInv ==
  ASSUME IInv, Next
  PROVE  IInv'
<1>1. CASE Window
  BY <1>1, SlotsKeepIInv, BeginningsKeepIInv, ExecuteReviewedKeepsIInv, RecreateKeepsIInv,
     FinishKeepsIInv, DestroyedKeepsIInv DEF Window
<1>2. ASSUME NEW c \in Clients, Step(c) PROVE IInv'
  BY <1>2, ListKeepsIInv, CheckKeepsIInv, PreflightKeepsIInv, CommandKeepsIInv, SecondKeepsIInv,
     EndOfHandleKeepsIInv, CrashKeepsIInv DEF Step
<1> QED
  BY <1>1, <1>2, HandleKeepsIInv, OutsideKeepsIInv DEF Next

LEMMA StutterKeepsIInv ==
  ASSUME IInv, UNCHANGED vars
  PROVE  IInv'
<1>1. UNCHANGED <<dirs, configs, markers, known, power, media, config, snaps, borrowed, catalog, lock, mem, task, told>>
  BY DEF vars, world, files, provider
<1>2. UNCHANGED <<machines, selected, snapshots, reviewed, shown>>
  BY DEF vars, screen
<1>3. ASSUME NEW c \in Clients PROVE GoodWorker(c, task[c])'
  <2>1. GoodWorker(c, task[c])
    BY DEF IInv, Workers
  <2>2. MayRun(task[c])'
    BY <1>1, <2>1 DEF GoodWorker, MayRun, AsToldBefore, evidence, Running
  <2> QED
    BY <1>1, <2>1, <2>2 DEF GoodWorker, MayRemove, SoundPlan
<1> QED
  BY <1>1, <1>2, <1>3 DEF IInv, Shape, Formed, Workers, SoundPlan, NotTheirs, ReportsAreRecorded, SnapshotsOfSelection

THEOREM Invariance == Spec => []IInv
<1>1. Init => IInv
  BY InitIInv
<1>2. IInv /\ [Next]_vars => IInv'
  BY NextKeepsIInv, StutterKeepsIInv
<1> QED
  BY <1>1, <1>2, PTL DEF Spec

\* An execution's catalog is its own until its update, every report is what the catalog
\* says, and the snapshots on display are those of the selected machine: Executor::execute,
\* CatalogTransactionGuard and finishAsync, for any number of processes and machines.
THEOREM Honesty == Spec => []CatalogIsHonest
<1>1. IInv => CatalogIsHonest
  BY DEF IInv, Workers, GoodWorker, CatalogIsHonest, CatalogHeldThroughExecution, Executing, planned
<1> QED
  BY <1>1, Invariance, PTL

-----------------------------------------------------------------------------
\* Directories go away in one place only, deleteManagedDirectoryWithLease.
LEMMA OnlyRemoveDeletes ==
  ASSUME IInv, Next, NEW v \in dirs \ dirs'
  PROVE  \E c \in Clients : remove(c) /\ v = target(c)
<1> SUFFICES ASSUME ~\E c \in Clients : remove(c) /\ v = target(c) PROVE dirs \subseteq dirs'
  OBVIOUS
<1>1. CASE Window
  <2>1. UNCHANGED dirs
    BY <1>1 DEF Window, selectMachine, clearSelection, refresh, refreshSnapshots, reviewRefused,
       discardPendingVmPreview, createVm, runVmAction, updateVmConfiguration, tryPendingVmBoot,
       vmDeviceAction, vmSnapshotAction, review, reviewNew, stage, executeReviewed, cancel,
       recreateVmLab, finishAsync, destroyed, world, files
  <2> QED
    BY <2>1
<1>2. ASSUME NEW c \in Clients, Step(c) PROVE dirs \subseteq dirs'
  <2>1. CASE remove(c)
    BY <1>2, <2>1 DEF remove, target
  <2>2. CASE validate(c)
    BY <2>2 DEF validate
  <2>3. CASE ~remove(c) /\ ~validate(c)
    <3>1. UNCHANGED dirs
      BY <1>2, <2>3 DEF Step, list, fresh, preflight, command, configure, write, second, endOfHandle,
         crash, world, files
    <3> QED
      BY <3>1
  <2> QED
    BY <2>1, <2>2, <2>3
<1>3. ASSUME NEW c \in Clients, Handle(c) PROVE UNCHANGED dirs
  BY <1>3 DEF Handle, handleForget, handleNew, handle, Called, world, files
<1>4. ASSUME NEW u \in Vms, outside(u) PROVE UNCHANGED dirs
  BY <1>4 DEF outside, files
<1> QED
  BY <1>1, <1>2, <1>3, <1>4 DEF Next

\* Only a managed machine's own marked directory is ever removed, and, unless the user came
\* between, after VirtualBox gave the machine up and with no disk of it in use elsewhere.
THEOREM Deletion == Spec => DeletesOnlyItsOwn
<1> DEFINE OwnDirectory(v) ==
      /\ v # theirs /\ v \in markers /\ catalog[v] = "managed"
      /\ \E c \in Clients :
           /\ task[c].step = "remove" /\ target(c) = v
           /\ task[c].calm => v \notin known /\ v \notin borrowed
<1>1. ASSUME IInv, Next, NEW v \in dirs \ dirs' PROVE OwnDirectory(v)
  <2>1. PICK c \in Clients : remove(c) /\ v = target(c)
    BY <1>1, OnlyRemoveDeletes
  <2>2. task[c].step = "remove"
    BY <2>1 DEF remove, at
  <2>3. MayRemove(task[c])
    BY <1>1 DEF IInv, Workers, GoodWorker
  <2> QED
    BY <2>1, <2>2, <2>3 DEF MayRemove, target
<1>2. ASSUME UNCHANGED vars, NEW v \in dirs \ dirs' PROVE FALSE
  BY <1>2 DEF vars, world, files
<1>3. IInv /\ [Next]_vars => [\A v \in dirs \ dirs' : OwnDirectory(v)]_vars
  BY <1>1, <1>2
<1> HIDE DEF OwnDirectory
<1>4. Spec => [][\A v \in dirs \ dirs' : OwnDirectory(v)]_vars
  BY <1>3, Invariance, PTL DEF Spec
<1> QED
  BY <1>4 DEF DeletesOnlyItsOwn, OwnDirectory

-----------------------------------------------------------------------------
(* Which step makes a worker's change count as made.                       *)

Still(c) == task'[c].mutated => task[c].mutated

LEMMA OthersStill ==
  ASSUME NEW d \in Clients, OnlyTask(d), Still(d)
  PROVE  \A c \in Clients : Still(c)
BY DEF OnlyTask, Still

LEMMA FreshStill ==
  ASSUME IInv, NEW d \in Clients, NEW t, task' = [task EXCEPT ![d] = t], ~t.mutated
  PROVE  \A c \in Clients : Still(c)
<1>1. OnlyTask(d) /\ task'[d] = t
  BY TaskReplaced
<1>2. Still(d)
  BY <1>1 DEF Still
<1> QED
  BY <1>1, <1>2, OthersStill

LEMMA StepStill ==
  ASSUME IInv, NEW d \in Clients, NEW s, task' = [task EXCEPT ![d].step = s]
  PROVE  \A c \in Clients : Still(c)
<1>1. OnlyTask(d) /\ task'[d].mutated = task[d].mutated
  BY StepOnly DEF Fields
<1> QED
  BY <1>1, OthersStill DEF Still

LEMMA ListingStill ==
  ASSUME IInv, NEW d \in Clients, NEW s, NEW ms, task' = [task EXCEPT ![d].step = s, ![d].seen = ms]
  PROVE  \A c \in Clients : Still(c)
<1>1. OnlyTask(d) /\ task'[d].mutated = task[d].mutated
  BY StepAndListing DEF Fields
<1> QED
  BY <1>1, OthersStill DEF Still

LEMMA ExecuteStill ==
  ASSUME IInv, NEW d \in Clients, NEW plan, execute(d, plan)
  PROVE  \A c \in Clients : Still(c)
<1> DEFINE w == Worker("execute", FirstStep(plan))
<1>1. task' = [task EXCEPT ![d] = [w EXCEPT !.plan = plan]]
  BY DEF execute
<1>2. isWorker(w) /\ ~w.mutated
  BY WorkersBegin
<1> HIDE DEF w
<1>3. ~[w EXCEPT !.plan = plan].mutated
  BY <1>2 DEF isWorker, Fields
<1> QED
  BY <1>1, <1>3, FreshStill

LEMMA WindowStill ==
  ASSUME IInv, Window
  PROVE  \A c \in Clients : Still(c)
<1>0. window \in Clients
  BY VmAssumption
<1>1. ASSUME UNCHANGED task PROVE \A c \in Clients : Still(c)
  BY <1>1 DEF Still
<1>2. CASE refresh
  BY <1>0, <1>2, FreshStill, WorkersBegin DEF refresh
<1>3. CASE refreshSnapshots
  <2> DEFINE w == Worker("snapshots", "list")
  <2>1. PICK id : task' = [task EXCEPT ![window] = [w EXCEPT !.of.of = id]]
    BY <1>3 DEF refreshSnapshots
  <2>2. isWorker(w) /\ ~w.mutated
    BY WorkersBegin
  <2> HIDE DEF w
  <2>3. ~[w EXCEPT !.of.of = id].mutated
    BY <2>2 DEF isWorker, Fields
  <2> QED
    BY <1>0, <2>1, <2>3, FreshStill
<1>4. CASE cancel \/ recreateVmLab
  <2>1. CASE UNCHANGED task
    BY <1>1, <2>1
  <2>2. isWorker(task[window]) /\ task = [d \in Clients |-> task[d]]
    BY <1>0 DEF IInv, Shape, Formed, Workers, GoodWorker
  <2>3. CASE task' = [task EXCEPT ![window].cancel = TRUE]
    <3>1. OnlyTask(window) /\ task'[window] = [task[window] EXCEPT !.cancel = TRUE]
      BY <1>0, <2>2, <2>3 DEF OnlyTask
    <3> QED
      BY <1>0, <2>2, <3>1, OthersStill DEF Still, isWorker, Fields
  <2>4. CASE task' = [task EXCEPT ![window].cancel = TRUE, ![window].closing = TRUE]
    <3>1. OnlyTask(window) /\ task'[window] = [task[window] EXCEPT !.cancel = TRUE, !.closing = TRUE]
      BY <1>0, <2>2, <2>4 DEF OnlyTask
    <3> QED
      BY <1>0, <2>2, <3>1, OthersStill DEF Still, isWorker, Fields
  <2> QED
    BY <1>4, <2>1, <2>3, <2>4 DEF cancel, recreateVmLab
<1>5. CASE executeReviewed
  BY <1>0, <1>1, <1>5, ExecuteStill DEF executeReviewed
<1>6. CASE finishAsync
  BY <1>0, <1>6, FreshStill, WorkersBegin DEF finishAsync
<1>7. CASE destroyed
  BY <1>0, <1>7, FreshStill, WorkersBegin DEF destroyed
<1>8. CASE \/ \E v \in Vms : selectMachine(v)
           \/ clearSelection \/ reviewRefused \/ discardPendingVmPreview
           \/ createVm \/ runVmAction \/ updateVmConfiguration \/ tryPendingVmBoot
           \/ vmDeviceAction \/ vmSnapshotAction
  <2>1. UNCHANGED task
    BY <1>8 DEF selectMachine, clearSelection, reviewRefused, discardPendingVmPreview, createVm,
       runVmAction, updateVmConfiguration, tryPendingVmBoot, vmDeviceAction, vmSnapshotAction,
       review, reviewNew, stage
  <2> QED
    BY <1>1, <2>1
<1> QED
  BY <1>2, <1>3, <1>4, <1>5, <1>6, <1>7, <1>8 DEF Window

LEMMA StepsStill ==
  ASSUME IInv, NEW d \in Clients, Step(d), ~command(d)
  PROVE  \A c \in Clients : Still(c)
<1>1. isWorker(task[d]) /\ task = [e \in Clients |-> task[e]]
  BY DEF IInv, Shape, Formed, Workers, GoodWorker
<1>2. CASE fail(d)
  BY <1>2, ListingStill DEF fail
<1>3. CASE list(d)
  <2>1. CASE fail(d)
    BY <1>2, <2>1
  <2>2. CASE ~fail(d)
    <3>1. OnlyTask(d) /\ \E ms, of : task'[d] = [task[d] EXCEPT !.seen = ms, !.step = "done", !.of = of]
      <4>1. CASE task' = [task EXCEPT ![d].seen = refreshInventory(mem[d]), ![d].step = "done",
                    ![d].of.list = IF task[d].kind = "snapshots" THEN snaps[task[d].of.of] ELSE 0]
        <5> DEFINE of == [task[d].of EXCEPT !.list = IF task[d].kind = "snapshots"
                                                    THEN snaps[task[d].of.of] ELSE 0]
                   ms == refreshInventory(mem[d])
        <5>1. task' = [task EXCEPT ![d] = [task[d] EXCEPT !.seen = ms, !.step = "done", !.of = of]]
          BY <1>1, <4>1 DEF isWorker, Fields
        <5> HIDE DEF of, ms
        <5> QED
          BY <5>1, TaskReplaced
      <4>2. CASE task' = [task EXCEPT ![d].step = "done",
                    ![d].seen = {staleMachine(mem[d], v) : v \in {u \in Vms : mem[d][u] # "absent"}}]
        <5> DEFINE ms == {staleMachine(mem[d], v) : v \in {u \in Vms : mem[d][u] # "absent"}}
        <5>1. task' = [task EXCEPT ![d] = [task[d] EXCEPT !.seen = ms, !.step = "done", !.of = task[d].of]]
          BY <1>1, <4>2 DEF isWorker, Fields
        <5> HIDE DEF ms
        <5> QED
          BY <5>1, TaskReplaced
      <4> QED
        BY <1>3, <2>2, <4>1, <4>2 DEF list
    <3>2. task'[d].mutated = task[d].mutated
      BY <1>1, <3>1 DEF isWorker, Fields
    <3> QED
      BY <3>1, <3>2, OthersStill DEF Still
  <2> QED
    BY <2>1, <2>2
<1>4. CASE fresh(d)
  <2>1. CASE ~fail(d)
    <3> DEFINE ms == refreshInventory(mem[d])
    <3>1. task' = [task EXCEPT ![d].seen = ms, ![d].step = "validate"]
      BY <1>4, <2>1 DEF fresh
    <3> HIDE DEF ms
    <3>2. task' = [task EXCEPT ![d].step = "validate", ![d].seen = ms]
      BY <1>1, <3>1 DEF isWorker, Fields
    <3> QED
      BY <3>2, ListingStill
  <2> QED
    BY <1>2, <2>1
<1>5. CASE validate(d)
  BY <1>2, <1>5, ListingStill DEF validate
<1>6. ASSUME NEW s, task' = [task EXCEPT ![d].step = s, ![d].calm = TRUE]
      PROVE  \A c \in Clients : Still(c)
  <2>1. OnlyTask(d) /\ task'[d] = [task[d] EXCEPT !.step = s, !.calm = TRUE]
    BY <1>1, <1>6 DEF OnlyTask
  <2> QED
    BY <1>1, <2>1, OthersStill DEF Still, isWorker, Fields
<1>7. CASE preflight(d)
  BY <1>2, <1>6, <1>7 DEF preflight
<1>8. CASE second(d)
  <2>1. fail(d) \/ task' = [task EXCEPT ![d].step = "remove", ![d].calm = TRUE]
    BY <1>8 DEF second
  <2> QED
    BY <1>2, <1>6, <2>1
<1>9. CASE configure(d) \/ write(d) \/ remove(d)
  <2>1. fail(d) \/ \E s : task' = [task EXCEPT ![d].step = s]
    BY <1>9 DEF configure, write, remove, goto
  <2> QED
    BY <1>2, <2>1, StepStill
<1>10. CASE endOfHandle(d) \/ crash(d)
  <2>1. task' = [task EXCEPT ![d] = AtRest]
    BY <1>10 DEF endOfHandle, crash
  <2> QED
    BY <2>1, FreshStill, WorkersBegin
<1> QED
  BY <1>3, <1>4, <1>5, <1>7, <1>8, <1>9, <1>10 DEF Step

LEMMA HandleStill ==
  ASSUME IInv, NEW d \in Clients, Handle(d)
  PROVE  \A c \in Clients : Still(c)
<1>1. \E plan : execute(d, plan)
  BY DEF Handle, handleForget, handleNew, handle
<1> QED
  BY <1>1, ExecuteStill

LEMMA OutsideStill ==
  ASSUME IInv, NEW v \in Vms, outside(v)
  PROVE  \A c \in Clients : Still(c)
<1> SUFFICES ASSUME NEW c \in Clients PROVE Still(c)
  OBVIOUS
<1>1. isWorker(task[c])
  BY DEF IInv, Workers, GoodWorker
<1>2. task'[c] \in {task[c], [task[c] EXCEPT !.calm = FALSE]}
  BY DEF outside
<1> QED
  BY <1>1, <1>2 DEF Still, isWorker, Fields

\* A worker's change begins with its plan's command; there is none to forget a machine.
LEMMA RunsItsCommand ==
  ASSUME IInv, Next, NEW c \in Clients, Runs(c)
  PROVE  planned(c).action # "forget"
<1>1. ~Still(c)
  BY DEF Runs, Still
<1>2. PICK d \in Clients : command(d)
  BY <1>1, WindowStill, StepsStill, HandleStill, OutsideStill DEF Next
<1>3. isWorker(task[d]) /\ task = [e \in Clients |-> task[e]]
  BY DEF IInv, Shape, Formed, Workers, GoodWorker
<1>4. CASE fail(d)
  BY <1>1, <1>4, ListingStill DEF fail
<1>5. CASE goto(d, AfterCommand(planned(d)))
  <2> DEFINE s == AfterCommand(planned(d))
  <2>1. task' = [task EXCEPT ![d].step = s]
    BY <1>5 DEF goto
  <2> HIDE DEF s
  <2> QED
    BY <1>1, <2>1, StepStill
<1>6. CASE /\ HasCommand(planned(d))
           /\ task' = [task EXCEPT ![d].mutated = TRUE, ![d].step = AfterCommand(planned(d))]
  <2>1. \A e \in Clients \ {d} : task'[e] = task[e]
    BY <1>3, <1>6
  <2>2. c = d
    BY <1>1, <2>1 DEF Still
  <2> QED
    BY <1>6, <2>2 DEF HasCommand
<1> QED
  BY <1>2, <1>4, <1>5, <1>6 DEF command

\* A command that changes a machine finds the provider telling what it told before the
\* review, unless the user came between it and the preflight: no other process does,
\* whatever their number.
THEOREM ReviewedRuns == Spec => ReviewedStateIsRun
<1> DEFINE AsReviewed ==
      \A c \in Clients :
        Runs(c) /\ task[c].calm /\ planned(c).action \notin NewMachine =>
          AsToldBefore(planned(c))
<1>1. ASSUME IInv, Next PROVE AsReviewed
  <2> SUFFICES ASSUME NEW c \in Clients, Runs(c), task[c].calm, planned(c).action \notin NewMachine
               PROVE  AsToldBefore(planned(c))
    OBVIOUS
  <2>1. MayRun(task[c]) /\ task[c].step = "command"
    BY <1>1 DEF IInv, Workers, GoodWorker, Runs
  <2>2. planned(c).action # "forget"
    BY <1>1, RunsItsCommand
  <2> QED
    BY <2>1, <2>2 DEF MayRun, planned, target
<1>2. IInv /\ [Next]_vars => [AsReviewed]_vars
  BY <1>1
<1> HIDE DEF AsReviewed
<1>3. Spec => [][AsReviewed]_vars
  BY <1>2, Invariance, PTL DEF Spec
<1> QED
  BY <1>3 DEF ReviewedStateIsRun, AsReviewed

=============================================================================
