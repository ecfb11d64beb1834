-------------------------------- MODULE VmLab --------------------------------
(***************************************************************************)
(* The virtual machine lab: the desktop window's manager and command-line  *)
(* processes review and run operations on machines that a provider         *)
(* (VirtualBox or VMware) keeps, and record them in one catalog file.      *)
(* A review makes a plan from an inventory; an execution holds the         *)
(* catalog's lock, checks the plan's evidence against the live provider,   *)
(* runs the provider's commands, writes or deletes the managed directory   *)
(* and changes the catalog.  Every command and file step is a step; the    *)
(* user works in the provider's own program in between.                    *)
(***************************************************************************)
EXTENDS Integers, FiniteSets, TLC

CONSTANTS
  Vms,           \* machine identities
  VirtualBox,    \* those of VirtualBox; the others are VMware's
  theirs,        \* the one the user had before, outside the managed root
  Clients,       \* the processes that use the catalog
  window,        \* the one of them that is the desktop window
  Actions,       \* bound: the actions tried on a machine
  MaxReviews,    \* bound: reviews made
  MaxTroubles    \* bound: changes from outside, crashes, closings and cancellations

nobody == "nobody"
NewMachine == {"create", "register"}

ASSUME VmAssumption == VirtualBox \subseteq Vms /\ theirs \in VirtualBox /\ window \in Clients
ASSUME ActionsAssumption == Actions \cap NewMachine = {}
ASSUME NobodyAssumption == nobody \notin Clients

VARIABLES
  dirs, configs, markers, \* machines that have a directory, a configuration file, an ownership marker
  known,         \* the machines VirtualBox has registered
  power,         \* each machine's power state
  media,         \* the machines whose storage slot is occupied
  config,        \* the version of each machine's configuration file
  snaps,         \* each machine's snapshots in its provider, counted
  borrowed,      \* machines whose directory holds a disk of a machine the user made elsewhere
  catalog,       \* the catalog file: each machine's ownership, or absent
  lock,          \* owner of catalog.json.lock, or nobody
  mem,           \* each client's m_machines, as loaded or saved
  machines, selected, snapshots, \* the window's lists, selection and snapshots shown
  reviewed, shown,       \* m_reviewed, and the preview on display
  pendingBoot,   \* the machine to start once it is created
  task,          \* each client's worker
  told,          \* history: what the last operation reported as successful made of each machine
  reviews, troubles

files == <<dirs, configs, markers>>
provider == <<known, power, media, config, snaps, borrowed>>
world == <<files, provider>>
screen == <<machines, selected, snapshots, reviewed, shown, pendingBoot>>
vars == <<world, catalog, lock, mem, screen, task, told, reviews, troubles>>

None == "none"
NoEntries == [v \in Vms |-> "absent"]
NoPlan == [action |-> "none", id |-> theirs, n |-> 0]

PowerStates == {"off", "saved", "running", "paused"}
Active == {"running", "paused"}
TakesAway == {"forget", "unregister", "delete"}

\* The power states in which each provider plans an action on a machine.
virtualBoxLifecycle ==
  [start |-> {"off", "saved"}, powerOff |-> Active, saveState |-> Active, reset |-> Active,
   pause |-> {"running"}, resume |-> {"paused"}]
virtualBoxConfiguration == [modify |-> {"off"}]
virtualBoxSnapshots == [take |-> PowerStates, restore |-> {"off"}, drop |-> {"off"}]
virtualBoxRemoval == [unregister |-> {"off"}, delete |-> {"off"}]

vmwareLifecycle == [virtualBoxLifecycle EXCEPT !.resume = Active]
vmwareConfiguration == [modify |-> {"off"}]
vmwareSnapshots == [take |-> PowerStates, restore |-> {"off"}, drop |-> {"off"}]
vmwareRemoval == [unregister |-> {}, delete |-> {"off"}]        \* vmrun has no unregister

machineReadyForEdit == [attach |-> {"off"}, detach |-> {"off"}]

When(action, v) ==
  LET table == IF v \in VirtualBox
               THEN virtualBoxLifecycle @@ virtualBoxConfiguration @@ virtualBoxSnapshots @@ virtualBoxRemoval
               ELSE vmwareLifecycle @@ vmwareConfiguration @@ vmwareSnapshots @@ vmwareRemoval
  IN  (table @@ machineReadyForEdit)[action]

\* The power state an action leaves.
Leaves(action, state) ==
  CASE action \in {"start", "resume"} -> "running"
    [] action = "powerOff" -> "off"
    [] action = "saveState" -> "saved"
    [] action = "pause" -> "paused"
    [] OTHER -> state

\* An occupied slot is detached and an empty one attached.
SlotFits(action, filled) == (action = "attach" => ~filled) /\ (action = "detach" => filled)

NoSnapshots == [of |-> None, list |-> 0]

\* A worker at rest, and one that begins.
AtRest == [kind |-> "none", step |-> "none", plan |-> NoPlan, seen |-> {}, of |-> NoSnapshots,
           cancel |-> FALSE, mutated |-> FALSE, calm |-> TRUE, closing |-> FALSE]
Worker(kind, step) == [AtRest EXCEPT !.kind = kind, !.step = step]

busy(c) == task[c].kind # "none"
Executing(c) == task[c].kind = "execute"
troubled == troubles < MaxTroubles /\ troubles' = troubles + 1
goto(c, step) == task' = [task EXCEPT ![c].step = step]

-----------------------------------------------------------------------------
(* What a provider's inventory says. *)

Running == {v \in Vms \ VirtualBox : power[v] \in Active}

\* stateRevision, by value.  VirtualBox's is all it tells of the machine; VMware's is the
\* list of the machines that run, in which a paused one is like a running one.
NoEvidence == [power |-> "none", filled |-> FALSE, snapshots |-> 0, running |-> {}]
evidence(v) ==
  IF v \in VirtualBox
  THEN [power |-> power[v], filled |-> v \in media, snapshots |-> snaps[v], running |-> {}]
  ELSE [NoEvidence EXCEPT !.running = Running]

\* An inventory of VMware takes a paused machine for a running one.
listedPower(v) == IF v \in Running THEN "running" ELSE power[v]

\* addFileEvidence and the expected content of a file to be written: the file as it is
\* while the plan is made, which may be later than the inventory.
file(v) == [version |-> config[v], filled |-> v \in media]

\* VirtualBox lists what it has registered; VMware is asked for the catalog's machines
\* and what it runs.
Visible(entries) ==
  known \cup {v \in Vms \ VirtualBox : v \in configs /\ (power[v] \in Active \/ entries[v] # "absent")}

owner(entries, v) == IF entries[v] = "managed" THEN "managed" ELSE "external"

Live(entries, v) ==
  [id |-> v, own |-> owner(entries, v), evidence |-> evidence(v), power |-> listedPower(v),
   filled |-> v \in media, shared |-> v \in borrowed, fresh |-> TRUE]
staleMachine(entries, v) ==
  [id |-> v, own |-> entries[v], evidence |-> NoEvidence, power |-> "off", filled |-> FALSE,
   shared |-> FALSE, fresh |-> FALSE]

refreshInventory(entries) ==
  {Live(entries, v) : v \in Visible(entries)}
    \cup {staleMachine(entries, v) : v \in {u \in Vms : entries[u] # "absent"} \ Visible(entries)}

complete(list) == \A m \in list : m.fresh

mutantIgnoresPresence(list, m, present) ==
  m.own = "managed" /\ m.id \in dirs /\ m.id \in markers /\ complete(list) /\ ~m.shared

\* managedDeletionGuardImpl: ownership, the marker, complete topology, no shared disks,
\* and the target present, or absent after it was unregistered.
managedDeletionGuard(list, m, present) ==
  /\ m.own = "managed" /\ m.fresh
  /\ m.id \in dirs /\ m.id \in markers
  /\ complete(list) /\ ~m.shared
  /\ present <=> \E other \in list : other.id = m.id

\* The provider adapters' plan(), makeForgetCatalogPlan and their refusals.
Plannable(action, m, list) ==
  /\ action # "forget" =>
       /\ m.fresh /\ m.power \in When(action, m.id)
       /\ SlotFits(action, IF m.id \in VirtualBox THEN m.filled ELSE m.id \in media)
  /\ action \in {"forget", "unregister"} => m.own = "external"
  /\ action = "delete" => managedDeletionGuard(list, m, TRUE)

\* A new machine gets a new directory; an import names a configuration file.
New(v) == v \notin dirs /\ v # theirs /\ (v \in VirtualBox => v \notin known)
Importable(v) == v \in configs

Plan(action, v, seen, listed, entries) ==
  [action |-> action, id |-> v, n |-> reviews + 1, evidence |-> seen, snapshots |-> listed,
   file |-> file(v), revision |-> entries]

OfSnapshots == {"restore", "drop"}

AsToldBefore(plan) ==
  /\ evidence(plan.id) = plan.evidence
  /\ plan.action \in OfSnapshots => snaps[plan.id] = plan.snapshots

\* The plans that carry the evidence of an existing configuration file.
ReadsFile(plan) == plan.action \notin {"create", "forget"} /\ (plan.action = "register" => plan.id \in VirtualBox)

\* VMware's configuration file is edited by the program itself, after the commands.
ByFile(plan) == plan.action \in {"modify", "attach", "detach"} /\ plan.id \notin VirtualBox

-----------------------------------------------------------------------------
(* The window's manager, on the UI thread. *)

ready == ~task[window].closing

\* VmLabManager::load, of a new manager for the scope.
load ==
  /\ mem' = [mem EXCEPT ![window] = catalog]
  /\ machines' = {staleMachine(catalog, v) : v \in {u \in Vms : catalog[u] # "absent"}}
  /\ selected' = None /\ snapshots' = NoSnapshots
  /\ reviewed' = NoPlan /\ shown' = NoPlan /\ pendingBoot' = None

\* The reviewed plan is dropped with a selection; the preview stays on display.
selectMachine(v) ==
  /\ ready /\ ~busy(window)
  /\ \E m \in machines : m.id = v
  /\ selected # v
  /\ selected' = v /\ snapshots' = NoSnapshots /\ reviewed' = NoPlan
  /\ UNCHANGED <<world, catalog, lock, mem, machines, shown, pendingBoot, task, told, reviews, troubles>>

clearSelection ==
  /\ ready /\ selected # None
  /\ selected' = None /\ snapshots' = NoSnapshots /\ reviewed' = NoPlan
  /\ UNCHANGED <<world, catalog, lock, mem, machines, shown, pendingBoot, task, told, reviews, troubles>>

selectedMachine == {m \in machines : m.id = selected}

\* detectProviders, which queues refreshInventory.
refresh ==
  /\ ready /\ ~busy(window)
  /\ task' = [task EXCEPT ![window] = Worker("inventory", "list")]
  /\ UNCHANGED <<world, catalog, lock, mem, screen, told, reviews, troubles>>

refreshSnapshots ==
  /\ ready /\ ~busy(window)
  /\ \E m \in selectedMachine :
       /\ m.fresh
       /\ task' = [task EXCEPT ![window] = [Worker("snapshots", "list") EXCEPT !.of.of = m.id]]
  /\ UNCHANGED <<world, catalog, lock, mem, screen, told, reviews, troubles>>

\* review(): the plan is made from the machines on the screen and the catalog in memory,
\* and its preview is staged for the user.
stage(plan) ==
  /\ reviewed' = plan /\ shown' = plan
  /\ reviews' = reviews + 1
  /\ UNCHANGED <<world, catalog, lock, mem, machines, task, told, troubles>>

mayReview == ready /\ ~busy(window) /\ reviews < MaxReviews

review(action) ==
  /\ mayReview
  /\ \E m \in selectedMachine :
       /\ Plannable(action, m, machines)
       /\ action \in OfSnapshots => snapshots.of = m.id /\ snapshots.list > 0
       /\ stage(Plan(action, m.id, m.evidence, snapshots.list, mem[window]))
  /\ pendingBoot' = None
  /\ UNCHANGED <<selected, snapshots>>

reviewNew(action, v, boot) ==
  /\ mayReview
  /\ action = "create" => New(v)
  /\ action = "register" => Importable(v)
  /\ stage(Plan(action, v, NoEvidence, 0, mem[window]))
  /\ pendingBoot' = boot
  /\ UNCHANGED <<selected, snapshots>>

\* After each new list of machines: the created machine is selected and its start staged.
tryPendingVmBoot ==
  /\ mayReview
  /\ \E m \in machines :
       /\ m.id = pendingBoot
       /\ IF Plannable("start", m, machines)
          THEN stage(Plan("start", m.id, m.evidence, 0, mem[window]))
          ELSE /\ reviewed' = (IF selected = m.id THEN reviewed ELSE NoPlan) /\ shown' = NoPlan
               /\ UNCHANGED <<world, catalog, lock, mem, machines, task, told, reviews, troubles>>
       /\ selected' = m.id
       /\ snapshots' = IF selected = m.id THEN snapshots ELSE NoSnapshots
  /\ pendingBoot' = None

\* A review that fails takes the preview off the display and leaves the reviewed plan.
reviewRefused ==
  /\ ready /\ ~busy(window) /\ shown # NoPlan
  /\ shown' = NoPlan /\ pendingBoot' = None
  /\ UNCHANGED <<world, catalog, lock, mem, machines, selected, snapshots, reviewed, task, told, reviews, troubles>>

discardPendingVmPreview ==
  /\ ready /\ (shown # NoPlan \/ reviewed # NoPlan)
  /\ shown' = NoPlan /\ reviewed' = NoPlan /\ pendingBoot' = None
  /\ UNCHANGED <<world, catalog, lock, mem, machines, selected, snapshots, task, told, reviews, troubles>>

\* Catalog::beginTransaction: the lock, a fresh load, and the revision the plan names.
\* A refusal leaves the freshly loaded catalog in memory.
mutantIgnoresLock(c) == TRUE
mayLock(c) == lock = nobody

FirstStep(plan) == IF plan.action = "delete" THEN "fresh" ELSE "validate"

execute(c, plan) ==
  /\ mayLock(c) /\ catalog = plan.revision
  /\ lock' = c
  /\ task' = [task EXCEPT ![c] = [Worker("execute", FirstStep(plan)) EXCEPT !.plan = plan]]

executeReviewed ==
  /\ ready /\ shown # NoPlan /\ shown = reviewed
  /\ IF busy(window)
     THEN /\ ~Executing(window) /\ lock = nobody          \* the lock is taken and given back
          /\ mem' = [mem EXCEPT ![window] = catalog]
          /\ UNCHANGED <<lock, task, shown>>
     ELSE \/ /\ execute(window, reviewed)
             /\ mem' = [mem EXCEPT ![window] = catalog]
             /\ shown' = NoPlan
          \/ /\ lock = nobody                             \* another revision, or an old preview
             /\ mem' = [mem EXCEPT ![window] = catalog]
             /\ UNCHANGED <<lock, task, shown>>
  /\ UNCHANGED <<world, catalog, machines, selected, snapshots, reviewed, pendingBoot, told, reviews, troubles>>

cancel ==
  /\ ready /\ busy(window) /\ ~task[window].cancel /\ troubled
  /\ task' = [task EXCEPT ![window].cancel = TRUE]
  /\ UNCHANGED <<world, catalog, lock, mem, screen, told, reviews>>

\* recreateVmLab: another project is opened; the manager is cancelled, joined and destroyed.
recreateVmLab ==
  /\ ready /\ troubled
  /\ IF busy(window)
     THEN /\ task' = [task EXCEPT ![window].cancel = TRUE, ![window].closing = TRUE]
          /\ UNCHANGED <<mem, screen>>
     ELSE load /\ UNCHANGED task
  /\ UNCHANGED <<world, catalog, lock, told, reviews>>

-----------------------------------------------------------------------------
(* A command-line process: one action, from the live inventory to the catalog. *)

Called(c) ==
  /\ c # window /\ ~busy(c) /\ reviews < MaxReviews
  /\ mem' = [mem EXCEPT ![c] = catalog]
  /\ reviews' = reviews + 1
  /\ UNCHANGED <<world, catalog, screen, told, troubles>>

handleForget(c, v) ==
  /\ Called(c)
  /\ catalog[v] = "external"
  /\ execute(c, Plan("forget", v, NoEvidence, 0, catalog))

handleNew(c, action, v) ==
  /\ Called(c)
  /\ action = "create" => New(v)
  /\ action = "register" => Importable(v)
  /\ execute(c, Plan(action, v, NoEvidence, 0, catalog))

handle(c, action, v) ==
  /\ Called(c)
  /\ LET list == refreshInventory(catalog)
     IN  \E m \in list :
           /\ m.id = v /\ Plannable(action, m, list)
           /\ action \in OfSnapshots => snaps[v] > 0
           /\ execute(c, Plan(action, v, m.evidence, snaps[v], catalog))

-----------------------------------------------------------------------------
(* The worker: Executor::execute and the listings. *)

at(c, step) == busy(c) /\ task[c].step = step
planned(c) == task[c].plan
target(c) == task[c].plan.id

\* Interruptible commands give up when cancelled; commands that change something only
\* before the first of them has run.
mayMutate(c) == ~task[c].cancel \/ task[c].mutated
mayRead(c) == ~task[c].cancel

fail(c) == task' = [task EXCEPT ![c].step = "failed", ![c].seen = {}]

list(c) ==
  /\ at(c, "list")
  /\ \/ /\ mayRead(c)
        /\ \/ task' = [task EXCEPT ![c].seen = refreshInventory(mem[c]), ![c].step = "done",
                                   ![c].of.list = IF task[c].kind = "snapshots" THEN snaps[task[c].of.of] ELSE 0]
           \/ /\ task[c].kind = "inventory"               \* no provider answers
              /\ task' = [task EXCEPT ![c].step = "done",
                   ![c].seen = {staleMachine(mem[c], v) : v \in {u \in Vms : mem[c][u] # "absent"}}]
     \/ fail(c)
  /\ UNCHANGED <<world, catalog, lock, mem, screen, told, reviews, troubles>>

\* Before a managed deletion: a complete inventory that still has the target.
fresh(c) ==
  /\ at(c, "fresh")
  /\ \/ /\ mayRead(c)
        /\ \E m \in refreshInventory(mem[c]) : m.id = target(c)
        /\ complete(refreshInventory(mem[c]))
        /\ task' = [task EXCEPT ![c].seen = refreshInventory(mem[c]), ![c].step = "validate"]
     \/ fail(c)
  /\ UNCHANGED <<world, catalog, lock, mem, screen, told, reviews, troubles>>

\* Executor::validate again, with the files' evidence, the lease, and the reserved directory
\* of a new machine.
validate(c) ==
  /\ at(c, "validate")
  /\ \/ /\ planned(c).action = "create" => New(target(c))
        /\ planned(c).action = "register" => Importable(target(c))
        /\ ReadsFile(planned(c)) => config[target(c)] = planned(c).file.version
        /\ planned(c).action = "delete" =>
             \E m \in task[c].seen : m.id = target(c) /\ managedDeletionGuard(task[c].seen, m, TRUE)
        /\ dirs' = IF planned(c).action = "create" THEN dirs \cup {target(c)} ELSE dirs
        /\ task' = [task EXCEPT ![c].step = "preflight", ![c].seen = {}]
     \/ fail(c) /\ UNCHANGED dirs
  /\ UNCHANGED <<configs, markers, provider, catalog, lock, mem, screen, told, reviews, troubles>>

\* What the provider tells must be what it told before the review: a value, so a machine
\* started and stopped again meanwhile is none the wiser.
mutantAnyEvidence(c) == TRUE
evidenceHolds(c) == AsToldBefore(planned(c))

preflight(c) ==
  /\ at(c, "preflight")
  /\ \/ /\ planned(c).action \notin NewMachine \cup {"forget"} =>
             mayRead(c) /\ evidenceHolds(c)
        /\ task' = [task EXCEPT ![c].step = "command", ![c].calm = TRUE]
     \/ fail(c)
  /\ UNCHANGED <<world, catalog, lock, mem, screen, told, reviews, troubles>>

\* What the provider accepts: vmrun does not tell a suspended machine from one that is off.
Accepts(action, v) ==
  \/ power[v] \in When(action, v)
  \/ v \notin VirtualBox /\ power[v] = "saved" /\ "off" \in When(action, v)

\* The commands and writes after which the configuration file is another.
Rewrites == {"create", "modify", "attach", "detach", "restore"}

\* The plan's commands.  VMware has none to import, unregister or delete; nothing is run to forget.
\* A file's edit asks for its content as reviewed, and neither for the power nor for a cancellation.
HasCommand(plan) ==
  plan.action # "forget" /\ (plan.action \in {"register", "unregister", "delete"} => plan.id \in VirtualBox)

AfterCommand(plan) ==
  CASE plan.action = "create" -> "configure"
    [] plan.action = "delete" -> "second"
    [] OTHER -> "done"

command(c) ==
  /\ at(c, "command")
  /\ LET v == target(c)
         action == planned(c).action
     IN  \/ /\ ~HasCommand(planned(c))
            /\ goto(c, AfterCommand(planned(c)))
            /\ UNCHANGED <<configs, provider>>
         \/ /\ HasCommand(planned(c))
            /\ IF ByFile(planned(c))
               THEN (v \in media) = planned(c).file.filled
               ELSE /\ mayMutate(c)
                    /\ action = "register" => v \notin known     \* else the provider refuses
                    /\ action \in {"unregister", "delete"} => v \in known
                    /\ action \notin NewMachine => Accepts(action, v) /\ SlotFits(action, v \in media)
                    /\ action \in OfSnapshots => snaps[v] > 0
            /\ known' = CASE action \in NewMachine -> known \cup ({v} \cap VirtualBox)
                          [] action \in {"unregister", "delete"} -> known \ {v}
                          [] OTHER -> known
            /\ configs' = IF action = "create" THEN configs \cup ({v} \cap VirtualBox) ELSE configs
            /\ power' = [power EXCEPT ![v] = Leaves(action, @)]
            /\ media' = CASE action \in {"create", "attach"} -> media \cup {v}
                          [] action = "detach" -> media \ {v}
                          [] OTHER -> media
            /\ config' = [config EXCEPT ![v] = IF action \in Rewrites THEN @ + 1 ELSE @]
            /\ snaps' = [snaps EXCEPT ![v] = CASE action = "create" -> 0
                                               [] action = "take" -> @ + 1
                                               [] action = "drop" -> @ - 1
                                               [] OTHER -> @]
            /\ task' = [task EXCEPT ![c].mutated = TRUE, ![c].step = AfterCommand(planned(c))]
            /\ UNCHANGED borrowed
         \/ fail(c) /\ UNCHANGED <<configs, provider>>
  /\ UNCHANGED <<dirs, markers, catalog, lock, mem, screen, told, reviews, troubles>>

\* The later commands of a creation: the disk, the controllers, the media.
configure(c) ==
  /\ at(c, "configure")
  /\ \/ mayMutate(c) /\ goto(c, "write")
     \/ fail(c)
  /\ UNCHANGED <<world, catalog, lock, mem, screen, told, reviews, troubles>>

\* Atomic writes: VMware's configuration file, then the ownership marker.
write(c) ==
  /\ at(c, "write")
  /\ \/ /\ configs' = configs \cup {target(c)} /\ markers' = markers \cup {target(c)}
        /\ goto(c, "done")
     \/ /\ configs' \in {configs, configs \cup {target(c)}}
        /\ UNCHANGED markers
        /\ fail(c)
  /\ UNCHANGED <<dirs, provider, catalog, lock, mem, screen, told, reviews, troubles>>

\* A second inventory after the provider let go of the machine, and the guard again.
without(entries, v) == IF v \in VirtualBox THEN [entries EXCEPT ![v] = "absent"] ELSE entries

second(c) ==
  /\ at(c, "second")
  /\ LET list2 == refreshInventory(without(mem[c], target(c)))
         m == [Live(mem[c], target(c)) EXCEPT !.own = owner(mem[c], target(c))]
     IN  \/ /\ mayRead(c)
            /\ managedDeletionGuard(list2, m, target(c) \notin VirtualBox)
            /\ task' = [task EXCEPT ![c].step = "remove", ![c].calm = TRUE]
         \/ fail(c)
  /\ UNCHANGED <<world, catalog, lock, mem, screen, told, reviews, troubles>>

\* deleteManagedDirectoryWithLease: the whole tree, or a part of it.
remove(c) ==
  /\ at(c, "remove")
  /\ \/ /\ dirs' = dirs \ {target(c)} /\ configs' = configs \ {target(c)} /\ markers' = markers \ {target(c)}
        /\ goto(c, "done")
     \/ /\ configs' \in {configs, configs \ {target(c)}} /\ markers' \in {markers, markers \ {target(c)}}
        /\ UNCHANGED dirs
        /\ fail(c)
  /\ UNCHANGED <<provider, catalog, lock, mem, screen, told, reviews, troubles>>

-----------------------------------------------------------------------------
(* The end: the catalog's update and, in the window, the result's delivery. *)

Ownership(plan) ==
  CASE plan.action = "create" -> "managed"
    [] plan.action = "register" -> "external"
    [] OTHER -> "absent"

Changes(plan) == plan.action \in NewMachine \cup TakesAway

updated(entries, plan) == IF Changes(plan) THEN [entries EXCEPT ![plan.id] = Ownership(plan)] ELSE entries

\* upsert or remove, and save.  A failed save is reported, and the catalog loaded again.
reported(c) == told

commit(c) ==
  \/ /\ catalog = mem[c] /\ catalog' = updated(catalog, planned(c))
     /\ told' = updated(told, planned(c))
  \/ /\ Changes(planned(c))
     /\ told' = reported(c)
     /\ UNCHANGED catalog

released(c) == IF lock = c THEN nobody ELSE lock

\* CatalogTransactionGuard: the process ends and the lock goes with it.
endOfHandle(c) ==
  /\ c # window /\ busy(c) /\ task[c].step \in {"done", "failed"}
  /\ IF task[c].step = "done" THEN commit(c) ELSE UNCHANGED <<catalog, told>>
  /\ mem' = [mem EXCEPT ![c] = NoEntries]
  /\ lock' = released(c)
  /\ task' = [task EXCEPT ![c] = AtRest]
  /\ UNCHANGED <<world, screen, reviews, troubles>>

\* finishAsync, with the refresh it queues.
succeeded == task[window].step = "done"
queuesRefresh == Executing(window) /\ (succeeded \/ task[window].mutated)

snapshotsFor == IF task[window].of.of = selected THEN task[window].of ELSE snapshots

finishAsync ==
  /\ ready /\ busy(window) /\ task[window].step \in {"done", "failed"}
  /\ task' = [task EXCEPT ![window] = IF queuesRefresh THEN Worker("inventory", "list") ELSE AtRest]
  /\ lock' = released(window)
  /\ LET gone == \/ /\ succeeded /\ task[window].kind = "inventory"
                    /\ ~\E m \in task[window].seen : m.id = selected
                 \/ /\ succeeded /\ Executing(window) /\ planned(window).id = selected
                    /\ planned(window).action \in TakesAway
     IN  /\ machines' = IF succeeded /\ task[window].kind = "inventory" THEN task[window].seen ELSE machines
         /\ selected' = IF gone THEN None ELSE selected
         /\ snapshots' = IF gone THEN NoSnapshots
                         ELSE IF succeeded /\ task[window].kind = "snapshots" THEN snapshotsFor ELSE snapshots
  /\ reviewed' = IF Executing(window) \/ (succeeded /\ task[window].kind = "inventory") THEN NoPlan ELSE reviewed
  /\ IF Executing(window) /\ succeeded
     THEN commit(window) /\ mem' = [mem EXCEPT ![window] = catalog']
     ELSE UNCHANGED <<catalog, mem, told>>
  /\ pendingBoot' = IF Executing(window) /\ planned(window).action = "create" /\ catalog'[target(window)] # "managed"
                    THEN None ELSE pendingBoot
  /\ UNCHANGED <<world, shown, reviews, troubles>>

\* The destructor has joined the worker; the result it posted is never received.
destroyed ==
  /\ task[window].closing /\ task[window].step \in {"done", "failed"}
  /\ lock' = released(window)
  /\ task' = [task EXCEPT ![window] = AtRest]
  /\ load
  /\ UNCHANGED <<world, catalog, told, reviews, troubles>>

\* A client is killed; a new window loads the catalog.
crash(c) ==
  /\ busy(c) /\ troubled
  /\ lock' = released(c)
  /\ task' = [task EXCEPT ![c] = AtRest]
  /\ IF c = window THEN load ELSE mem' = [mem EXCEPT ![c] = NoEntries] /\ UNCHANGED screen
  /\ UNCHANGED <<world, catalog, told, reviews>>

-----------------------------------------------------------------------------
(* The user, in the provider's own program. *)

Usable(v) == v \in configs /\ (v \in VirtualBox => v \in known)

\* A machine is started, stopped, suspended or paused; its slot is filled or emptied; a
\* snapshot is taken or dropped; it is registered or unregistered; a disk of it is borrowed.
usesMachine(v) ==
  \/ /\ Usable(v)
     /\ \E state \in PowerStates \ {power[v]} : power' = [power EXCEPT ![v] = state]
     /\ UNCHANGED <<known, media, config, snaps, borrowed>>
  \/ /\ Usable(v) /\ power[v] = "off"
     /\ media' = IF v \in media THEN media \ {v} ELSE media \cup {v}
     /\ config' = [config EXCEPT ![v] = @ + 1]
     /\ UNCHANGED <<known, power, snaps, borrowed>>
  \/ /\ Usable(v)
     /\ \E n \in {snaps[v] + 1, snaps[v] - 1} \cap Nat : snaps' = [snaps EXCEPT ![v] = n]
     /\ UNCHANGED <<known, power, media, config, borrowed>>
  \/ /\ v \in VirtualBox /\ v \in configs /\ power[v] \notin Active
     /\ known' = IF v \in known THEN known \ {v} ELSE known \cup {v}
     /\ UNCHANGED <<power, media, config, snaps, borrowed>>
  \/ /\ v \in VirtualBox /\ v \in dirs
     /\ borrowed' = borrowed \cup {v}
     /\ UNCHANGED <<known, power, media, config, snaps>>

\* A worker on the machine is calm no more; nor one on any of VMware's, which share a list.
Concerns(v, plan) == plan.id = v \/ {v, plan.id} \cap VirtualBox = {}

outside(v) ==
  /\ troubled
  /\ usesMachine(v)
  /\ task' = [c \in Clients |->
                IF busy(c) /\ Concerns(v, task[c].plan) THEN [task[c] EXCEPT !.calm = FALSE] ELSE task[c]]
  /\ UNCHANGED <<files, catalog, lock, mem, screen, told, reviews>>

Init ==
  /\ dirs = {theirs} /\ configs = {theirs} /\ markers = {}
  /\ known = {theirs} /\ power = [v \in Vms |-> "off"] /\ media = {theirs} /\ borrowed = {}
  /\ config = [v \in Vms |-> 0] /\ snaps = [v \in Vms |-> IF v = theirs THEN 1 ELSE 0]
  /\ catalog = NoEntries
  /\ lock = nobody
  /\ mem = [c \in Clients |-> catalog]
  /\ machines = {} /\ selected = None /\ snapshots = NoSnapshots
  /\ reviewed = NoPlan /\ shown = NoPlan /\ pendingBoot = None
  /\ task = [c \in Clients |-> AtRest]
  /\ told = catalog
  /\ reviews = 0 /\ troubles = 0

\* The window's slots, with the reviews each can ask for.
createVm == \E v \in Vms : \E boot \in {None, v} : reviewNew("create", v, boot)
runVmAction ==
  \/ \E v \in Vms : reviewNew("register", v, None)
  \/ \E action \in Actions \cap (DOMAIN virtualBoxLifecycle \cup TakesAway) : review(action)
updateVmConfiguration == review("modify")
vmDeviceAction == \E action \in Actions \cap DOMAIN machineReadyForEdit : review(action)
vmSnapshotAction == \E action \in Actions \cap DOMAIN virtualBoxSnapshots : review(action)

Window ==
  \/ \E v \in Vms : selectMachine(v)
  \/ clearSelection \/ refresh \/ refreshSnapshots \/ reviewRefused \/ discardPendingVmPreview
  \/ createVm \/ runVmAction \/ updateVmConfiguration \/ tryPendingVmBoot \/ vmDeviceAction \/ vmSnapshotAction
  \/ executeReviewed \/ cancel \/ recreateVmLab \/ finishAsync \/ destroyed

Handle(c) ==
  \E v \in Vms : \/ handleForget(c, v)
                 \/ \E action \in NewMachine : handleNew(c, action, v)
                 \/ \E action \in Actions : handle(c, action, v)

Step(c) ==
  \/ list(c) \/ fresh(c) \/ validate(c) \/ preflight(c) \/ command(c) \/ configure(c)
  \/ write(c) \/ second(c) \/ remove(c) \/ endOfHandle(c) \/ crash(c)

Next ==
  \/ Window
  \/ \E c \in Clients : Step(c) \/ Handle(c)
  \/ \E v \in Vms : outside(v)

Spec == Init /\ [][Next]_vars

\* What the future depends on, for TLC's VIEW: a preview that is not the reviewed plan
\* can only be dismissed, plans are numbered only to tell these two apart, of a file's
\* version it matters whether a plan still has it, of a plan's evidence whether it is still
\* to be compared, of calm whether it is still to be relied on, and once the last review is
\* made it matters only which machines a listing has.
view ==
  LET compared(plan) ==
        IF plan = NoPlan THEN plan
        ELSE [plan EXCEPT !.n = 0, !.file = [current |-> config[plan.id] = @.version, filled |-> @.filled]]
      needed(ms) == IF reviews < MaxReviews THEN ms ELSE {[id |-> m.id, fresh |-> m.fresh] : m \in ms}
      worker(t) ==
        [kind |-> t.kind, step |-> t.step, of |-> t.of, cancel |-> t.cancel, mutated |-> t.mutated, closing |-> t.closing,
         plan |-> IF t.step \in {"fresh", "validate", "preflight", "command"} THEN compared(t.plan)
                  ELSE IF t.plan = NoPlan THEN NoPlan
                  ELSE [action |-> t.plan.action, id |-> t.plan.id, revision |-> t.plan.revision],
         calm |-> t.calm \/ t.step \notin {"command", "remove"},
         seen |-> IF t.kind = "inventory" THEN needed(t.seen) ELSE t.seen]
  IN  <<files, known, power, media, snaps, borrowed, catalog, lock, mem, needed(machines),
        selected, snapshots, pendingBoot, told, reviews, troubles,
        IF shown = reviewed THEN compared(shown) ELSE NoPlan,
        [c \in Clients |-> worker(task[c])]>>

\* For TLC's CONSTRAINT: when the last review has been executed or dismissed, all that is left
\* to do is to list and to select, which the states before it have as well.
Working == reviews < MaxReviews \/ reviewed # NoPlan \/ \E c \in Clients : Executing(c)

-----------------------------------------------------------------------------
\* A directory goes away only for a machine the catalog calls managed, with its marker,
\* never the user's own; and unless something changed after the second inventory,
\* VirtualBox no longer has the machine and nobody else uses a disk in it.
DeletesOnlyItsOwn ==
  [][\A v \in dirs \ dirs' :
       /\ v # theirs /\ v \in markers /\ catalog[v] = "managed"
       /\ \E c \in Clients :
            /\ task[c].step = "remove" /\ target(c) = v
            /\ task[c].calm => v \notin known /\ v \notin borrowed]_vars

\* The catalog an execution was reviewed against stays as it is until the execution's own
\* update: no other process slips an operation in between.
CatalogHeldThroughExecution ==
  \A c \in Clients : Executing(c) => catalog = planned(c).revision

\* What the last successful report said about a machine is what the catalog says.
ReportsAreRecorded == \A v \in Vms : told[v] = catalog[v]

\* A command that changes a machine, or the edit of VMware's file for it, finds the provider
\* telling what it told before the review and, to restore or drop a snapshot, the snapshots
\* that were shown, unless somebody used the machine after the preflight.  What is compared
\* is a value, so a change undone meanwhile is not noticed, nor in VMware that a machine was
\* paused or suspended, or edited between the inventory and the review: its evidence is which
\* machines run, and its file as the review found it.
Runs(c) == task[c].step = "command" /\ task'[c].mutated /\ ~task[c].mutated

ReviewedStateIsRun ==
  [][\A c \in Clients :
       Runs(c) /\ task[c].calm /\ planned(c).action \notin NewMachine =>
         AsToldBefore(planned(c))]_vars

\* The snapshots on display belong to the selected machine, although a listing may end
\* after the selection was cleared.
SnapshotsOfSelection == snapshots.of \in {None, selected}

\* The catalog is what executions were reviewed against and what reports said, and the
\* window shows nothing of a machine that is not the selected one.
CatalogIsHonest == CatalogHeldThroughExecution /\ ReportsAreRecorded /\ SnapshotsOfSelection
=============================================================================
