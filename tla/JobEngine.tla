------------------------------ MODULE JobEngine ------------------------------
(***************************************************************************)
(* The servicing job engine: it runs the operations of a plan as child     *)
(* processes, orders them by their dependencies, keeps image writers       *)
(* apart, and journals every transition for recovery after a crash.        *)
(*                                                                         *)
(* The engine lives on one thread.  Its slots (a timer's schedule, a       *)
(* child's finished signal, the kill timer, start and cancel) run one at a *)
(* time, but each consists of several journal writes and process starts,   *)
(* and between any two of these the program can die and a child can exit.  *)
(* pc names the point the running slot has reached; pc = "loop" is the     *)
(* event loop, where the next slot is chosen.                              *)
(***************************************************************************)
EXTENDS OperationGraph, FiniteSets

CONSTANTS
  Plans,           \* the plans start may be called with
  Requests,        \* the values of maximumParallel it may be called with
  MaxRuns,         \* bound: runs started in a behaviour
  JournalFaults    \* may writing the journal file fail?

Plan == [deps : [Op -> SUBSET Op], writes : SUBSET Op, parallel : SUBSET Op,
         skipped : SUBSET Op, allowed : BOOLEAN]

ASSUME PlansAssumption   == Plans \subseteq Plan
ASSUME RequestAssumption == Requests \subseteq Int
ASSUME MaxRunsAssumption == MaxRuns \in Nat
ASSUME FaultsAssumption  == JournalFaults \in BOOLEAN

VARIABLES
  \* the engine's memory, lost when the program dies
  plan,           \* the operations' immutable fields
  state,          \* their OperationState
  active,         \* m_active: the operations with a QProcess
  running,        \* m_running
  cancelling,     \* m_cancelling
  maximumParallel,\* m_maximumParallel
  runId,          \* m_runId; fresh for each run, so counted over all of them
  ticks,          \* singleShot(0) timers that will call schedule
  killTimers,     \* operations whose 8 s kill timer is armed
  pc,             \* where the running slot is
  launching,      \* the operation launch is starting, or 0
  changed,        \* schedule's local of that name
  result,         \* the message of finishRun
  \* the outside
  child,          \* the operating system's process of each operation
  journal,        \* the contents of job-journal.json
  journalStale    \* did the last write of the operations to it fail?

engineVars == <<plan, state, active, running, cancelling, maximumParallel, ticks,
                killTimers, pc, launching, changed, result>>
vars == <<engineVars, runId, child, journal, journalStale>>

JournalStatus == {"none", "running", "cancelling", "finished", "succeeded", "failed",
                  "cancelled"}
Journal == [run : Nat, status : JournalStatus, states : [Op -> OperationState]]

NoJournal == [run |-> 0, status |-> "none", states |-> [i \in Op |-> "queued"]]
NoPlan == [deps |-> [i \in Op |-> {}], writes |-> {}, parallel |-> {},
           skipped |-> Op, allowed |-> FALSE]

Exited == {"exited0", "exited1"}

qBound(low, value, high) ==
  IF value < low THEN low ELSE IF value > high THEN high ELSE value

-----------------------------------------------------------------------------
\* QSaveFile replaces the journal as a whole or leaves it as it was.
writeJournal(run, status, states) ==
  \/ /\ journal' = [run |-> run, status |-> status, states |-> states]
     /\ journalStale' = FALSE
  \/ JournalFaults /\ journalStale' = TRUE /\ UNCHANGED journal

mutantClosedByCancel(cancel) == IF cancel THEN "cancelled" ELSE "running"

liveStatus(cancel) == IF cancel THEN "cancelling" ELSE "running"

hasInterruptedRun == journal.status \in {"running", "cancelling"}

Init ==
  /\ plan = NoPlan
  /\ state = [i \in Op |-> "skipped"]   \* m_operations is empty
  /\ active = {}
  /\ running = FALSE
  /\ cancelling = FALSE
  /\ maximumParallel = 1
  /\ ticks = 0
  /\ killTimers = {}
  /\ pc = "loop"
  /\ launching = 0
  /\ changed = FALSE
  /\ result = "none"
  /\ runId = 0
  /\ child = [i \in Op |-> "none"]
  /\ journal = NoJournal
  /\ journalStale = FALSE

-----------------------------------------------------------------------------
\* start(): rejects a run in progress, a plan that may not run and a cyclic
\* one; a journal that cannot be written takes the run back.
start(p, n) ==
  /\ pc = "loop" /\ ~running /\ runId < MaxRuns
  /\ p.allowed
  /\ Acyclic(p.deps)
  /\ plan' = p
  /\ state' = [i \in Op |-> IF i \in p.skipped THEN "skipped" ELSE "queued"]
  /\ active' = {}
  /\ maximumParallel' = qBound(1, n, 16)
  /\ cancelling' = FALSE
  /\ runId' = runId + 1
  /\ result' = "none"
  /\ writeJournal(runId + 1, "running", state')
  /\ running' = ~journalStale'
  /\ ticks' = IF running' THEN ticks + 1 ELSE ticks
  /\ UNCHANGED <<killTimers, pc, launching, changed, child>>

\* schedule() returns at once when no run is in progress.
scheduleIdle ==
  /\ pc = "loop" /\ ticks > 0 /\ ~running
  /\ ticks' = ticks - 1
  /\ UNCHANGED <<plan, state, active, running, cancelling, maximumParallel, killTimers,
                 pc, launching, changed, result, runId, child, journal, journalStale>>

scheduleBegin ==
  /\ pc = "loop" /\ ticks > 0 /\ running
  /\ ticks' = ticks - 1
  /\ changed' = FALSE
  /\ pc' = "block"
  /\ UNCHANGED <<plan, state, active, running, cancelling, maximumParallel, killTimers,
                 launching, result, runId, child, journal, journalStale>>

\* The lowest index in S: every loop over the operations takes this one.
First(i, S) == i \in S /\ \A j \in S : i <= j

blockable == {i \in Op : /\ state[i] = "queued"
                         /\ dependenciesDone(plan.deps, state, i)
                         /\ dependencyFailed(plan.deps, state, i)}

\* The do-while loop blocks consumers of failed operations until none is left.
blockOne(i) ==
  /\ pc = "block" /\ First(i, blockable)
  /\ state' = [state EXCEPT ![i] = "blocked"]
  /\ changed' = TRUE
  /\ UNCHANGED <<plan, active, running, cancelling, maximumParallel, ticks, killTimers,
                 pc, launching, result, runId, child, journal, journalStale>>

blockDone ==
  /\ pc = "block" /\ blockable = {}
  /\ pc' = "pick"
  /\ UNCHANGED <<plan, state, active, running, cancelling, maximumParallel, ticks,
                 killTimers, launching, changed, result, runId, child, journal,
                 journalStale>>

ready == {i \in Op : /\ state[i] = "queued"
                     /\ dependenciesDone(plan.deps, state, i)
                     /\ ~dependencyFailed(plan.deps, state, i)}

mutantWritersOverlap == {i \in ready : i \in plan.parallel \/ active = {}}
mutantSharesTheEngine ==
  {i \in ready : i \in plan.writes => active \cap plan.writes = {}}

candidates == {i \in ready : /\ i \in plan.writes => active \cap plan.writes = {}
                             /\ i \in plan.parallel \/ active = {}}

mayLaunch == ~cancelling /\ Cardinality(active) < maximumParallel /\ candidates # {}

\* launch() up to its journal write: the process object exists, nothing runs yet.
launch(i) ==
  /\ pc = "pick" /\ mayLaunch /\ First(i, candidates)
  /\ launching' = i
  /\ state' = [state EXCEPT ![i] = "running"]
  /\ active' = active \cup {i}
  /\ changed' = TRUE
  /\ pc' = "spawn"
  /\ writeJournal(runId, "running", state')
  /\ UNCHANGED <<plan, running, cancelling, maximumParallel, ticks, killTimers, result,
                 runId, child>>

\* process->start() succeeds.
spawn ==
  /\ pc = "spawn"
  /\ child' = [child EXCEPT ![launching] = "alive"]
  /\ launching' = 0
  /\ pc' = "pick"
  /\ UNCHANGED <<plan, state, active, running, cancelling, maximumParallel, ticks,
                 killTimers, changed, result, runId, journal, journalStale>>

\* finishOperation(): the state is decided by m_cancelling before the exit code.
finishOperation(i, success) ==
  /\ state[i] \notin terminal
  /\ state' = [state EXCEPT ![i] = IF cancelling THEN "cancelled"
                                   ELSE IF success THEN "done" ELSE "failed"]
  /\ active' = active \ {i}
  /\ killTimers' = killTimers \ {i}     \* the timer's guarded pointer is null
  /\ ticks' = ticks + 1
  /\ writeJournal(runId, liveStatus(cancelling), state')

\* process->start() reports FailedToStart from inside the call.
spawnFails ==
  /\ pc = "spawn"
  /\ finishOperation(launching, FALSE)
  /\ launching' = 0
  /\ pc' = "pick"
  /\ UNCHANGED <<plan, running, cancelling, maximumParallel, changed, result, runId,
                 child>>

\* schedule() after its launch loop: the journal write of "changed".
scheduleFlush ==
  /\ pc = "pick" /\ ~mayLaunch
  /\ pc' = "settle"
  /\ IF changed THEN writeJournal(runId, liveStatus(cancelling), state)
                ELSE UNCHANGED <<journal, journalStale>>
  /\ UNCHANGED <<plan, state, active, running, cancelling, maximumParallel, ticks,
                 killTimers, launching, changed, result, runId, child>>

mutantSkipsUnfinished == active = {} /\ \A i \in Op : state[i] \in terminal \ {"skipped"}
mutantQueueForgotten == active = {}

allOver == active = {} /\ \A i \in Op : state[i] \in terminal

scheduleReturn ==
  /\ pc = "settle" /\ ~allOver
  /\ pc' = "loop"
  /\ UNCHANGED <<plan, state, active, running, cancelling, maximumParallel, ticks,
                 killTimers, launching, changed, result, runId, child, journal,
                 journalStale>>

\* finishRun() up to the first of its two journal writes.
finishRun(message) ==
  /\ running' = FALSE
  /\ result' = message
  /\ pc' = "closing"
  /\ writeJournal(runId, "finished", state)
  /\ UNCHANGED <<plan, state, active, cancelling, maximumParallel, ticks, killTimers,
                 launching, changed, runId, child>>

scheduleFinish ==
  /\ pc = "settle" /\ allOver
  /\ finishRun(IF \A i \in Op : state[i] \in {"done", "skipped"} THEN "completed"
               ELSE IF cancelling THEN "cancelled safely" ELSE "failed")

cancelFinish ==
  /\ pc = "cancelled"
  /\ finishRun("cancelled before launch")

mutantOnlyCancelFails == IF cancelling THEN "cancelled" ELSE "succeeded"

finalStatus == IF result = "completed" THEN "succeeded"
               ELSE IF cancelling THEN "cancelled" ELSE "failed"

\* The rest of finishRun(): the file is read back, its status replaced, and the
\* finished signal emitted.
closeJournal ==
  /\ pc = "closing"
  /\ pc' = "loop"
  /\ \/ journal' = [journal EXCEPT !.status = finalStatus]
     \/ JournalFaults /\ UNCHANGED journal
  /\ UNCHANGED <<plan, state, active, running, cancelling, maximumParallel, ticks,
                 killTimers, launching, changed, result, runId, child, journalStale>>

-----------------------------------------------------------------------------
mutantQueueKept == state
mutantHistoryRewritten == [i \in Op |-> IF i \in active THEN state[i] ELSE "cancelled"]

cancelQueued == [i \in Op |-> IF state[i] = "queued" THEN "cancelled" ELSE state[i]]

cancel ==
  /\ pc = "loop" /\ running /\ ~cancelling
  /\ cancelling' = TRUE
  /\ state' = cancelQueued
  /\ killTimers' = active          \* terminate() is sent, kill() follows
  /\ writeJournal(runId, "cancelling", state')
  /\ pc' = IF active = {} THEN "cancelled" ELSE "loop"
  /\ UNCHANGED <<plan, active, running, maximumParallel, ticks, launching, changed,
                 result, runId, child>>

killTimer(i) ==
  /\ pc = "loop" /\ i \in killTimers
  /\ killTimers' = killTimers \ {i}
  /\ child' = [child EXCEPT ![i] = IF @ = "alive" THEN "exited1" ELSE @]
  /\ UNCHANGED <<plan, state, active, running, cancelling, maximumParallel, ticks, pc,
                 launching, changed, result, runId, journal, journalStale>>

\* A child ends at any time, also while a slot runs or a cancel is under way.
childExit(i, code) ==
  /\ child[i] = "alive"
  /\ child' = [child EXCEPT ![i] = code]
  /\ UNCHANGED <<engineVars, runId, journal, journalStale>>

\* The finished signal of QProcess, delivered by the event loop.
processFinished(i) ==
  /\ pc = "loop" /\ child[i] \in Exited
  /\ finishOperation(i, child[i] = "exited0")
  /\ child' = [child EXCEPT ![i] = "none"]
  /\ UNCHANGED <<plan, running, cancelling, maximumParallel, pc, launching, changed,
                 result, runId>>

-----------------------------------------------------------------------------
\* The program ends and a new one constructs its JobEngine: memory is as in Init,
\* and the processes that may still run belong to nobody.
restart ==
  /\ plan' = NoPlan
  /\ state' = [i \in Op |-> "skipped"]
  /\ active' = {}
  /\ running' = FALSE
  /\ cancelling' = FALSE
  /\ maximumParallel' = 1
  /\ ticks' = 0
  /\ killTimers' = {}
  /\ pc' = "loop"
  /\ launching' = 0
  /\ changed' = FALSE
  /\ result' = "none"
  /\ child' = [i \in Op |-> "none"]
  /\ UNCHANGED runId

\* The program dies at any point.
crash == restart /\ UNCHANGED <<journal, journalStale>>

\* The destructor cancels, kills what is active and forgets it.  With nothing
\* active cancel() also ends the run, by the three writes of cancel and finishRun.
quit ==
  /\ pc = "loop"
  /\ restart
  /\ IF ~running \/ cancelling THEN UNCHANGED <<journal, journalStale>>
     ELSE IF active # {} THEN writeJournal(runId, "cancelling", cancelQueued)
     ELSE \/ writeJournal(runId, "cancelled", cancelQueued)
          \/ /\ JournalFaults
             /\ \/ \E status \in {"cancelling", "finished"} :
                     writeJournal(runId, status, cancelQueued)
                \/ /\ journal' = [journal EXCEPT !.status = "cancelled"]
                   /\ journalStale' = TRUE

Next ==
  \/ \E p \in Plans, n \in Requests : start(p, n)
  \/ scheduleIdle \/ scheduleBegin
  \/ \E i \in Op : blockOne(i) \/ launch(i)
  \/ blockDone \/ spawn \/ spawnFails
  \/ scheduleFlush \/ scheduleReturn \/ scheduleFinish
  \/ cancel \/ cancelFinish \/ closeJournal
  \/ \E i \in Op : killTimer(i) \/ processFinished(i)
  \/ \E i \in Op, code \in Exited : childExit(i, code)
  \/ crash \/ quit

Spec == Init /\ [][Next]_vars

(***************************************************************************)
(* Fairness.  The event loop runs every posted slot and never abandons a   *)
(* slot halfway, and an armed kill timer fires and kills.  Whether a       *)
(* child ends by itself is not the engine's to promise: ChildrenEnd is     *)
(* assumed only by the property that needs it.                             *)
(***************************************************************************)
slotStep ==
  \/ \E i \in Op : blockOne(i) \/ launch(i)
  \/ scheduleBegin \/ blockDone \/ spawn \/ spawnFails
  \/ scheduleFlush \/ scheduleReturn \/ scheduleFinish \/ cancelFinish \/ closeJournal

Fairness ==
  /\ WF_vars(slotStep)
  /\ \A i \in Op : WF_vars(killTimer(i)) /\ WF_vars(processFinished(i))

FairSpec == Spec /\ Fairness

ChildrenEnd == \A i \in Op : WF_vars(\E code \in Exited : childExit(i, code))

-----------------------------------------------------------------------------
Message == {"completed", "failed", "cancelled safely", "cancelled before launch"}

ProgramCounter == {"loop", "block", "pick", "spawn", "settle", "closing", "cancelled"}

TypeOK ==
  /\ plan \in Plans \cup {NoPlan}
  /\ state \in [Op -> OperationState]
  /\ active \in SUBSET Op
  /\ running \in BOOLEAN
  /\ cancelling \in BOOLEAN
  /\ maximumParallel \in 1..16
  /\ runId \in Nat
  /\ ticks \in Nat
  /\ killTimers \in SUBSET Op
  /\ pc \in ProgramCounter
  /\ launching \in 0..NOp
  /\ pc = "spawn" => launching \in Op
  /\ changed \in BOOLEAN
  /\ result \in {"none"} \cup Message
  /\ child \in [Op -> {"none", "alive"} \cup Exited]
  /\ journal \in Journal
  /\ journalStale \in BOOLEAN

(***************************************************************************)
(* Parts of the inductive invariants.                                      *)
(***************************************************************************)

\* The engine's book of active operations is exact at every step.
Ownership ==
  /\ \A i \in Op : state[i] = "running" <=> i \in active
  /\ \A i \in Op : child[i] # "none" => i \in active
  /\ ~running => active = {}
  /\ pc \in {"block", "pick", "spawn", "settle", "cancelled"} => running
  /\ pc = "closing" => ~running
  /\ pc = "spawn" => /\ launching \in active
                     /\ child[launching] = "none"
                     /\ ~cancelling
                     /\ launching \in plan.parallel \/ active = {launching}
  /\ \A i, j \in active \cap plan.writes : i = j

\* After a cancellation nothing waits, and a run cancelled when nothing was
\* active stays so until it is finished.
Cancellation ==
  /\ running /\ cancelling => \A i \in Op : state[i] # "queued"
  /\ pc = "cancelled" => cancelling /\ active = {}

\* While a run is on, the journal on disk is its interrupted journal and shows
\* what is active.
WriteAhead ==
  running /\ ~journalStale =>
    /\ journal.run = runId
    /\ hasInterruptedRun
    /\ \A i \in active : journal.states[i] = "running"

\* What each part of schedule leaves for the next, if no timer is posted.
Wakefulness ==
  /\ running => Acyclic(plan.deps)
  /\ pc \in {"pick", "spawn"} /\ ticks = 0 => blockable = {}
  /\ pc = "settle" /\ ticks = 0 /\ active = {} => \A i \in Op : state[i] \in terminal
  /\ pc = "loop" /\ running /\ ticks = 0 => active # {}

\* An operation runs, or has succeeded, only over prerequisites that all
\* succeeded; skipped ones are replaced by their own prerequisites.  (A consumer
\* of a failed, blocked or cancelled operation never starts, through any chain of
\* skips, crashes and cancellations.)
PrerequisitesFirst ==
  \A i \in Op : state[i] \in {"running", "done"} =>
    \E S \in SUBSET Op : /\ plan.deps[i] \subseteq S
                         /\ SkipClosed(plan.deps, state, S)
                         /\ \A d \in S : state[d] \in {"done", "skipped"}

\* No two processes write the mounted image at once, whatever the plan forgot to
\* order and whatever runs in parallel.
OneImageWriter ==
  \A i, j \in Op :
    i # j /\ child[i] = "alive" /\ child[j] = "alive" => ~({i, j} \subseteq plan.writes)

\* No process outlives its run, none runs unknown to the engine, and there are
\* never more than the requested, bounded number.
ChildrenOwned ==
  /\ \A i \in Op : child[i] # "none" => running /\ i \in active /\ state[i] = "running"
  /\ Cardinality(active) <= maximumParallel

\* Write-ahead: whenever a child process exists, the journal on disk names this
\* run as interrupted and this operation as running, so that a crash at this
\* instant is found and reviewed; unless the last journal write failed.
LiveChildIsJournaled ==
  \A i \in Op : child[i] = "alive" /\ ~journalStale =>
    /\ journal.run = runId
    /\ hasInterruptedRun
    /\ journal.states[i] = "running"

\* A journal closed as succeeded belongs to a run that succeeded: the last run's
\* operations are done or skipped, and no operation is shown failed, blocked or
\* cancelled.  This holds also if writing the operations failed at the end of the
\* run, where finishRun goes on and stamps the status over an older list.  That the
\* list itself is complete can be promised only if that last write did not fail:
\* after a failure it may show operations queued or running under "succeeded".
SucceededJournalIsComplete ==
  journal.status = "succeeded" =>
    /\ journal.run = runId => \A i \in Op : state[i] \in {"done", "skipped"}
    /\ \A i \in Op : journal.states[i] \notin Failing
    /\ ~journalStale => \A i \in Op : journal.states[i] \in {"done", "skipped"}

\* The scheduler never goes to sleep on a run: with no timer posted, a child is
\* there to wake it.  (Any plan that start accepts can be driven to its end.)
SchedulerIsWoken ==
  pc = "loop" /\ running /\ ticks = 0 => active # {}

\* Within a run an operation that is over stays as it is: a late signal of a
\* killed or failed child changes nothing that was already recorded.
TerminalIsFinal ==
  [][runId' = runId /\ plan' = plan =>
       \A i \in Op : state[i] \in terminal => state'[i] = state[i]]_vars

\* A process starts only while nobody cancelled, and one not marked parallel
\* only when nothing else is active.
LaunchIsAllowed ==
  [][\A i \in Op : child[i] = "none" /\ child'[i] = "alive" =>
       /\ ~cancelling
       /\ i \in plan.parallel \/ active = {i}]_vars

\* A run comes to its end if the children do.
RunEnds == ChildrenEnd => (running ~> ~running)

\* A cancelled run comes to its end although no child ever ends by itself.
CancelEnds == cancelling /\ running ~> ~running

(***************************************************************************)
(* The engine implements ServicingRun.  The mapping forgets the schedule,  *)
(* the journal and the processes.                                          *)
(***************************************************************************)
Run == INSTANCE ServicingRun WITH
  Jobs    <- Op,
  phase   <- IF ~running THEN "idle" ELSE IF cancelling THEN "cancelling" ELSE "running",
  pending <- {i \in Op : running /\ state[i] = "queued"},
  working <- {i \in Op : running /\ i \in active},
  spoilt  <- running /\ \E i \in Op : state[i] \in Failing,
  verdict <- IF running \/ result = "none" THEN "none"
             ELSE IF result = "completed" THEN "success" ELSE "stopped"

\* Every behaviour of the engine is one the abstract run allows.
ImplementsRun == Run!Spec

=============================================================================
