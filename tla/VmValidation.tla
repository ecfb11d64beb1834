---------------------------- MODULE VmValidation ----------------------------
(***************************************************************************)
(* The validation history of the virtual machine lab: runs with their      *)
(* milestones, evidence and final result in one JSON file with a backup    *)
(* beside it, changed by the window and by command-line processes.  A      *)
(* change reads the run without a lock, takes the lock, reads the store    *)
(* again, checks the revisions and the rules, writes the backup and then   *)
(* the primary, and puts the backup back when the primary cannot be        *)
(* written.  Processes die in between, and the primary may be damaged or   *)
(* taken away; recovery restores it from the backup.                       *)
(***************************************************************************)
EXTENDS Naturals, Sequences, FiniteSets

CONSTANTS
  Clients,       \* the processes that use the store
  window,        \* the one of them that is the desktop window
  Required,      \* the milestones the profile requires
  MaxRuns,       \* the store's limit
  MaxOps,        \* bound: changes begun
  MaxFaults      \* bound: crashes, damage and failed rollbacks

VARIABLES
  primary, backup,   \* the two files
  lock,              \* owner of the lock file, or nobody
  configured,        \* the virtual machine's configuration file exists
  task,              \* each client's change: its next step and what it holds
  told,              \* history: the runs as successful changes returned them
  finals,            \* history: the runs that were finished, with what the finisher had read
  ops, faults

disk == <<primary, backup, lock, configured>>
vars == <<disk, task, told, finals, ops, faults>>

nobody == "nobody"

File(kind, runs) == [kind |-> kind, runs |-> runs]
Missing == File("missing", <<>>)
Damaged == File("damaged", <<>>)

\* The status of a run, its revision, and what passing asks of it: the milestones reached,
\* whether one failed, and whether there is a hashed evidence file.
NewRun(n) == [n |-> n, rev |-> 1, status |-> "running", reached |-> {}, failed |-> FALSE, evidence |-> FALSE]
NoRun == NewRun(0)

completed(run) == run.status # "running"
passGateProblems(run) == Required \ run.reached # {} \/ run.failed \/ ~run.evidence

-----------------------------------------------------------------------------
\* Reading.  A file of version 1 is migrated, which hashes the configuration file as it
\* is now; anything that breaks a rule makes the whole file unreadable.
validateRun(run) == run.status = "passed" => ~passGateProblems(run)

parseSnapshot(file) ==
  /\ file.kind = "current" \/ (file.kind = "legacy" /\ configured)
  /\ \A i \in DOMAIN file.runs : file.runs[i].n = i /\ validateRun(file.runs[i])

\* A primary that is missing is an empty store only when there is no backup.
Loads(file) == IF file.kind = "missing" THEN backup.kind = "missing" ELSE parseSnapshot(file)

\* find, of the run a change is about; unlocked.
find(n) == IF Loads(primary) /\ n \in DOMAIN primary.runs THEN primary.runs[n] ELSE NoRun

-----------------------------------------------------------------------------
Change(kind, n, what) == [kind |-> kind, n |-> n, what |-> what]
Idle == [step |-> "idle", change |-> Change("none", 0, "none"), seen |-> NoRun, candidate |-> NoRun,
         runs |-> <<>>, prior |-> Missing]
goto(c, step) == task' = [task EXCEPT ![c].step = step]
released(c) == IF lock = c THEN nobody ELSE lock

Statuses == {"passed", "failed", "cancelled"}
Changes ==
  {Change("start", 0, "none"), Change("recover", 0, "none")}
    \cup {Change("update", n, what) : n \in 1 .. MaxRuns, what \in Required \cup {"failure", "evidence"}}
    \cup {Change("finish", n, what) : n \in 1 .. MaxRuns, what \in Statuses}

\* A slot of the window or a command of the command line: the run is read and shown.
\* The window looks at the gate of a pass before it asks the store.
begin(c, change) ==
  /\ task[c].step = "idle" /\ ops < MaxOps
  /\ change.kind \in {"update", "finish"} => find(change.n) # NoRun
  /\ c = window /\ change.what = "passed" => ~passGateProblems(find(change.n))
  /\ task' = [task EXCEPT ![c] = [Idle EXCEPT !.step = "lock", !.change = change, !.seen = find(change.n)]]
  /\ ops' = ops + 1
  /\ UNCHANGED <<disk, told, finals, faults>>

\* The candidate of appendRun, updateRun and completeRun.
appendRun(runs) == NewRun(Len(runs) + 1)

updateRun(run, what) ==
  [run EXCEPT !.rev = @ + 1,
              !.reached = @ \cup (Required \cap {what}),
              !.failed = @ \/ what = "failure",
              !.evidence = @ \/ what = "evidence"]

completeRun(run, status) == [run EXCEPT !.rev = @ + 1, !.status = status]

Candidate(change, runs) ==
  CASE change.kind = "start" -> appendRun(runs)
    [] change.kind = "update" -> updateRun(runs[change.n], change.what)
    [] change.kind = "finish" -> completeRun(runs[change.n], change.what)

\* What the store asks of a change under its lock: the revision the caller has read, a run
\* that is not finished, and the gate of a pass.
mutantAnyRevision(change, seen, runs) ==
  IF change.kind = "start"
  THEN Len(runs) < MaxRuns
  ELSE change.n \in DOMAIN runs /\ ~completed(runs[change.n])
Allowed(change, seen, runs) ==
  IF change.kind = "start"
  THEN Len(runs) < MaxRuns
  ELSE /\ change.n \in DOMAIN runs
       /\ runs[change.n].rev = seen.rev /\ ~completed(runs[change.n])
       /\ change.what = "passed" => ~passGateProblems(runs[change.n])

mutantIgnoresLock == TRUE
mayLock == lock = nobody

\* prepareMutation and the checks; a refusal gives the lock back.
prepareMutation(c) ==
  /\ task[c].step = "lock" /\ task[c].change.kind # "recover"
  /\ mayLock
  /\ LET change == task[c].change
     IN  IF Loads(primary) /\ Allowed(change, task[c].seen, primary.runs)
         THEN LET run == Candidate(change, primary.runs)
              IN  /\ lock' = c
                  /\ task' = [task EXCEPT ![c].step = "backup", ![c].candidate = run, ![c].prior = backup,
                       ![c].runs = IF change.kind = "start" THEN Append(primary.runs, run)
                                   ELSE [primary.runs EXCEPT ![run.n] = run]]
         ELSE UNCHANGED lock /\ task' = [task EXCEPT ![c] = Idle]
  /\ UNCHANGED <<primary, backup, configured, told, finals, ops, faults>>

\* The lock was not free for ten seconds.
refused(c) ==
  /\ task[c].step = "lock"
  /\ lock # nobody
  /\ task' = [task EXCEPT ![c] = Idle]
  /\ UNCHANGED <<disk, told, finals, ops, faults>>

\* writeSnapshot: the backup, the primary, and the backup put back.
writeBackup(c) ==
  /\ task[c].step = "backup"
  /\ \/ backup' = File("current", task[c].runs) /\ goto(c, "primary") /\ UNCHANGED lock
     \/ lock' = released(c) /\ task' = [task EXCEPT ![c] = Idle] /\ UNCHANGED backup
  /\ UNCHANGED <<primary, configured, told, finals, ops, faults>>

writePrimary(c) ==
  /\ task[c].step = "primary"
  /\ \/ /\ primary' = File("current", task[c].runs)
        /\ lock' = released(c) /\ task' = [task EXCEPT ![c] = Idle]
        /\ told' = {run \in told : run.n # task[c].candidate.n} \cup {task[c].candidate}
        /\ finals' = IF completed(task[c].candidate)
                     THEN finals \cup {[seen |-> task[c].seen, run |-> task[c].candidate]} ELSE finals
     \/ goto(c, "rollback") /\ UNCHANGED <<primary, lock, told, finals>>
  /\ UNCHANGED <<backup, configured, ops, faults>>

restored(c) == task[c].prior

rollback(c) ==
  /\ task[c].step = "rollback"
  /\ \/ backup' = restored(c) /\ UNCHANGED faults
     \/ faults < MaxFaults /\ faults' = faults + 1 /\ UNCHANGED backup
  /\ lock' = released(c) /\ task' = [task EXCEPT ![c] = Idle]
  /\ UNCHANGED <<primary, configured, told, finals, ops>>

\* recoverFromBackup: only for a primary that does not parse; the damaged file is archived
\* and the backup's bytes take its place.
recoverFromBackup(c) ==
  /\ task[c].step = "lock" /\ task[c].change.kind = "recover"
  /\ mayLock
  /\ IF ~parseSnapshot(primary) /\ parseSnapshot(backup)
     THEN lock' = c /\ goto(c, "restore")
     ELSE UNCHANGED lock /\ task' = [task EXCEPT ![c] = Idle]
  /\ UNCHANGED <<primary, backup, configured, told, finals, ops, faults>>

restore(c) ==
  /\ task[c].step = "restore"
  /\ primary' \in {backup, primary}                   \* the archive or the write may fail
  /\ lock' = released(c) /\ task' = [task EXCEPT ![c] = Idle]
  /\ UNCHANGED <<backup, configured, told, finals, ops, faults>>

-----------------------------------------------------------------------------
fault == faults < MaxFaults /\ faults' = faults + 1

\* A process is killed.
crash(c) ==
  /\ task[c].step # "idle" /\ fault
  /\ lock' = released(c) /\ task' = [task EXCEPT ![c] = Idle]
  /\ UNCHANGED <<primary, backup, configured, told, finals, ops>>

\* The primary is damaged or deleted, or the configuration file comes or goes.
damage ==
  /\ fault
  /\ \/ primary.kind # "missing" /\ primary' \in {Missing, Damaged} /\ UNCHANGED configured
     \/ configured' = ~configured /\ UNCHANGED primary
  /\ UNCHANGED <<backup, lock, task, told, finals, ops>>

Init ==
  /\ primary \in {Missing, File("legacy", <<NewRun(1)>>)}
  /\ backup = Missing
  /\ lock = nobody
  /\ configured = TRUE
  /\ task = [c \in Clients |-> Idle]
  /\ told = {} /\ finals = {}
  /\ ops = 0 /\ faults = 0

Step(c) ==
  \/ \E change \in Changes : begin(c, change)
  \/ prepareMutation(c) \/ refused(c) \/ writeBackup(c) \/ writePrimary(c) \/ rollback(c)
  \/ recoverFromBackup(c) \/ restore(c) \/ crash(c)

Next == damage \/ \E c \in Clients : Step(c)

Spec == Init /\ [][Next]_vars

-----------------------------------------------------------------------------
Holds(file, run) ==
  \E i \in DOMAIN file.runs :
    LET r == file.runs[i]
    IN  r.n = run.n /\ r.rev >= run.rev /\ run.reached \subseteq r.reached /\ (completed(run) => r = run)

\* What a change reported as saved is in the backup, and in the primary if that is
\* readable, whatever crashes, failed writes and recoveries follow: a finished run as it
\* was finished, a running one with all its milestones.
SavedRunsSurvive ==
  \A run \in told :
    /\ Holds(backup, run)
    /\ primary.kind \notin {"missing", "damaged"} => Holds(primary, run)

\* The run that was finished is the one its finisher had read, milestone for milestone:
\* no revision number is given to two different states of a run, not even by a recovery.
FinalizedAsReviewed ==
  \A f \in finals : f.run = completeRun(f.seen, f.run.status)

\* A validation reported as saved survives, and what was finished is what its finisher
\* had read.
ValidationsSurvive == SavedRunsSurvive /\ FinalizedAsReviewed
=============================================================================
