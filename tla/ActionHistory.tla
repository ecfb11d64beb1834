---------------------------- MODULE ActionHistory ----------------------------
(***************************************************************************)
(* The undo journal of a project, .wimforge/action-history.jsonl, written  *)
(* by every window and command line that has the project open.             *)
(*                                                                         *)
(* A public mutation first reads the journal and decides what to append,   *)
(* then takes the lock, reads again, appends one event, and commits it to  *)
(* Git before it lets the lock go.  The same processes save project.json   *)
(* and revert its last commit in the same repository, without the lock.    *)
(* Every step below is one file or Git operation; between any two of them  *)
(* other processes run and this one can die.                               *)
(***************************************************************************)
EXTENDS GitHistory, FiniteSets

CONSTANTS
  Window,       \* processes that have the project open
  Lane,         \* names of history lanes
  Main,         \* the lane a history starts in
  NoLane,       \* a draft that leaves the lane to append
  Nobody,       \* holder of a free lock
  MaxCalls,     \* bound: calls that append an event
  MaxSaves,     \* bound: saves of project.json
  MaxReverts,   \* bound: reverts of the latest commit
  MaxFaults,    \* bound: failures of a write or a Git command
  MaxCrashes    \* bound: processes that die inside a call

ASSUME MainAssumption   == Main \in Lane /\ NoLane \notin Lane
ASSUME NobodyAssumption == Nobody \notin Window
ASSUME BoundsAssumption ==
  MaxCalls \in Nat /\ MaxSaves \in Nat /\ MaxReverts \in Nat
    /\ MaxFaults \in Nat /\ MaxCrashes \in Nat

VARIABLES
  lock,          \* holder of action-history.lock
  call,          \* the call each process is in
  acknowledged,  \* events whose call returned true
  lost,          \* events a rollback lost because it had not read them (for the properties)
  lastId,        \* identifiers given out; stands for fresh UUIDs
  calls, saves, reverts, faults, crashes   \* how often each has happened

bounds == <<calls, saves, reverts, faults, crashes>>
vars == <<gitVars, lock, call, acknowledged, lost, lastId, bounds>>

journal == work.journal

Compensation == {"undo", "redo"}
EventType == {"action", "bookmark", "create", "switch"} \union Compensation

Draft == [type : EventType, lane : Lane \union {NoLane}, target : Nat, root : Nat]
NoDraft == [type |-> "action", lane |-> NoLane, target |-> 0, root |-> 0]

Event == [id : Nat, seq : Nat, prev : Nat, type : EventType, lane : Lane,
          target : Nat, root : Nat]

\* pc is the call's next step; loaded is the journal it has read, previous is
\* append's previousBytes, unread tells that it could not read them, and built is
\* the identifier of the event it wrote.
PC == {"idle", "toggle", "append", "load", "write", "stage", "commit", "rollback",
       "stageProject", "commitProject", "revert", "commitRevert"}
Call == [pc : PC, draft : Draft, loaded : Seq(Event), previous : Seq(Event),
         unread : BOOLEAN, built : Nat]
NoCall == [pc |-> "idle", draft |-> NoDraft, loaded |-> <<>>, previous |-> <<>>,
           unread |-> FALSE, built |-> 0]

-----------------------------------------------------------------------------
(* Questions asked of a journal that has been read.                         *)

Ids(s) == {s[i].id : i \in DOMAIN s}

\* loadAll(): numbered without gaps, each event names the hash of the one
\* before it, no identifier twice.  The identifier stands for the hash.
Intact(s) ==
  \A i \in DOMAIN s :
    /\ s[i].seq = i
    /\ s[i].prev = IF i = 1 THEN 0 ELSE s[i - 1].id
    /\ s[i].lane # NoLane
    /\ \A j \in DOMAIN s : s[i].id = s[j].id => i = j

rootIdFor(e) == IF e.type = "action" THEN e.id ELSE e.root

chainFor(s, root) ==
  {i \in DOMAIN s : s[i].type \in Compensation \union {"action"}
                      /\ rootIdFor(s[i]) = root}

isEffective(s, root) == Cardinality(chainFor(s, root)) % 2 = 1

lastOf(I) == CHOOSE i \in I : \A j \in I : j <= i

mutantMainLane(s) == Main

currentBranch(s) == IF s = <<>> THEN Main ELSE s[Len(s)].lane

branchNames(s) == {Main} \union {s[i].lane : i \in DOMAIN s}

nextSequence(s) == Len(s) + 1

\* append() fills in the lane of the newest event when the draft names none.
laneFor(s, lane) == IF lane = NoLane THEN currentBranch(s) ELSE lane

mutantToggleAlways(effective, verb) == TRUE

mayToggle(effective, verb) == effective = (verb = "undo")

\* The event toggle() builds from the journal it read.
compensation(s, root, verb) ==
  [type |-> verb, lane |-> currentBranch(s), target |-> s[lastOf(chainFor(s, root))].id,
   root |-> root]

-----------------------------------------------------------------------------
Init ==
  /\ work = [journal |-> <<>>, project |-> 0]   \* a project just created
  /\ index = work
  /\ commits = <<[tree |-> work, event |-> NoEvent]>>
  /\ lock = Nobody
  /\ call = [w \in Window |-> NoCall]
  /\ acknowledged = {}
  /\ lost = {}
  /\ lastId = 0
  /\ calls = 0 /\ saves = 0 /\ reverts = 0 /\ faults = 0 /\ crashes = 0

idle(w) == call[w].pc = "idle"

goto(w, step) == call' = [call EXCEPT ![w].pc = step]

finish(w) == call' = [call EXCEPT ![w] = NoCall]

fault == faults < MaxFaults /\ faults' = faults + 1 /\ UNCHANGED <<calls, saves, reverts, crashes>>

\* The part of a mutation before append(): it has read the journal, unlocked.
begin(w, event) ==
  /\ idle(w) /\ calls < MaxCalls
  /\ calls' = calls + 1
  /\ call' = [call EXCEPT ![w].pc = "append", ![w].draft = event]
  /\ UNCHANGED <<gitVars, lock, acknowledged, lost, lastId, saves, reverts, faults, crashes>>

\* record(): an explicit lane must exist, the default is left to append.
record(w) ==
  \E lane \in branchNames(journal) \union {NoLane} :
    /\ lane # NoLane => Intact(journal)
    /\ begin(w, [NoDraft EXCEPT !.lane = lane])

\* undoAction() and redoAction() of any event of an action's chain
toggle(w) ==
  /\ Intact(journal)
  /\ \E root \in {rootIdFor(journal[i]) : i \in DOMAIN journal}, verb \in Compensation :
       /\ chainFor(journal, root) # {}
       /\ mayToggle(isEffective(journal, root), verb)
       /\ begin(w, compensation(journal, root, verb))

\* compensateEvent(): only the latest event of a chain; toggle() then reads
\* the journal once more.
compensateEvent(w) ==
  /\ idle(w) /\ calls < MaxCalls /\ Intact(journal)
  /\ \E root \in {rootIdFor(journal[i]) : i \in DOMAIN journal} :
       /\ chainFor(journal, root) # {}
       /\ call' = [call EXCEPT ![w].pc = "toggle", ![w].draft =
                     compensation(journal, root,
                       IF isEffective(journal, root) THEN "undo" ELSE "redo")]
  /\ calls' = calls + 1
  /\ UNCHANGED <<gitVars, lock, acknowledged, lost, lastId, saves, reverts, faults, crashes>>

compensateToggle(w) ==
  /\ call[w].pc = "toggle"
  /\ LET d == call[w].draft
         ok == /\ Intact(journal)
               /\ d.target \in Ids(journal) /\ chainFor(journal, d.root) # {}
               /\ mayToggle(isEffective(journal, d.root), d.type)
     IN  IF ok
         THEN call' = [call EXCEPT ![w].pc = "append",
                                   ![w].draft = compensation(journal, d.root, d.type)]
         ELSE finish(w)
  /\ UNCHANGED <<gitVars, lock, acknowledged, lost, lastId, bounds>>

createBookmark(w) ==
  /\ Intact(journal)
  /\ \E target \in Ids(journal) \union (IF journal = <<>> THEN {0} ELSE {}) :
       begin(w, [type |-> "bookmark", lane |-> currentBranch(journal),
                 target |-> target, root |-> 0])

createBranch(w) ==
  /\ Intact(journal)
  /\ \E name \in Lane \ branchNames(journal) :
       \E target \in Ids(journal) \union (IF journal = <<>> THEN {0} ELSE {}) :
         begin(w, [type |-> "create", lane |-> name, target |-> target, root |-> 0])

switchBranch(w) ==
  /\ Intact(journal)
  /\ \E name \in branchNames(journal) :
       begin(w, [type |-> "switch", lane |-> name, target |-> 0, root |-> 0])

-----------------------------------------------------------------------------
mutantLockShared(w) == TRUE

lockFree(w) == lock = Nobody

takeLock(w) ==
  /\ call[w].pc = "append" /\ lockFree(w)
  /\ lock' = w
  /\ goto(w, "load")
  /\ UNCHANGED <<gitVars, acknowledged, lost, lastId, bounds>>

\* tryLock() gives up after ten seconds; initialize() may fail before it.
refuse(w) ==
  /\ call[w].pc = "append"
  /\ \/ ~lockFree(w) /\ UNCHANGED bounds
     \/ fault
  /\ finish(w)
  /\ UNCHANGED <<gitVars, lock, acknowledged, lost, lastId>>

load(w) ==
  /\ call[w].pc = "load" /\ Intact(journal)
  /\ call' = [call EXCEPT ![w].pc = "write", ![w].loaded = journal]
  /\ UNCHANGED <<gitVars, lock, acknowledged, lost, lastId, bounds>>

\* The journal is refused, or cannot be opened.
loadFails(w) ==
  /\ call[w].pc = "load"
  /\ \/ ~Intact(journal) /\ UNCHANGED bounds
     \/ fault
  /\ finish(w) /\ lock' = Nobody
  /\ UNCHANGED <<gitVars, acknowledged, lost, lastId>>

newEvent(w) ==
  LET s == call[w].loaded
      d == call[w].draft
  IN  [id |-> lastId + 1, seq |-> nextSequence(s),
       prev |-> IF s = <<>> THEN 0 ELSE s[Len(s)].id,
       type |-> d.type, lane |-> laneFor(s, d.lane), target |-> d.target, root |-> d.root]

\* The bytes append() puts back if the commit fails, read once more just before
\* it writes.  If the file cannot be opened then, they stay empty and append()
\* goes on.
previousBytes(unread) == IF unread THEN <<>> ELSE journal

write(w) ==
  /\ call[w].pc = "write"
  /\ work' = [work EXCEPT !.journal = Append(call[w].loaded, newEvent(w))]
  /\ \E unread \in BOOLEAN :
       /\ call' = [call EXCEPT ![w].pc = "stage", ![w].previous = previousBytes(unread),
                               ![w].unread = unread, ![w].built = lastId + 1]
       /\ IF unread THEN fault ELSE UNCHANGED bounds
  /\ lastId' = lastId + 1
  /\ UNCHANGED <<index, commits, lock, acknowledged, lost>>

\* QSaveFile leaves the journal alone when it cannot commit.
writeFails(w) ==
  /\ call[w].pc = "write"
  /\ fault
  /\ finish(w) /\ lock' = Nobody
  /\ UNCHANGED <<gitVars, acknowledged, lost, lastId>>

stageJournal(w) ==
  /\ call[w].pc = "stage"
  /\ stage({"journal"})
  /\ goto(w, "commit")
  /\ UNCHANGED <<lock, acknowledged, lost, lastId, bounds>>

commitJournal(w) ==
  /\ call[w].pc = "commit"
  /\ commitIndex(call[w].built)
  /\ acknowledged' = acknowledged \union {call[w].built}
  /\ finish(w) /\ lock' = Nobody
  /\ UNCHANGED <<lost, lastId, bounds>>

\* Git fails, or is killed after thirty seconds with its commit already made.
gitFails(w) ==
  /\ call[w].pc \in {"stage", "commit"}
  /\ fault
  /\ \/ UNCHANGED gitVars
     \/ call[w].pc = "commit" /\ commitIndex(call[w].built)
  /\ goto(w, "rollback")
  /\ UNCHANGED <<lock, acknowledged, lost, lastId>>

\* The bytes read before go back, none if they could not be read; nobody looks
\* whether that worked.
rollback(w) ==
  /\ call[w].pc = "rollback"
  /\ \/ /\ work' = [work EXCEPT !.journal = call[w].previous]
        /\ lost' = IF call[w].unread THEN lost \union Ids(call[w].loaded) ELSE lost
        /\ UNCHANGED bounds
     \/ UNCHANGED <<work, lost>> /\ fault
  /\ finish(w) /\ lock' = Nobody
  /\ UNCHANGED <<index, commits, acknowledged, lastId>>

-----------------------------------------------------------------------------
\* ProjectConfig::save(): project.json is written, staged and committed.
saveProject(w) ==
  /\ idle(w) /\ saves < MaxSaves
  /\ saves' = saves + 1
  /\ work' = [work EXCEPT !.project = saves + 1]
  /\ goto(w, "stageProject")
  /\ UNCHANGED <<index, commits, lock, acknowledged, lost, lastId, calls, reverts, faults, crashes>>

stageProject(w) ==
  /\ call[w].pc = "stageProject"
  /\ stage({"project"})
  /\ goto(w, "commitProject")
  /\ UNCHANGED <<lock, acknowledged, lost, lastId, bounds>>

commitProject(w) ==
  /\ call[w].pc = "commitProject"
  /\ commitIndex(NoEvent)
  /\ finish(w)
  /\ UNCHANGED <<lock, acknowledged, lost, lastId, bounds>>

\* save() reports the failure and leaves what it wrote and staged.
saveFails(w) ==
  /\ call[w].pc \in {"stageProject", "commitProject"}
  /\ fault
  /\ finish(w)
  /\ UNCHANGED <<gitVars, lock, acknowledged, lost, lastId>>

\* revertLatest(), which "history undo" and "history redo" call: the checks,
\* then the revert, then its commit.
revertLatest(w) ==
  /\ idle(w) /\ reverts < MaxReverts
  /\ revertable({"project"})
  /\ reverts' = reverts + 1
  /\ goto(w, "revert")
  /\ UNCHANGED <<gitVars, lock, acknowledged, lost, lastId, calls, saves, faults, crashes>>

revertApply(w) ==
  /\ call[w].pc = "revert"
  /\ revertNoCommit
  /\ goto(w, "commitRevert")
  /\ UNCHANGED <<lock, acknowledged, lost, lastId, bounds>>

\* Git refuses at once, or stops at a conflict and is told to abort.
revertRefused(w) ==
  /\ call[w].pc = "revert"
  /\ ~revertApplies
  /\ UNCHANGED gitVars \/ revertAbort
  /\ finish(w)
  /\ UNCHANGED <<lock, acknowledged, lost, lastId, bounds>>

commitRevert(w) ==
  /\ call[w].pc = "commitRevert"
  /\ \/ commitIndex(NoEvent) /\ UNCHANGED bounds
     \/ revertAbort /\ fault
  /\ finish(w)
  /\ UNCHANGED <<lock, acknowledged, lost, lastId>>

\* The process dies inside a call.  QLockFile recognises the lock of a process
\* that is gone, so the next tryLock() gets it.
crash(w) ==
  /\ ~idle(w) /\ crashes < MaxCrashes
  /\ crashes' = crashes + 1
  /\ finish(w)
  /\ lock' = IF lock = w THEN Nobody ELSE lock
  /\ UNCHANGED <<gitVars, acknowledged, lost, lastId, calls, saves, reverts, faults>>

Next == \E w \in Window :
  \/ record(w) \/ toggle(w) \/ compensateEvent(w) \/ compensateToggle(w)
  \/ createBookmark(w) \/ createBranch(w) \/ switchBranch(w)
  \/ takeLock(w) \/ refuse(w) \/ load(w) \/ loadFails(w)
  \/ write(w) \/ writeFails(w)
  \/ stageJournal(w) \/ commitJournal(w) \/ gitFails(w) \/ rollback(w)
  \/ saveProject(w) \/ stageProject(w) \/ commitProject(w) \/ saveFails(w)
  \/ revertLatest(w) \/ revertApply(w) \/ revertRefused(w) \/ commitRevert(w)
  \/ crash(w)

Spec == Init /\ [][Next]_vars

-----------------------------------------------------------------------------
(* Properties.                                                              *)

\* Types; in particular every event carries the name of a lane, without which
\* ActionEvent::fromJson would refuse the whole journal.
TypeOK ==
  /\ work \in [journal : Seq(Event), project : Nat]
  /\ index \in [journal : Seq(Event), project : Nat]
  /\ commits \in Seq([tree : [journal : Seq(Event), project : Nat], event : Nat])
  /\ Len(commits) >= 1
  /\ lock \in Window \union {Nobody}
  /\ call \in [Window -> Call]
  /\ acknowledged \in SUBSET Nat
  /\ lost \in SUBSET Nat
  /\ lastId \in Nat
  /\ calls \in Nat /\ saves \in Nat /\ reverts \in Nat /\ faults \in Nat /\ crashes \in Nat

\* The journal in the folder always passes loadAll's integrity check, whatever
\* was written, rolled back or abandoned in the middle: a journal that failed
\* it would refuse every later mutation.
HistoryReadable == Intact(journal)

\* An event whose call returned true stays in the journal and in the latest
\* commit, no matter what other processes append, roll back or save.  (Reverts
\* are OlderActionsStay's subject.)  The exception is the code's own: a call that
\* could not read the old bytes and whose commit then fails writes an empty journal
\* back, and what it had loaded is lost.  That takes two failures, within one call.
AcknowledgedStays ==
  /\ reverts = 0 => /\ acknowledged \ lost \subseteq Ids(journal)
                    /\ acknowledged \ lost \subseteq Ids(HEAD.journal)
  /\ faults < 2 => lost = {}

\* "Exactly one immutable event and exactly one commit" per successful
\* mutation: one commit is made for the event, and that commit holds it, unless
\* a revert changes the index in between.
OneCommitEach ==
  reverts = 0 => \A e \in acknowledged :
    \E i \in DOMAIN commits :
      /\ commits[i].event = e
      /\ e \in Ids(commits[i].tree.journal)
      /\ \A j \in DOMAIN commits : commits[j].event = e => j = i

\* Undo and redo alternate: each compensation reverses the event just before it
\* in its action's chain, so that counting the chain tells what is in effect.
CompensationTargetsTail ==
  \A i \in DOMAIN journal :
    LET earlier == {j \in chainFor(journal, journal[i].root) : j < i}
    IN  journal[i].type \in Compensation =>
          /\ earlier # {}
          /\ journal[i].target = journal[lastOf(earlier)].id
          /\ journal[i].type = IF Cardinality(earlier) % 2 = 1 THEN "undo" ELSE "redo"

\* Only creating or choosing a lane, or recording into one by name, changes the
\* current lane; a bookmark, an undo or a redo never does so silently.
LaneChangesOnPurpose ==
  \A i \in DOMAIN journal :
    journal[i].type \in Compensation \union {"bookmark"} =>
      journal[i].lane = IF i = 1 THEN Main ELSE journal[i - 1].lane

\* A lane is created once.
LaneCreatedOnce ==
  \A i, j \in DOMAIN journal :
    journal[i].type = "create" /\ journal[j].type = "create"
      /\ journal[i].lane = journal[j].lane => i = j

\* An acknowledged event is never discarded from the journal, also when other
\* processes step back through the commits of project.json; but for what a rollback
\* lost that had not read it.
OlderActionsStay == acknowledged \ lost \subseteq Ids(journal)

\* What append() promises, whatever the windows do together: the journal
\* passes the integrity check of the next reader, what was acknowledged is in
\* it and in the latest commit, and each event has its own commit
\* (docs/wiki/History-Time-Machine.md).  Read, commit and rollback may each fail;
\* the check and the commits survive that, the acknowledged events all but the
\* double failure that AcknowledgedStays names.
JournalIsWhole == TypeOK /\ HistoryReadable /\ AcknowledgedStays /\ OneCommitEach
=============================================================================
