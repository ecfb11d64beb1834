---------------------------- MODULE Notifications ----------------------------
(***************************************************************************)
(* The notification centre: a folder of its own with notifications.json,   *)
(* events.jsonl and a Git repository, written by the window's background   *)
(* worker and by command-line processes.  An operation prepares the store  *)
(* without a lock, takes .notification-store.lock, reads the state, writes *)
(* the state, appends the event, commits both, and puts the files back     *)
(* when one of the writes fails.  Every file operation and every Git       *)
(* command is a step, and command-line processes die in between.           *)
(***************************************************************************)
EXTENDS Naturals, Sequences, FiniteSets, SequencesExt

CONSTANTS
  Clients,       \* the processes that use the store
  window,        \* the one of them that is the desktop window
  Ids,           \* notification ids, for the UUIDs
  Actions,       \* the lifecycle actions that are tried
  MaxOps,        \* bound: operations begun
  MaxFaults      \* bound: crashes

VARIABLES
  made,          \* which of the two files exist
  state,         \* notifications.json: a set of notifications
  events,        \* events.jsonl
  index, commits,\* Git's index and HEAD's line of commits: [state, events]
  lock,          \* owner of .notification-store.lock, or nobody
  task,          \* each client's operation: its next step, what it is, the files it found
                 \* missing, and the files' bytes it keeps for a rollback
  queue,         \* m_notificationOperationQueue
  items,         \* m_notificationItems
  listed,        \* what the window's worker has listed for delivery
  acknowledged,  \* history: the events of operations that reported success
  mine,          \* history: those of them the window has delivered
  undone,        \* history: the events an undo or redo has touched
  mishaps,       \* history: "torn": a crash or a failed rollback left one file without the
                 \* other; "emptied": a rollback wrote back a file that its operation had not
                 \* been able to read; "late creation": the store was created again, or
                 \* committed, under another process
  ops, faults

files == <<made, state, events>>
git == <<index, commits>>
screen == <<queue, items, listed>>
told == <<acknowledged, mine, undone>>
vars == <<files, git, lock, task, screen, told, mishaps, ops, faults>>

nobody == "nobody"
Files == {"state", "events"}
Notification(i) == [id |-> i, read |-> FALSE, dismissed |-> FALSE, deleted |-> FALSE]
Operation(kind, i) == [kind |-> kind, id |-> i, n |-> 0]
Idle == Operation("none", CHOOSE i \in Ids : TRUE)
Event(c) == [n |-> task[c].op.n, id |-> task[c].op.id, action |-> task[c].op.kind, by |-> c]
Empty == [state |-> {}, events |-> <<>>]

\* A notifications.json of no bytes: readState refuses it.
Unreadable == {Notification(nobody)}
Tree == [state |-> state, events |-> events]
HEAD == Last(commits)

Lifecycle == {"read", "unread", "dismiss", "restore", "delete"}

\* What each action does to a notification.
changed(n, action) ==
  CASE action = "read"    -> [n EXCEPT !.read = TRUE]
    [] action = "unread"  -> [n EXCEPT !.read = FALSE]
    [] action = "dismiss" -> [n EXCEPT !.dismissed = TRUE]
    [] action = "restore" -> [n EXCEPT !.dismissed = FALSE, !.deleted = FALSE]
    [] action = "delete"  -> [n EXCEPT !.deleted = TRUE, !.dismissed = TRUE]

apply(s, i, action) ==
  IF action \in {"new", "welcome"} THEN s \cup {Notification(i)}
  ELSE {IF n.id = i THEN changed(n, action) ELSE n : n \in s}

-----------------------------------------------------------------------------
goto(c, step) == task' = [task EXCEPT ![c].step = step]

\* An operation ends: the command-line process is done, the worker lists the store.
AtRest(step) == [step |-> step, op |-> Idle, missing |-> {}, previous |-> Empty]

finish(c, success) ==
  task' = [task EXCEPT ![c] = AtRest(IF c # window THEN "idle" ELSE IF success THEN "list" ELSE "failed")]

\* QLockFile: released only by its owner.
released(c) == IF lock = c THEN nobody ELSE lock

\* A command-line process begins an operation of its choice.
begin(c, operation) ==
  /\ c # window /\ task[c].step = "idle"
  /\ ops + Len(queue) < MaxOps
  /\ ops' = ops + 1
  /\ task' = [task EXCEPT ![c].step = "initialize", ![c].op = [operation EXCEPT !.n = ops']]
  /\ UNCHANGED <<files, git, lock, screen, told, mishaps, faults>>

\* The window's slots queue operations; a refresh after a queued refresh is dropped.
queueNotificationOperation(operation) ==
  /\ ops + Len(queue) < MaxOps
  /\ ~(operation.kind = "refresh" /\ queue # <<>> /\ Last(queue).kind = "refresh")
  /\ queue' = Append(queue, operation)
  /\ UNCHANGED <<task, files, git, lock, items, listed, told, mishaps, ops, faults>>

\* The operation stays at the head of the queue until its result is delivered.
beginNextNotificationOperation ==
  /\ task[window].step = "idle" /\ queue # <<>>
  /\ ops' = ops + 1
  /\ task' = [task EXCEPT ![window].step = "initialize", ![window].op = [Head(queue) EXCEPT !.n = ops']]
  /\ UNCHANGED <<files, git, lock, screen, told, mishaps, faults>>

\* initialize(), without the store's lock.
prepared(c) ==
  CASE task[c].op.kind = "refresh" -> "list"
    [] task[c].op.kind = "welcome" /\ state = Unreadable -> "failed"
    [] task[c].op.kind = "welcome" /\ state # {} -> "list"
    [] OTHER -> "lock"

initialize(c) ==
  /\ task[c].step = "initialize"
  /\ \/ /\ made = Files /\ commits # <<>>
        /\ goto(c, prepared(c))
     \/ /\ made # Files \/ commits = <<>>
        /\ task' = [task EXCEPT ![c].step = "create", ![c].missing = Files \ made]
     \/ finish(c, FALSE)                       \* one of its Git commands fails
  /\ UNCHANGED <<files, git, lock, screen, told, mishaps, ops, faults>>

\* What was missing is written empty, and a new or repaired store is committed.
create(c) ==
  /\ task[c].step = "create"
  /\ state' = IF "state" \in task[c].missing THEN {} ELSE state
  /\ mishaps' = IF task[c].missing \cap made = {} /\ lock = nobody THEN mishaps ELSE mishaps \cup {"late creation"}
  /\ \/ /\ made' = Files
        /\ events' = IF "events" \in task[c].missing THEN <<>> ELSE events
        /\ \/ /\ index' = [state |-> state', events |-> events']
              /\ commits' = Append(commits, index')
              /\ goto(c, prepared(c))
           \/ UNCHANGED git /\ finish(c, FALSE)
     \/ /\ made' = made \cup (task[c].missing \cap {"state"})
        /\ UNCHANGED <<events, git>>
        /\ finish(c, FALSE)
  /\ UNCHANGED <<lock, screen, told, ops, faults>>

\* tryLock(10 s), then the state is read and the operation's conditions are checked.
\* previous is what is in the files; whether fileBytes() could read their bytes as well
\* shows in rollback.
Accepted(c) ==
  CASE task[c].op.kind \in {"new", "welcome"} ->
         state # Unreadable /\ ~\E n \in state : n.id = task[c].op.id
    [] task[c].op.kind = "undo" -> /\ Tree = index /\ index = HEAD
                              /\ Len(commits) >= 2
    [] OTHER -> \E n \in state : n.id = task[c].op.id /\ (n.deleted => task[c].op.kind \in {"restore", "delete"})

mutantIgnoresLock(c) == TRUE
mayLock(c) == lock = nobody

tryLock(c) ==
  /\ task[c].step = "lock"
  /\ UNCHANGED <<files, git, queue, items, listed, told, mishaps, ops, faults>>
  /\ \/ /\ mayLock(c) /\ Accepted(c)
        /\ lock' = c
        /\ task' = [task EXCEPT ![c].previous = Tree,
                                ![c].step = IF task[c].op.kind = "undo" THEN "revert" ELSE "write"]
     \/ /\ UNCHANGED lock        \* refused, busy for ten seconds, or the state cannot be opened
        /\ finish(c, FALSE)

\* addNotification: one like it, of the same source, is less than 30 s old.
suppressed(c) ==
  /\ task[c].step = "lock" /\ lock = nobody /\ task[c].op.kind \in {"new", "welcome"}
  /\ state \notin {{}, Unreadable}
  /\ finish(c, TRUE)
  /\ UNCHANGED <<files, git, lock, screen, told, mishaps, ops, faults>>

\* The state written is the one read under the lock, changed.
write(c) ==
  /\ task[c].step = "write"
  /\ \/ /\ state' = apply(task[c].previous.state, task[c].op.id, task[c].op.kind)
        /\ goto(c, "append")
     \/ goto(c, "rollback") /\ UNCHANGED state
  /\ UNCHANGED <<made, events, git, lock, screen, told, mishaps, ops, faults>>

append(c) ==
  /\ task[c].step = "append"
  /\ \/ events' = Append(events, Event(c)) /\ goto(c, "commit")
     \/ goto(c, "rollback") /\ UNCHANGED events
  /\ UNCHANGED <<made, state, git, lock, screen, told, mishaps, ops, faults>>

success(c, affected) ==
  /\ lock' = released(c)
  /\ finish(c, TRUE)
  /\ acknowledged' = acknowledged \cup affected

commit(c) ==
  /\ task[c].step = "commit"
  /\ \/ /\ index' = Tree /\ commits' = Append(commits, Tree)
        /\ success(c, {Event(c)})
     \/ /\ index' \in {index, Tree}                \* staged, or not even that
        /\ goto(c, "rollback")
        /\ UNCHANGED <<commits, lock, acknowledged>>
  /\ UNCHANGED <<files, screen, undone, mine, mishaps, ops, faults>>

mutantRestoresState(c, unread) == <<task[c].previous.state, events>>

\* fileBytes() gives no bytes for a file it cannot open.
Restored(c, unread) ==
  <<IF "state" \in unread THEN Unreadable ELSE task[c].previous.state,
    IF "events" \in unread THEN <<>> ELSE task[c].previous.events>>

\* Both files get the bytes that were read before the first write, none where they could
\* not be; that these writes succeed is not checked.
rollback(c) ==
  /\ task[c].step = "rollback"
  /\ \E unread \in SUBSET Files :
       LET bytes == Restored(c, unread)
           emptied == IF unread = {} THEN {} ELSE {"emptied"}
       IN  \/ /\ state' = bytes[1] /\ events' = bytes[2]
              /\ mishaps' = mishaps \cup emptied
           \/ /\ state' \in {state, bytes[1]} /\ events' \in {events, bytes[2]}
              /\ mishaps' = mishaps \cup emptied \cup {"torn"}
  /\ lock' = released(c)
  /\ finish(c, FALSE)
  /\ UNCHANGED <<made, git, screen, told, ops, faults>>

\* git revert --no-commit HEAD, then a commit, or --abort.
revertLatest(c) ==
  /\ task[c].step = "revert"
  /\ LET parent == commits[Len(commits) - 1]
     IN  /\ state' = parent.state /\ events' = parent.events /\ index' = parent
         /\ undone' = undone \cup ToSet(events) \cup ToSet(parent.events)
  /\ goto(c, "revertCommit")
  /\ UNCHANGED <<made, commits, lock, screen, acknowledged, mine, mishaps, ops, faults>>

revertCommit(c) ==
  /\ task[c].step = "revertCommit"
  /\ \/ /\ commits' = Append(commits, index) /\ UNCHANGED <<state, events, index>>
        /\ \/ success(c, {})
           \/ lock' = released(c) /\ finish(c, FALSE) /\ UNCHANGED acknowledged \* readState fails
     \/ /\ state' = HEAD.state /\ events' = HEAD.events /\ index' = HEAD
        /\ lock' = released(c) /\ finish(c, FALSE)
        /\ UNCHANGED <<commits, acknowledged>>
  /\ UNCHANGED <<made, screen, undone, mine, mishaps, ops, faults>>

-----------------------------------------------------------------------------
(* The window's worker lists the store, without the lock, and delivers. *)

listing == state

list ==
  /\ task[window].step = "list"
  /\ \/ state # Unreadable /\ listed' = listing /\ goto(window, "deliver")
     \/ goto(window, "failed") /\ UNCHANGED listed
  /\ UNCHANGED <<files, git, lock, queue, items, told, mishaps, ops, faults>>

deliver ==
  /\ task[window].step \in {"deliver", "failed"}
  /\ IF task[window].step = "deliver"
     THEN items' = listed /\ mine' = {e \in acknowledged : e.by = window}
     ELSE UNCHANGED <<items, mine>>
  /\ queue' = Tail(queue) /\ listed' = {}
  /\ goto(window, "idle")
  /\ UNCHANGED <<files, git, lock, acknowledged, undone, mishaps, ops, faults>>

-----------------------------------------------------------------------------
\* A command-line process is killed; the system notices that the lock's owner is gone.
crash(c) ==
  /\ c # window /\ task[c].step # "idle" /\ faults < MaxFaults
  /\ faults' = faults + 1
  /\ task' = [task EXCEPT ![c] = AtRest("idle")]
  /\ lock' = released(c)
  /\ mishaps' = IF task[c].step \in {"append", "rollback"} THEN mishaps \cup {"torn"} ELSE mishaps
  /\ UNCHANGED <<files, git, screen, told, ops>>

\* Either the store has been used before, or the window is the first to start.
Init ==
  /\ \/ made = Files /\ commits = <<Empty>>
     \/ made = {} /\ commits = <<>>
  /\ state = {} /\ events = <<>>
  /\ index = Empty
  /\ lock = nobody
  /\ task = [c \in Clients |-> AtRest("idle")]
  /\ queue = <<Operation("welcome", Idle.id)>> /\ items = {} /\ listed = {}
  /\ acknowledged = {} /\ mine = {} /\ undone = {}
  /\ mishaps = {}
  /\ ops = 0 /\ faults = 0

Operations == {Operation(kind, i) : kind \in {"new"} \cup Actions, i \in Ids} \cup {Operation("undo", Idle.id)}

Next ==
  \/ \E operation \in Operations :
       \/ \E c \in Clients : begin(c, operation)
       \/ queueNotificationOperation(operation)
  \/ queueNotificationOperation(Operation("refresh", Idle.id))
  \/ beginNextNotificationOperation \/ list \/ deliver
  \/ \E c \in Clients :
       \/ initialize(c) \/ create(c) \/ tryLock(c) \/ suppressed(c) \/ write(c) \/ append(c) \/ commit(c)
       \/ rollback(c) \/ revertLatest(c) \/ revertCommit(c) \/ crash(c)

Spec == Init /\ [][Next]_vars

-----------------------------------------------------------------------------
\* An action that reported success stays in the event log until somebody undoes it:
\* neither a second writer nor another operation's rollback may lose it, in the log or
\* in the history of commits.  The log has two exceptions, both the code's: a store
\* that is created late, and a rollback whose operation had failed to read the log and
\* then failed to write or to commit, which empties it.  The latter leaves the commits.
AcknowledgedStays ==
  /\ mishaps \subseteq {"torn"} => acknowledged \ undone \subseteq ToSet(events)
  /\ "late creation" \notin mishaps =>
       \A e \in acknowledged : \E i \in DOMAIN commits : e \in ToSet(commits[i].events)

\* What an event log says of a notification: it was created, and of the events that set
\* or clear one of its flags the last has set it.
creates == {"new", "welcome"}
Created(es) == {e.id : e \in {x \in ToSet(es) : x.action \in creates}}
LastSets(es, i, sets, clears) ==
  \E j \in DOMAIN es :
    /\ es[j].id = i /\ es[j].action \in sets
    /\ \A k \in DOMAIN es : k > j /\ es[k].id = i => es[k].action \notin clears

Replayed(es) ==
  {[id |-> i,
    read |-> LastSets(es, i, {"read"}, {"unread"}),
    dismissed |-> LastSets(es, i, {"dismiss", "delete"}, {"restore"}),
    deleted |-> LastSets(es, i, {"delete"}, {"restore"})] : i \in Created(es)}

\* The state is what the events say whenever nobody is at work: the two files are
\* written, rolled back and reverted together.
StateMatchesEvents == mishaps = {} /\ lock = nobody => state = Replayed(events)

\* Without crashes, a store nobody works on holds what was last committed.
QuietStoreIsCommitted ==
  mishaps = {} /\ faults = 0 /\ lock = nobody /\ made = Files /\ commits # <<>> => HEAD = Tree

\* The drawer shows every notification whose creation the window has reported.
WindowShowsWhatItReports ==
  mishaps \subseteq {"torn"} =>
    \A e \in mine \ undone :
      e.action \in creates => \E n \in items : n.id = e.id

\* The notification centre agrees with itself: its state with its events, its files
\* with its last commit, and the drawer with what it has reported, but for the mishaps
\* that each part names.
CentreAgrees == StateMatchesEvents /\ QuietStoreIsCommitted /\ WindowShowsWhatItReports
=============================================================================
