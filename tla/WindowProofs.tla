----------------------------- MODULE WindowProofs -----------------------------
(***************************************************************************)
(* What a window does with its project: what it keeps of it, for any       *)
(* settings, values and bounds, and what it takes in for it, for any       *)
(* projects and sources, any number of requests, answers in any order and  *)
(* failures.                                                               *)
(*                                                                         *)
(* Of what is kept: edits on their way to the disk are accounted for, and  *)
(* a window with nothing in progress shows what project.json holds.        *)
(* Edits, undos and imports exclude each other.  Where memory and file may *)
(* part, after an undo whose commit failed, the watcher has been told and  *)
(* will import the file.  And while nothing fails, the history explains    *)
(* the project: its actions in effect, each of which found what those      *)
(* before it left, leave every setting at its value (Ledger).              *)
(*                                                                         *)
(* Of what is taken in: most parts of IntakeIsSound are inductive          *)
(* together.  Two need more: that the results fit the query asks what the  *)
(* replies in flight were asked for (Replies), and that a busy sheet has a *)
(* reply to wait for asks that this reply is the current one               *)
(* (BusyIsAnswered), for a stale one is freed without an answer.           *)
(***************************************************************************)
EXTENDS MCWindow, SequenceTheorems, FiniteSetTheorems, WellFoundedInduction, TLAPS

Counters == edits \in Nat /\ undos \in Nat /\ externals \in Nat /\ crashes \in Nat

\* What excludes what on the window's thread.
OneAtATime ==
  /\ importing # "none" \/ ~open \/ undo.pc # "none" => queue = <<>>
  /\ undo.pc # "none" => open /\ importing = "none" /\ undo.root \in Roots

\* What the save in progress has done.
SaveInProgress ==
  externals = 0 =>
    /\ worker \in {"commit", "record"} \/ (worker = "report" /\ saved) => file = Head(queue).to
    /\ worker = "record" => \E j \in DOMAIN commits : commits[j] = Head(queue).to

\* Memory is what the file holds, or the watcher has yet to import it, or it could not be read.
Settled == memory = file \/ noticed \/ timers > 0 \/ unread

KeptInStep ==
  externals = 0 =>
    /\ open /\ queue = <<>> /\ undo.pc # "commit" /\ importing = "none" => Settled
    /\ importing = "deliver" => imported = file
    /\ undo.pc = "commit" => file = undone /\ noticed

OneOutsideChange ==
  idleSoFar /\ externals <= 1 =>
    /\ open /\ queue = <<>> /\ undo.pc = "none"
    /\ externals = 0 => importing = "none" /\ ~noticed /\ timers = 0 /\ memory = file
    /\ importing = "none" => Settled
    /\ importing = "deliver" => imported = file

Books == EditsAreAccounted /\ Counters /\ OneAtATime /\ SaveInProgress

-----------------------------------------------------------------------------
(* Chains and patches.                                                      *)

\* LastOf finds the greatest of some numbers.
LEMMA Greatest ==
  ASSUME NEW n \in Nat, NEW I \in SUBSET (1 .. n), I # {}
  PROVE  LastOf(I) \in I /\ \A j \in I : j <= LastOf(I)
<1> DEFINE S == {n - i : i \in I}
<1>1. \A i \in I : i \in 1 .. n
  OBVIOUS
<1>2. S \subseteq Nat /\ S # {}
  <2>1. \A i \in I : n - i \in Nat
    BY <1>1
  <2> QED
    BY <2>1
<1>3. PICK m \in S : \A k \in S : m <= k
  <2> HIDE DEF S
  <2>1. PICK m \in S : \A k \in S : <<k, m>> \notin OpToRel(<, Nat)
    BY <1>2, WFMin, NatLessThanWellFounded
  <2>2. m \in Nat /\ \A k \in S : k \in Nat
    BY <1>2
  <2>3. \A k \in S : ~(k < m)
    BY <2>1, <2>2, Zenon DEF OpToRel
  <2> QED
    BY <2>2, <2>3
<1>4. PICK i \in I : m = n - i
  BY <1>3
<1>5. \A j \in I : j <= i
  <2> SUFFICES ASSUME NEW j \in I PROVE j <= i
    OBVIOUS
  <2>1. n - j \in S /\ i \in 1..n /\ j \in 1..n
    OBVIOUS
  <2>2. n - i <= n - j
    BY <1>3, <1>4, <2>1
  <2> QED
    BY <2>1, <2>2
<1> QED
  BY <1>4, <1>5 DEF LastOf

LEMMA GreatestIs ==
  ASSUME NEW n \in Nat, NEW I \in SUBSET (1 .. n), NEW i \in I, \A j \in I : j <= i
  PROVE  LastOf(I) = i
<1>1. LastOf(I) \in I /\ \A j \in I : j <= LastOf(I)
  BY Greatest
<1>2. i \in 1 .. n /\ LastOf(I) \in 1 .. n /\ i <= LastOf(I) /\ LastOf(I) <= i
  BY <1>1
<1> QED
  BY <1>2

LEMMA LastIsInChain ==
  ASSUME log \in Seq(Event), NEW root \in Roots
  PROVE  LastOf(Chain(root)) \in Chain(root)
<1>1. Chain(root) # {} /\ Chain(root) \in SUBSET (1 .. Len(log)) /\ Len(log) \in Nat
  BY DEF Roots, Chain
<1> QED
  BY <1>1, Greatest

LEMMA CompensationType ==
  ASSUME log \in Seq(Event), NEW root \in Roots, NEW kind \in {"undo", "redo"}
  PROVE  compensation(root, kind) \in Event /\ root \in Nat
<1>1. LastOf(Chain(root)) \in DOMAIN log
  BY LastIsInChain DEF Chain
<1>2. log[LastOf(Chain(root))] \in Event
  BY <1>1
<1>3. root \in Nat
  <2>1. PICK i \in DOMAIN log : root = log[i].root
    BY DEF Roots
  <2>2. log[i] \in Event
    BY <2>1
  <2> QED
    BY <2>1, <2>2 DEF Event
<1> QED
  BY <1>2, <1>3 DEF compensation, Event

LEMMA UndoneType ==
  ASSUME TypeOK, undo.root \in Roots
  PROVE  undone \in Project
<1>1. undoEvent \in Event
  BY LastIsInChain DEF TypeOK, Chain, undoEvent
<1> QED
  BY <1>1 DEF undone, applyMergePatch, TypeOK, Project, Event

LEMMA AppendedRoots ==
  ASSUME log \in Seq(Event), NEW e \in Event
  PROVE  /\ Append(log, e) \in Seq(Event)
         /\ {Append(log, e)[i].root : i \in DOMAIN Append(log, e)} = Roots \cup {e.root}
BY DEF Roots

-----------------------------------------------------------------------------
(* The books of edits, one step at a time.                                  *)

LEMMA InitBooks == Init => Books
<1> SUFFICES ASSUME Init PROVE Books
  OBVIOUS
<1>1. NewProject \in Project
  BY DefaultAssumption DEF NewProject, Project
<1>a. <<NewProject>> \in Seq(Project) /\ <<NewProject>> # <<>>
  BY <1>1
<1>b. NoUndo \in [pc : {"none", "apply", "commit", "repair"}, root : Nat, kind : {"undo", "redo"}]
  BY DEF NoUndo
<1>c. memory \in Project /\ file \in Project /\ imported \in Project /\ commits \in Seq(Project) /\ commits # <<>>
  BY <1>1, <1>a DEF Init
<1>d. queue = <<>> /\ queue \in Seq(Change) /\ log \in Seq(Event)
  BY DEF Init
<1>2. TypeOK
  BY <1>b, <1>c, <1>d DEF Init, TypeOK
<1>3. QueueLeadsToMemory /\ Counters /\ OneAtATime
  BY DEF Init, QueueLeadsToMemory, Counters, OneAtATime, NoUndo
<1>4. RecordedWasCommitted /\ SaveInProgress
  BY DEF Init, RecordedWasCommitted, SaveInProgress
<1> QED
  BY <1>2, <1>3, <1>4 DEF Books, EditsAreAccounted

LEMMA QueueGrows ==
  ASSUME NEW q \in Seq(Change), NEW d \in Change
  PROVE  /\ Append(q, d) \in Seq(Change) /\ Append(q, d) # <<>> /\ Len(Append(q, d)) = Len(q) + 1
         /\ q # <<>> => Head(Append(q, d)) = Head(q)
         /\ q = <<>> => Head(Append(q, d)) = d
         /\ Append(q, d)[Len(q) + 1] = d
         /\ \A i \in 1..Len(q) : Append(q, d)[i] = q[i]
OBVIOUS

LEMMA QueueShrinks ==
  ASSUME NEW q \in Seq(Change), q # <<>>
  PROVE  /\ Tail(q) \in Seq(Change) /\ Head(q) \in Change /\ Head(q) = q[1]
         /\ Len(Tail(q)) = Len(q) - 1 /\ Len(q) \in Nat /\ Len(q) > 0
         /\ Tail(q) = <<>> <=> Len(q) = 1
         /\ \A i \in 1..Len(Tail(q)) : Tail(q)[i] = q[i + 1]
<1>1. /\ Head(q) \in Change /\ Tail(q) \in Seq(Change)
      /\ Len(Tail(q)) = Len(q) - 1
      /\ \A i \in 1..Len(Tail(q)) : Tail(q)[i] = q[i + 1]
  BY HeadTailProperties
<1>2. Len(q) \in Nat /\ Len(q) > 0 /\ Head(q) = q[1]
  BY EmptySeq
<1>3. Tail(q) = <<>> <=> Len(Tail(q)) = 0
  BY <1>1, EmptySeq
<1> QED
  BY <1>1, <1>2, <1>3

LEMMA MutateBooks ==
  ASSUME Books, NEW s \in Setting, NEW v \in Value, mutateProject(s, v)
  PROVE  Books'
<1> USE DEF Books, EditsAreAccounted
<1> DEFINE after == [memory EXCEPT ![s] = v]
           d == [from |-> memory, to |-> after]
<1>1. after \in Project /\ d \in Change
  BY DEF TypeOK, Project, Change
<1>2. memory' = after /\ queue' = Append(queue, d) /\ d.from = memory /\ d.to = after
  BY DEF mutateProject
<1> HIDE DEF after, d
<1>3. queue \in Seq(Change)
  BY DEF TypeOK
<1>4. /\ queue' \in Seq(Change) /\ queue' # <<>> /\ Len(queue') = Len(queue) + 1 /\ Len(queue) \in Nat
      /\ queue # <<>> => Head(queue') = Head(queue)
      /\ queue'[Len(queue) + 1] = d
      /\ \A i \in 1..Len(queue) : queue'[i] = queue[i]
  BY <1>1, <1>2, <1>3, QueueGrows
<1>5. worker' = (IF worker = "none" THEN "write" ELSE worker)
  BY DEF mutateProject, mutationBusy
<1>6. UNCHANGED <<unread, saved, undo, importing, imported, timers, open, file, commits, log, noticed,
                  undos, externals, crashes>> /\ edits' = edits + 1
  BY DEF mutateProject, diskVars
<1>7. TypeOK'
  BY <1>1, <1>2, <1>4, <1>5, <1>6 DEF TypeOK
<1>8. QueueLeadsToMemory'
  <2>1. memory' = queue'[Len(queue')].to
    BY <1>2, <1>4
  <2>2. ASSUME NEW i \in 1..Len(queue') - 1 PROVE queue'[i].to = queue'[i + 1].from
    <3>1. CASE i = Len(queue)
      <4>1. queue[Len(queue)].to = memory
        BY <1>4, <2>2, <3>1 DEF QueueLeadsToMemory
      <4> QED
        BY <1>2, <1>4, <2>2, <3>1, <4>1
    <3>2. CASE i # Len(queue)
      <4>1. i \in 1..Len(queue) - 1 /\ i + 1 \in 1..Len(queue) /\ i \in 1..Len(queue)
        BY <1>4, <2>2, <3>2
      <4> QED
        BY <1>4, <4>1 DEF QueueLeadsToMemory
    <3> QED
      BY <3>1, <3>2
  <2> QED
    BY <2>1, <2>2 DEF QueueLeadsToMemory
<1>9. RecordedWasCommitted' /\ Counters' /\ OneAtATime'
  BY <1>6 DEF RecordedWasCommitted, Counters, OneAtATime, mutateProject, windowFree, transitionBusy, Roots
<1>10. SaveInProgress'
  BY <1>4, <1>5, <1>6 DEF SaveInProgress, TypeOK
<1> QED
  BY <1>7, <1>8, <1>9, <1>10

LEMMA CommitsGrow ==
  ASSUME NEW cs \in Seq(Project), NEW p \in Project
  PROVE  /\ Append(cs, p) \in Seq(Project) /\ Append(cs, p) # <<>>
         /\ \E j \in DOMAIN Append(cs, p) : Append(cs, p)[j] = p
         /\ \A j \in DOMAIN cs : j \in DOMAIN Append(cs, p) /\ Append(cs, p)[j] = cs[j]
<1>1. Append(cs, p)[Len(cs) + 1] = p /\ Len(cs) + 1 \in DOMAIN Append(cs, p)
  OBVIOUS
<1> QED
  BY <1>1

LEMMA SaveBooks ==
  ASSUME Books, saveWrite \/ saveCommit \/ saveRecord
  PROVE  Books'
<1> USE DEF Books, EditsAreAccounted
<1>1. queue \in Seq(Change) /\ queue # <<>> /\ Head(queue) \in Change /\ Head(queue).to \in Project
      /\ Head(queue).from \in Project
  BY QueueShrinks DEF saveWrite, saveCommit, saveRecord, TypeOK, Change
<1>2. /\ UNCHANGED <<memory, unread, queue, undo, importing, imported, timers, open,
                     edits, undos, externals, crashes>>
      /\ importing = "none" /\ open /\ undo.pc = "none"
  BY <1>1 DEF saveWrite, saveCommit, saveRecord, OneAtATime
<1>3. QueueLeadsToMemory' /\ Counters'
  BY <1>2 DEF QueueLeadsToMemory, Counters
<1>4. OneAtATime'
  BY <1>2 DEF OneAtATime
<1>5. CASE saveWrite
  <2>1. TypeOK'
    BY <1>1, <1>2, <1>5 DEF saveWrite, TypeOK, writeFile, ImportAssumption
  <2>2. RecordedWasCommitted' /\ SaveInProgress'
    BY <1>2, <1>5 DEF saveWrite, RecordedWasCommitted, SaveInProgress, writeFile
  <2> QED
    BY <1>3, <1>4, <2>1, <2>2
<1>6. CASE saveCommit
  <2>0. file \in Project /\ commits \in Seq(Project) /\ UNCHANGED <<file, log, noticed>>
        /\ commits' \in {commits, Append(commits, file)}
        /\ \/ commits' = Append(commits, file) /\ worker' = "record" /\ saved' = TRUE
           \/ worker' = "report" /\ saved' = FALSE
    BY <1>6 DEF saveCommit, TypeOK
  <2>1. /\ Append(commits, file) \in Seq(Project) /\ Append(commits, file) # <<>>
        /\ \E j \in DOMAIN Append(commits, file) : Append(commits, file)[j] = file
        /\ \A j \in DOMAIN commits : j \in DOMAIN Append(commits, file) /\ Append(commits, file)[j] = commits[j]
    BY <2>0, CommitsGrow
  <2>2. TypeOK'
    BY <1>1, <1>2, <2>0, <2>1 DEF TypeOK
  <2>3. \A j \in DOMAIN commits : j \in DOMAIN commits' /\ commits'[j] = commits[j]
    BY <2>0, <2>1
  <2>4. RecordedWasCommitted'
    BY <1>2, <2>0, <2>3 DEF RecordedWasCommitted
  <2>5. SaveInProgress'
    BY <1>2, <1>6, <2>0, <2>1 DEF SaveInProgress, saveCommit
  <2> QED
    BY <1>3, <1>4, <2>2, <2>4, <2>5
<1>7. CASE saveRecord
  <2> DEFINE e == [root |-> Len(log) + 1, kind |-> "action", from |-> Head(queue).from, to |-> Head(queue).to]
  <2>0. /\ UNCHANGED <<file, commits, noticed, saved>> /\ worker' = "report" /\ worker = "record"
        /\ log' \in {log, Append(log, e)}
    BY <1>7 DEF saveRecord
  <2>1. e \in Event /\ e.to = Head(queue).to /\ log \in Seq(Event)
    BY <1>1 DEF Event, TypeOK
  <2> HIDE DEF e
  <2>a. Append(log, e) \in Seq(Event)
    BY <2>1
  <2>b. log' \in Seq(Event)
    BY <2>0, <2>1, <2>a
  <2>2. TypeOK'
    BY <1>1, <1>2, <2>0, <2>b DEF TypeOK
  <2>3. \A i \in DOMAIN log' : (i \in DOMAIN log /\ log'[i] = log[i]) \/ log'[i] = e
    BY <2>0, <2>1
  <2>4. RecordedWasCommitted'
    BY <1>2, <2>0, <2>1, <2>3 DEF RecordedWasCommitted, SaveInProgress
  <2>5. SaveInProgress'
    BY <1>2, <2>0 DEF SaveInProgress
  <2> QED
    BY <1>3, <1>4, <2>2, <2>4, <2>5
<1> QED
  BY <1>5, <1>6, <1>7

LEMMA FinishBooks ==
  ASSUME Books, finishProjectMutation
  PROVE  Books'
<1> USE DEF Books, EditsAreAccounted
<1>1. queue \in Seq(Change) /\ queue # <<>> /\ worker = "report"
  BY DEF finishProjectMutation, TypeOK
<1>2. /\ UNCHANGED <<saved, undo, importing, imported, timers, open, file, commits, log, noticed,
                     edits, undos, externals, crashes>>
      /\ importing = "none" /\ open /\ undo.pc = "none"
      /\ worker' = nextSave(queue') /\ memory' \in {memory, file} /\ (saved => memory' = memory)
      /\ queue' = (IF saved THEN Tail(queue) ELSE <<>>) /\ unread' \in BOOLEAN
  BY <1>1 DEF finishProjectMutation, memoryAfter, OneAtATime, diskVars, bounds
<1>3. /\ Tail(queue) \in Seq(Change) /\ Len(Tail(queue)) = Len(queue) - 1
      /\ Len(queue) \in Nat /\ Len(queue) > 0 /\ Head(queue) = queue[1]
      /\ \A i \in 1..Len(Tail(queue)) : Tail(queue)[i] = queue[i + 1]
      /\ Tail(queue) = <<>> <=> Len(queue) = 1
  BY <1>1, QueueShrinks
<1>4. TypeOK'
  <2>1. queue' \in Seq(Change)
    BY <1>2, <1>3
  <2>2. worker' \in {"none", "write"} /\ (worker' = "none") = (queue' = <<>>)
    BY <1>2 DEF nextSave
  <2>3. memory' \in Project
    BY <1>2 DEF TypeOK
  <2> QED
    BY <1>2, <2>1, <2>2, <2>3 DEF TypeOK
<1>5. QueueLeadsToMemory'
  <2>1. CASE ~saved
    BY <1>2, <2>1 DEF QueueLeadsToMemory
  <2>2. CASE saved
    <3>1. queue' = Tail(queue) /\ memory' = memory
      BY <1>2, <2>2
    <3>2. memory = queue[Len(queue)].to /\ \A i \in 1..Len(queue) - 1 : queue[i].to = queue[i + 1].from
      BY <1>1 DEF QueueLeadsToMemory
    <3>3. queue' # <<>> => memory' = queue'[Len(queue')].to
      <4> SUFFICES ASSUME queue' # <<>> PROVE memory' = queue'[Len(queue')].to
        OBVIOUS
      <4>1. Len(Tail(queue)) \in 1..Len(Tail(queue)) /\ Len(Tail(queue)) + 1 = Len(queue)
        BY <1>3, <3>1
      <4> QED
        BY <1>3, <3>1, <3>2, <4>1
    <3>4. ASSUME NEW i \in 1..Len(queue') - 1 PROVE queue'[i].to = queue'[i + 1].from
      <4>1. /\ i \in 1..Len(Tail(queue)) /\ i + 1 \in 1..Len(Tail(queue)) /\ i + 1 \in 1..Len(queue) - 1
        BY <1>3, <3>1, <3>4
      <4>2. queue'[i] = queue[i + 1] /\ queue'[i + 1] = queue[(i + 1) + 1]
        BY <1>3, <3>1, <4>1
      <4> QED
        BY <3>2, <4>1, <4>2
    <3> QED
      BY <3>3, <3>4 DEF QueueLeadsToMemory
  <2> QED
    BY <2>1, <2>2
<1>6. RecordedWasCommitted' /\ Counters' /\ OneAtATime'
  BY <1>2 DEF RecordedWasCommitted, Counters, OneAtATime
<1>7. SaveInProgress'
  BY <1>2 DEF SaveInProgress, nextSave
<1> QED
  BY <1>4, <1>5, <1>6, <1>7

\* An event that says less than a save did needs no commit.
LEMMA LogGrows ==
  ASSUME Books, NEW root \in Roots, NEW kind \in {"undo", "redo"},
         log' = Append(log, compensation(root, kind)), UNCHANGED <<commits, externals>>
  PROVE  /\ log' \in Seq(Event) /\ RecordedWasCommitted'
         /\ \A r \in Roots : r \in Roots'
<1> DEFINE e == compensation(root, kind)
<1>1. log \in Seq(Event) /\ RecordedWasCommitted
  BY DEF Books, EditsAreAccounted, TypeOK
<1>2. e \in Event /\ e.kind = kind
  BY <1>1, CompensationType DEF compensation
<1> HIDE DEF e
<1>3. log' = Append(log, e)
  BY DEF e
<1>4. /\ log' \in Seq(Event)
      /\ \A i \in DOMAIN log : i \in DOMAIN log' /\ log'[i] = log[i]
      /\ \A i \in DOMAIN log' : (i \in DOMAIN log /\ log'[i] = log[i]) \/ log'[i] = e
  BY <1>1, <1>2, <1>3
<1>5. RecordedWasCommitted'
  BY <1>1, <1>2, <1>4 DEF RecordedWasCommitted
<1>6. \A r \in Roots : r \in Roots'
  BY <1>4 DEF Roots
<1> QED
  BY <1>4, <1>5, <1>6

LEMMA UndoBooks ==
  ASSUME Books, \/ \E root \in Roots, kind \in {"undo", "redo"} : toggleHistoryEvent(root, kind)
                \/ applyHistoryState \/ applyCommit \/ repair
  PROVE  Books'
<1> USE DEF Books, EditsAreAccounted
<1> DEFINE Undo == [pc : {"none", "apply", "commit", "repair"}, root : Nat, kind : {"undo", "redo"}]
<1>0. log \in Seq(Event) /\ undo \in Undo
  BY DEF TypeOK
<1>1. ASSUME NEW root \in Roots, NEW kind \in {"undo", "redo"}, toggleHistoryEvent(root, kind)
      PROVE  Books'
  <2>1. /\ UNCHANGED <<memory, unread, queue, worker, saved, importing, imported, timers, open, file, commits,
                       noticed, edits, externals, crashes>>
        /\ open /\ importing = "none" /\ queue = <<>> /\ worker = "none" /\ undos' = undos + 1
        /\ log' = Append(log, compensation(root, kind))
        /\ undo' = [pc |-> "apply", root |-> root, kind |-> kind]
    BY <1>1 DEF toggleHistoryEvent, windowFree, requireIdleProjectHistory, transitionBusy, mutationBusy
  <2>2. log' \in Seq(Event) /\ RecordedWasCommitted' /\ root \in Roots'
    BY <2>1, LogGrows
  <2>3. undo' \in Undo
    BY <1>0, <2>1, CompensationType
  <2>4. TypeOK'
    BY <2>1, <2>2, <2>3 DEF TypeOK
  <2> QED
    BY <2>1, <2>2, <2>4 DEF QueueLeadsToMemory, Counters, OneAtATime, SaveInProgress
<1>2. CASE applyHistoryState
  <2>1. /\ UNCHANGED <<memory, unread, queue, worker, saved, importing, imported, timers, open, commits, log,
                       edits, undos, externals, crashes>>
        /\ undo.pc = "apply" /\ queue = <<>> /\ worker = "none" /\ undo.root \in Roots
        /\ undo' \in {[undo EXCEPT !.pc = "repair"], [undo EXCEPT !.pc = "commit"]}
        /\ \/ UNCHANGED <<file, noticed>>
           \/ writeFile(undone)
    BY <1>2 DEF applyHistoryState, OneAtATime, TypeOK
  <2>2. undone \in Project
    BY <2>1, UndoneType
  <2>3. undo' \in Undo /\ undo'.root = undo.root
    BY <1>0, <2>1
  <2>4. file' \in Project /\ noticed' \in BOOLEAN
    BY <2>1, <2>2, ImportAssumption DEF TypeOK, writeFile
  <2>5. TypeOK'
    BY <2>1, <2>3, <2>4 DEF TypeOK
  <2>6. OneAtATime'
    BY <1>2, <2>1, <2>3 DEF OneAtATime, Roots
  <2> QED
    BY <2>1, <2>5, <2>6 DEF QueueLeadsToMemory, Counters, SaveInProgress, RecordedWasCommitted
<1>3. CASE applyCommit
  <2>1. /\ UNCHANGED <<queue, worker, saved, importing, imported, open, file, log, noticed,
                       edits, undos, externals, crashes>>
        /\ undo.pc = "commit" /\ queue = <<>> /\ worker = "none" /\ undo.root \in Roots
        /\ undo' \in {[undo EXCEPT !.pc = "repair"], NoUndo}
        /\ memory' \in {memory, undone} /\ timers' \in {timers, 0} /\ unread' \in {unread, FALSE}
        /\ commits' \in {commits, Append(commits, file)}
    BY <1>3 DEF applyCommit, OneAtATime, TypeOK
  <2>2. undone \in Project /\ file \in Project /\ commits \in Seq(Project)
    BY <2>1, UndoneType DEF TypeOK
  <2>3. undo' \in Undo /\ (undo'.pc # "none" => undo'.root = undo.root)
    <3>1. [undo EXCEPT !.pc = "repair"] \in Undo /\ [undo EXCEPT !.pc = "repair"].root = undo.root
      BY <1>0
    <3>2. NoUndo \in Undo /\ NoUndo.pc = "none"
      BY DEF NoUndo
    <3> QED
      BY <2>1, <3>1, <3>2
  <2>a. memory' \in Project /\ timers' \in Nat /\ unread' \in BOOLEAN
    <3>1. memory' \in Project /\ timers' \in Nat
      BY <2>1, <2>2 DEF TypeOK
    <3>2. unread \in BOOLEAN
      BY DEF TypeOK
    <3>3. unread' \in BOOLEAN
      BY ONLY <2>1, <3>2
    <3> QED
      BY <3>1, <3>3
  <2>4. /\ commits' \in Seq(Project) /\ commits' # <<>>
        /\ \A j \in DOMAIN commits : j \in DOMAIN commits' /\ commits'[j] = commits[j]
    <3>1. /\ Append(commits, file) \in Seq(Project) /\ Append(commits, file) # <<>>
          /\ \A j \in DOMAIN commits : j \in DOMAIN Append(commits, file) /\ Append(commits, file)[j] = commits[j]
      BY <2>2, CommitsGrow
    <3> QED
      BY <2>1, <3>1 DEF TypeOK
  <2> HIDE DEF Undo
  <2>b. TypeOK /\ OneAtATime
    OBVIOUS
  <2>5. TypeOK'
    BY ONLY <2>1, <2>2, <2>3, <2>4, <2>a, <2>b DEF TypeOK, Undo
  <2>6. OneAtATime'
    BY ONLY <2>1, <2>3, <2>b DEF OneAtATime, Roots
  <2>7. RecordedWasCommitted'
    BY <2>1, <2>4 DEF RecordedWasCommitted
  <2> QED
    BY <2>1, <2>5, <2>6, <2>7 DEF QueueLeadsToMemory, Counters, SaveInProgress
<1>4. CASE repair
  <2>1. /\ UNCHANGED <<memory, unread, queue, worker, saved, importing, imported, timers, open, file, commits,
                       noticed, edits, undos, externals, crashes>>
        /\ queue = <<>> /\ worker = "none" /\ undo.root \in Roots /\ undo' = NoUndo
        /\ \/ log' = Append(log, compensation(undo.root, opposite(undo.kind)))
           \/ UNCHANGED log
    BY <1>4 DEF repair, repaired, OneAtATime, TypeOK
  <2>2. opposite(undo.kind) \in {"undo", "redo"}
    BY DEF opposite
  <2>3. log' \in Seq(Event) /\ RecordedWasCommitted'
    <3>1. CASE UNCHANGED log
      BY <1>0, <2>1, <3>1 DEF RecordedWasCommitted
    <3>2. CASE log' = Append(log, compensation(undo.root, opposite(undo.kind)))
      BY <2>1, <2>2, <3>2, LogGrows
    <3> QED
      BY <2>1, <3>1, <3>2
  <2>4. undo' \in Undo /\ undo'.pc = "none"
    BY <2>1 DEF NoUndo
  <2>5. TypeOK'
    BY <2>1, <2>3, <2>4 DEF TypeOK
  <2> QED
    BY <2>1, <2>3, <2>4, <2>5 DEF QueueLeadsToMemory, Counters, OneAtATime, SaveInProgress
<1> QED
  BY <1>1, <1>2, <1>3, <1>4

LEMMA WatcherBooks ==
  ASSUME Books, watcherReports \/ watcherTimer \/ importLoad \/ importDeliver \/ importFails \/ openProject \/ crash
  PROVE  Books'
<1> USE DEF Books, EditsAreAccounted
<1>1. UNCHANGED <<file, commits, log, externals, edits, undos>>
  BY DEF watcherReports, watcherTimer, importLoad, importDeliver, importFails, openProject, crash, diskVars, bounds
<1>2. RecordedWasCommitted' /\ Roots' = Roots
  BY <1>1 DEF RecordedWasCommitted, Roots
<1>3. CASE watcherReports
  <2>1. /\ UNCHANGED <<memory, unread, queue, worker, saved, undo, importing, imported, open, file, commits, log>>
        /\ UNCHANGED <<edits, undos, externals, crashes>>
        /\ noticed' = FALSE /\ timers' = timers + 1
    BY <1>3 DEF watcherReports, bounds
  <2>b. TypeOK
    OBVIOUS
  <2>c. timers \in Nat
    BY ONLY <2>b DEF TypeOK
  <2>a. timers' \in Nat /\ noticed' \in BOOLEAN
    <3>1. timers' \in Nat
      BY ONLY <2>1, <2>c
    <3>2. noticed' \in BOOLEAN
      BY ONLY <2>1
    <3> QED
      BY ONLY <3>1, <3>2
  <2>2. TypeOK'
    BY ONLY <2>1, <2>a, <2>b, Zenon DEF TypeOK
  <2> QED
    BY <1>2, <2>1, <2>2 DEF QueueLeadsToMemory, Counters, OneAtATime, SaveInProgress
<1>4. CASE watcherTimer
  BY <1>1, <1>2, <1>4
     DEF watcherTimer, windowFree, requireIdleProjectHistory, TypeOK, QueueLeadsToMemory, Counters,
         OneAtATime, SaveInProgress, bounds, diskVars
<1>5. CASE importLoad
  BY <1>1, <1>2, <1>5 DEF importLoad, TypeOK, QueueLeadsToMemory, Counters, OneAtATime, SaveInProgress, bounds, diskVars
<1>6. CASE importDeliver
  BY <1>1, <1>2, <1>6 DEF importDeliver, TypeOK, QueueLeadsToMemory, Counters, OneAtATime, SaveInProgress, bounds, diskVars
<1>7. CASE openProject
  BY <1>1, <1>2, <1>7 DEF openProject, TypeOK, QueueLeadsToMemory, Counters, OneAtATime, SaveInProgress, bounds, diskVars
<1>8. CASE crash
  <2>1. NoUndo \in [pc : {"none", "apply", "commit", "repair"}, root : Nat, kind : {"undo", "redo"}]
        /\ <<>> \in Seq(Change) /\ NoUndo.pc = "none"
    BY DEF NoUndo
  <2>2. /\ UNCHANGED <<memory, unread, imported>> /\ crashes' = crashes + 1
        /\ open' = FALSE /\ queue' = <<>> /\ worker' = "none" /\ saved' = FALSE /\ undo' = NoUndo
        /\ importing' = "none" /\ timers' = 0 /\ noticed' = FALSE
    BY <1>8 DEF crash
  <2>3. TypeOK'
    BY <1>1, <2>1, <2>2 DEF TypeOK
  <2> QED
    BY <1>1, <1>2, <2>1, <2>2, <2>3 DEF QueueLeadsToMemory, Counters, OneAtATime, SaveInProgress
<1>9. CASE importFails
  BY <1>1, <1>2, <1>9 DEF importFails, TypeOK, QueueLeadsToMemory, Counters, OneAtATime, SaveInProgress, bounds, diskVars
<1> QED
  BY <1>3, <1>4, <1>5, <1>6, <1>7, <1>8, <1>9

LEMMA ExternalBooks ==
  ASSUME Books, NEW s \in Setting, NEW v \in Value, externalEdit(s, v)
  PROVE  Books'
<1> USE DEF Books, EditsAreAccounted
<1>1. /\ UNCHANGED <<windowVars, commits, log, edits, undos, faults, undoFaults, crashes>>
      /\ writeFile([file EXCEPT ![s] = v]) /\ externals' = externals + 1
  BY DEF externalEdit
<1>2. [file EXCEPT ![s] = v] \in Project
  BY DEF TypeOK, Project
<1>3. file' \in Project /\ noticed' \in BOOLEAN
  BY <1>1, <1>2, ImportAssumption DEF writeFile, TypeOK
<1>4. externals' # 0 /\ externals' \in Nat
  BY <1>1 DEF Counters
<1>5. TypeOK' /\ QueueLeadsToMemory' /\ Counters' /\ OneAtATime'
  BY <1>1, <1>3, <1>4 DEF windowVars, TypeOK, QueueLeadsToMemory, Counters, OneAtATime, Roots
<1> QED
  BY <1>4, <1>5 DEF RecordedWasCommitted, SaveInProgress

LEMMA NextBooks ==
  ASSUME Books, [Next]_vars
  PROVE  Books'
<1>1. CASE WindowNext
  BY <1>1, SaveBooks, FinishBooks, UndoBooks, WatcherBooks DEF WindowNext
<1>2. CASE UNCHANGED vars
  BY <1>2 DEF vars, windowVars, diskVars, bounds, Books, EditsAreAccounted, TypeOK, QueueLeadsToMemory,
     RecordedWasCommitted, Counters, OneAtATime, SaveInProgress, Roots
<1> QED
  BY <1>1, <1>2, MutateBooks, ExternalBooks, UndoBooks, WatcherBooks DEF Next

\* The queue leads from the disk to memory without a gap, and an action event says only
\* what Git holds: mutateProject, beginNextProjectMutation and finishProjectMutation, for
\* any settings and values and however many edits are queued.
THEOREM Accounted == Spec => []EditsAreAccounted
<1>1. Books => EditsAreAccounted
  BY DEF Books
<1> QED
  BY <1>1, InitBooks, NextBooks, PTL DEF Spec

-----------------------------------------------------------------------------
(* Memory and file, where the watcher imports outside changes.              *)

Together == Books /\ KeptInStep /\ OneOutsideChange

LEMMA InitTogether == Init => Together
<1> SUFFICES ASSUME Init PROVE Together
  OBVIOUS
<1>1. KeptInStep
  BY DEF Init, KeptInStep, Settled, NoUndo
<1>2. OneOutsideChange
  BY DEF Init, OneOutsideChange, Settled, NoUndo
<1> QED
  BY <1>1, <1>2, InitBooks DEF Together

LEMMA EditsTogether ==
  ASSUME Together,
         \/ \E s \in Setting, v \in Value : mutateProject(s, v)
         \/ saveWrite \/ saveCommit \/ saveRecord
  PROVE  KeptInStep' /\ OneOutsideChange'
<1>1. edits \in Nat /\ queue \in Seq(Change)
  BY DEF Together, Books, Counters, EditsAreAccounted, TypeOK
<1>2. CASE \E s \in Setting, v \in Value : mutateProject(s, v)
  <2>1. queue' # <<>> /\ edits' # 0 /\ UNCHANGED <<externals, undo, importing, imported, file>>
        /\ importing = "none" /\ undo.pc = "none"
    BY <1>1, <1>2 DEF mutateProject, windowFree, transitionBusy, diskVars
  <2> QED
    BY <2>1 DEF KeptInStep, OneOutsideChange, idleSoFar
<1>3. CASE saveWrite \/ saveCommit \/ saveRecord
  <2>1. queue # <<>>
    BY <1>3 DEF saveWrite, saveCommit, saveRecord, Together, Books, EditsAreAccounted, TypeOK
  <2>2. importing = "none" /\ undo.pc = "none" /\ ~(idleSoFar /\ externals <= 1)
    BY <2>1 DEF Together, Books, OneAtATime, OneOutsideChange
  <2>3. UNCHANGED <<queue, importing, undo, edits, undos, externals, crashes>>
    BY <1>3 DEF saveWrite, saveCommit, saveRecord
  <2> QED
    BY <2>1, <2>2, <2>3 DEF KeptInStep, OneOutsideChange, idleSoFar
<1> QED
  BY <1>2, <1>3

\* The last save of a queue leaves in the file what memory leads to.
LEMMA FinishTogether ==
  ASSUME Together, finishProjectMutation
  PROVE  KeptInStep' /\ OneOutsideChange'
<1>1. queue \in Seq(Change) /\ queue # <<>> /\ worker = "report"
  BY DEF finishProjectMutation, Together, Books, EditsAreAccounted, TypeOK
<1>2. /\ UNCHANGED <<undo, importing, file, edits, undos, externals, crashes>>
      /\ importing = "none" /\ undo.pc = "none"
      /\ (memory' = IF saved THEN memory ELSE file) \/ unread'
      /\ saved => memory' = memory
      /\ queue' = IF saved THEN Tail(queue) ELSE <<>>
  BY <1>1 DEF finishProjectMutation, memoryAfter, Together, Books, OneAtATime, diskVars, bounds
<1>3. ~(idleSoFar /\ externals <= 1)
  BY <1>1 DEF Together, OneOutsideChange
<1>4. externals = 0 /\ queue' = <<>> => memory' = file' \/ unread'
  <2> SUFFICES ASSUME externals = 0, queue' = <<>>, saved PROVE memory = file
    BY <1>2
  <2>1. Tail(queue) = <<>>
    BY <1>2
  <2>2. Len(queue) = 1 /\ Head(queue) = queue[1]
    BY <1>1, <2>1, QueueShrinks
  <2>3. memory = queue[1].to
    BY <1>1, <2>2 DEF Together, Books, EditsAreAccounted, QueueLeadsToMemory
  <2>4. file = Head(queue).to
    BY <1>1 DEF Together, Books, SaveInProgress
  <2> QED
    BY <2>2, <2>3, <2>4
<1> QED
  BY <1>2, <1>3, <1>4 DEF KeptInStep, OneOutsideChange, Settled, idleSoFar

\* An undo whose commit fails leaves the watcher with a change to report.
LEMMA UndoTogether ==
  ASSUME Together, AutoImport,
         \/ \E root \in Roots, kind \in {"undo", "redo"} : toggleHistoryEvent(root, kind)
         \/ applyHistoryState \/ applyCommit \/ repair
  PROVE  KeptInStep' /\ OneOutsideChange'
<1>0. undos \in Nat
  BY DEF Together, Books, Counters
<1>1. CASE \E root \in Roots, kind \in {"undo", "redo"} : toggleHistoryEvent(root, kind)
  <2>1. /\ UNCHANGED <<memory, unread, queue, importing, imported, timers, open, file, noticed, externals>>
        /\ importing = "none" /\ undo.pc = "none" /\ undo'.pc = "apply" /\ undos' # 0
    BY <1>0, <1>1 DEF toggleHistoryEvent, windowFree, requireIdleProjectHistory, transitionBusy
  <2> QED
    BY <2>1 DEF Together, KeptInStep, OneOutsideChange, Settled, idleSoFar
<1>2. ASSUME applyHistoryState \/ applyCommit \/ repair PROVE OneOutsideChange'
  <2>1. undo.pc # "none" /\ UNCHANGED <<edits, undos, externals, crashes>>
    BY <1>2 DEF applyHistoryState, applyCommit, repair
  <2> QED
    BY <2>1 DEF Together, OneOutsideChange, idleSoFar
<1>a. undo \in [pc : {"none", "apply", "commit", "repair"}, root : Nat, kind : {"undo", "redo"}]
  BY DEF Together, Books, EditsAreAccounted, TypeOK
<1>3. CASE applyHistoryState
  <2>1. /\ UNCHANGED <<memory, unread, queue, importing, timers, open, log, externals>>
        /\ undo.pc = "apply" /\ open /\ importing = "none"
    BY <1>3 DEF applyHistoryState, Together, Books, OneAtATime
  <2>2. CASE undo' = [undo EXCEPT !.pc = "repair"] /\ UNCHANGED <<file, noticed>>
    <3>1. undo'.pc = "repair"
      BY <1>a, <2>2
    <3> QED
      BY <1>2, <1>3, <2>1, <2>2, <3>1 DEF Together, KeptInStep, Settled
  <2>3. CASE undo' = [undo EXCEPT !.pc = "commit"] /\ writeFile(undone)
    <3>1. undo'.pc = "commit" /\ undo'.root = undo.root
      BY <1>a, <2>3
    <3>2. undone' = undone
      BY <2>1, <3>1 DEF undone, undoEvent, applyMergePatch, Paths, Chain
    <3>3. file' = undone' /\ noticed'
      BY <2>1, <2>3, <3>2 DEF writeFile
    <3> QED
      BY <1>2, <1>3, <2>1, <3>1, <3>3 DEF KeptInStep
  <2> QED
    BY <1>3, <2>2, <2>3 DEF applyHistoryState
<1>4. CASE applyCommit
  <2>1. /\ UNCHANGED <<queue, importing, file, noticed, externals>>
        /\ undo.pc = "commit" /\ importing = "none"
    BY <1>4 DEF applyCommit, Together, Books, OneAtATime
  <2>2. CASE memory' = undone /\ undo' = NoUndo
    BY <1>2, <1>4, <2>1, <2>2 DEF Together, KeptInStep, Settled, NoUndo
  <2>3. CASE undo' = [undo EXCEPT !.pc = "repair"]
    <3>1. undo'.pc = "repair"
      BY <1>a, <2>3
    <3> QED
      BY <1>2, <1>4, <2>1, <3>1 DEF Together, KeptInStep, Settled
  <2> QED
    BY <1>4, <2>2, <2>3 DEF applyCommit
<1>5. CASE repair
  <2>1. /\ UNCHANGED <<memory, unread, queue, importing, imported, timers, open, file, noticed, externals>>
        /\ undo.pc = "repair" /\ undo'.pc = "none"
    BY <1>5 DEF repair, NoUndo
  <2> QED
    BY <1>2, <1>5, <2>1 DEF Together, KeptInStep, Settled
<1> QED
  BY <1>1, <1>3, <1>4, <1>5

LEMMA WatcherTogether ==
  ASSUME Together, watcherReports \/ watcherTimer \/ importLoad \/ importDeliver \/ importFails \/ openProject \/ crash
  PROVE  KeptInStep' /\ OneOutsideChange'
<1>1. timers \in Nat /\ crashes \in Nat /\ externals \in Nat /\ (worker = "none") = (queue = <<>>)
  BY DEF Together, Books, EditsAreAccounted, TypeOK, Counters
<1>2. CASE watcherReports
  <2>1. /\ UNCHANGED <<memory, unread, queue, undo, importing, imported, open, file, edits, undos, externals, crashes>>
        /\ undo.pc = "none" /\ noticed /\ timers' > 0
    BY <1>1, <1>2 DEF watcherReports, windowFree, bounds
  <2> QED
    BY <2>1 DEF Together, KeptInStep, OneOutsideChange, Settled, idleSoFar
<1>3. CASE watcherTimer
  <2>1. /\ UNCHANGED <<memory, unread, queue, undo, imported, open, file, noticed, edits, undos, externals, crashes>>
        /\ undo.pc = "none" /\ timers > 0
    BY <1>3 DEF watcherTimer, windowFree, diskVars, bounds
  <2>2. CASE requireIdleProjectHistory
    <3>1. importing' = "load"
      BY <1>3, <2>2 DEF watcherTimer
    <3> QED
      BY <2>1, <3>1 DEF Together, KeptInStep, OneOutsideChange, idleSoFar
  <2>3. CASE ~requireIdleProjectHistory
    <3>1. UNCHANGED importing /\ (importing # "none" \/ queue # <<>>)
      BY <1>1, <1>3, <2>3 DEF watcherTimer, requireIdleProjectHistory, transitionBusy, mutationBusy
    <3> QED
      BY <2>1, <3>1 DEF Together, KeptInStep, OneOutsideChange, idleSoFar
  <2> QED
    BY <2>2, <2>3
<1>4. CASE importLoad
  BY <1>4 DEF importLoad, Together, Books, OneAtATime, KeptInStep, OneOutsideChange, idleSoFar, diskVars, bounds
<1>5. CASE importDeliver
  BY <1>5 DEF importDeliver, Together, Books, OneAtATime, KeptInStep, OneOutsideChange, Settled, idleSoFar,
     diskVars, bounds
<1>6. CASE openProject
  BY <1>6 DEF openProject, Together, Books, OneAtATime, KeptInStep, OneOutsideChange, idleSoFar, diskVars, bounds
<1>7. CASE crash
  <2>1. ~open' /\ undo'.pc = "none" /\ importing' = "none" /\ crashes' # 0
    BY <1>1, <1>7 DEF crash, NoUndo
  <2> QED
    BY <2>1 DEF KeptInStep, OneOutsideChange, idleSoFar
<1>8. CASE importFails
  <2>1. /\ UNCHANGED <<memory, queue, undo, imported, timers, open, file, noticed, edits, undos, externals,
                       crashes>>
        /\ importing = "failed" /\ importing' = "none" /\ unread' /\ undo.pc = "none"
    BY <1>8 DEF importFails, diskVars, bounds
  <2> QED
    BY <2>1 DEF Together, KeptInStep, OneOutsideChange, Settled, idleSoFar
<1> QED
  BY <1>2, <1>3, <1>4, <1>5, <1>6, <1>7, <1>8

\* One change from outside finds the window as it was opened, and the watcher is told.
LEMMA ExternalTogether ==
  ASSUME Together, AutoImport, NEW s \in Setting, NEW v \in Value, externalEdit(s, v)
  PROVE  KeptInStep' /\ OneOutsideChange'
<1>1. /\ externals' = externals + 1 /\ externals \in Nat
      /\ UNCHANGED <<queue, undo, importing, open, edits, undos, crashes>>
      /\ noticed' = (AutoImport /\ open)
  BY DEF externalEdit, writeFile, windowVars, Together, Books, Counters
<1>2. KeptInStep'
  BY <1>1 DEF KeptInStep
<1>3. OneOutsideChange'
  <2> SUFFICES ASSUME idleSoFar, externals = 0 PROVE OneOutsideChange'
    BY <1>1 DEF OneOutsideChange, idleSoFar
  <2>1. open /\ queue = <<>> /\ undo.pc = "none" /\ importing = "none"
    BY DEF Together, OneOutsideChange
  <2>2. noticed'
    BY <1>1, <2>1, Zenon
  <2>3. importing' = "none" /\ externals' = 1 /\ open' /\ queue' = <<>> /\ undo'.pc = "none"
    BY <1>1, <2>1
  <2> QED
    BY <2>2, <2>3 DEF OneOutsideChange, Settled
<1> QED
  BY <1>2, <1>3

LEMMA NextTogether ==
  ASSUME Together, AutoImport, [Next]_vars
  PROVE  Together'
<1>1. Books'
  BY NextBooks DEF Together
<1>2. KeptInStep' /\ OneOutsideChange'
  <2>1. CASE WindowNext
    BY <2>1, EditsTogether, FinishTogether, UndoTogether, WatcherTogether DEF WindowNext
  <2>2. CASE UNCHANGED vars
    BY <2>2 DEF vars, windowVars, diskVars, bounds, Together, KeptInStep, OneOutsideChange, Settled, idleSoFar,
       undone, undoEvent, applyMergePatch, Paths, Chain
  <2> QED
    BY <2>1, <2>2, EditsTogether, ExternalTogether, UndoTogether, WatcherTogether DEF Next
<1> QED
  BY <1>1, <1>2 DEF Together

\* Where outside changes are imported, a window with nothing in progress shows what
\* project.json holds, after any edits, failed saves, failed undos and restarts, and after
\* one change from outside while it was idle, unless the file could not be read when a
\* failed save or an import asked for it, and has been neither read nor saved since.
THEOREM Persisted ==
  ASSUME AutoImport
  PROVE  Spec => []QuietIsPersisted
<1>1. Together => QuietIsPersisted
  BY DEF Together, KeptInStep, OneOutsideChange, Settled, QuietIsPersisted, quiet, NoUndo
<1>2. Init => Together
  BY InitTogether
<1>3. Together /\ [Next]_vars => Together'
  BY NextTogether
<1> QED
  BY <1>1, <1>2, <1>3, PTL DEF Spec

-----------------------------------------------------------------------------
(* What the history explains.                                               *)

\* Nothing has failed and nobody else has touched the project.
undisturbed == externals = 0 /\ faults = 0 /\ undoFaults = 0 /\ crashes = 0

\* The actions of a history l that change s, the events of a chain, and whether their
\* number is odd: then the chain's action is in effect.
On(l, s) == {i \in DOMAIN l : l[i].kind = "action" /\ l[i].from[s] # l[i].to[s]}
ChainIn(l, r) == {i \in DOMAIN l : l[i].root = r}
Odd(l, r) == Cardinality(ChainIn(l, r)) % 2 = 1

\* The last event of a chain says what its action says, or the opposite when the
\* action is not in effect.
tailOf(l, r) == l[LastOf(ChainIn(l, r))]
agrees(l, i) ==
  LET tail == tailOf(l, i)
  IN  IF Odd(l, i) THEN tail.from = l[i].from /\ tail.to = l[i].to
      ELSE tail.from = l[i].to /\ tail.to = l[i].from

\* An action begins its chain, and every chain agrees with its action.
Chained(l) ==
  \A i \in DOMAIN l :
    /\ l[i].root \in 1 .. i
    /\ l[i].kind = "action" <=> l[i].root = i
    /\ l[l[i].root].kind = "action"
    /\ l[i].kind = "action" => agrees(l, i)

\* No action on s sets it to its first value or to one another action sets it to.
Unreturned(l, s) ==
  \A i \in On(l, s) : /\ l[i].to[s] # Default
                      /\ \A j \in On(l, s) : l[i].to[s] = l[j].to[s] => i = j

\* The value the actions E leave s at: the last of them is in force.
Left(l, E, s) == IF E = {} THEN Default ELSE l[LastOf(E)].to[s]

\* The actions E leave s at v; each of them found what those before it left; and
\* each action of the history found a value that an action before it had set.
Explains(l, E, s, v) ==
  Unreturned(l, s) =>
    /\ v = Left(l, E, s)
    /\ \A i \in E : l[i].from[s] = Left(l, {j \in E : j < i}, s)
    /\ \A i \in On(l, s) : \/ l[i].from[s] = Default
                           \/ \E k \in On(l, s) : k < i /\ l[k].to[s] = l[i].from[s]

\* The actions in effect before the undo or redo in progress, which has recorded
\* its event first.
inEffect(s) ==
  {i \in On(log, s) : IF undo.pc # "none" /\ i = undo.root THEN undo.kind = "undo" ELSE Odd(log, i)}

\* The project as far as the history has it: without the edits that are queued.
recordedProject ==
  IF queue = <<>> THEN memory
  ELSE IF worker = "report" THEN Head(queue).to ELSE Head(queue).from

\* A save that has its commit will be reported so, nothing in progress leaves the file
\* and memory apart, and what an undo has written is what it will adopt.
Settling ==
  /\ open
  /\ worker \in {"record", "report"} => saved
  /\ worker = "none" /\ undo.pc # "commit" => file = memory
  /\ undo.pc = "commit" => file = undone /\ unconflicted(memory, undoEvent)
  /\ importing = "deliver" => imported = file

\* An undo in progress has recorded its event: its action counts as undone already, or
\* as done again.
Undoing ==
  undo.pc # "none" =>
    /\ undo.root \in DOMAIN log /\ log[undo.root].kind = "action"
    /\ Odd(log, undo.root) <=> undo.kind = "redo"

Explained == \A s \in Setting : Explains(log, inEffect(s), s, recordedProject[s])

Troubles == faults \in Nat /\ undoFaults \in Nat

Ledger ==
  /\ Troubles
  /\ undisturbed => Settling /\ Undoing /\ Chained(log) /\ Explained

LEMMA Parity ==
  ASSUME NEW n \in Nat
  PROVE  (n + 1) % 2 = 1 <=> n % 2 # 1
OBVIOUS

\* An event flips its own chain and no other.
LEMMA Flips ==
  ASSUME NEW l \in Seq(Event), NEW e \in Event, NEW r
  PROVE  /\ ChainIn(Append(l, e), r) = IF e.root = r THEN ChainIn(l, r) \cup {Len(l) + 1} ELSE ChainIn(l, r)
         /\ Odd(Append(l, e), r) <=> IF e.root = r THEN ~Odd(l, r) ELSE Odd(l, r)
<1> DEFINE n == Len(l) + 1  C == ChainIn(l, r)
<1>1. /\ n \in Nat /\ n \notin C /\ C \subseteq 1 .. Len(l) /\ Len(l) \in Nat
      /\ DOMAIN Append(l, e) = DOMAIN l \cup {n} /\ Append(l, e)[n] = e
      /\ \A i \in DOMAIN l : Append(l, e)[i] = l[i] /\ i # n
  BY DEF ChainIn
<1>2. ChainIn(Append(l, e), r) = IF e.root = r THEN C \cup {n} ELSE C
  BY <1>1 DEF ChainIn
<1>3. IsFiniteSet(C)
  <2> HIDE DEF C
  <2>1. IsFiniteSet(1 .. Len(l)) /\ C \in SUBSET (1 .. Len(l))
    BY <1>1, FS_Interval
  <2> QED
    BY <2>1, FS_Subset
<1>4. Cardinality(C) \in Nat /\ Cardinality(C \cup {n}) = Cardinality(C) + 1
  BY <1>1, <1>3, FS_CardinalityType, FS_AddElement
<1>5. (Cardinality(C) + 1) % 2 = 1 <=> Cardinality(C) % 2 # 1
  BY <1>4, Parity
<1> QED
  BY <1>2, <1>4, <1>5 DEF Odd

LEMMA Appended ==
  ASSUME NEW l \in Seq(Event), NEW e \in Event
  PROVE  /\ Append(l, e) \in Seq(Event) /\ Len(l) \in Nat
         /\ DOMAIN l = 1 .. Len(l)
         /\ DOMAIN Append(l, e) = 1 .. Len(l) + 1
         /\ Append(l, e)[Len(l) + 1] = e
         /\ \A i \in DOMAIN l : Append(l, e)[i] = l[i] /\ i \in 1 .. Len(l) /\ i # Len(l) + 1
OBVIOUS

\* The greatest of some events of a history is one of them.
LEMMA LastOfSome ==
  ASSUME NEW l \in Seq(Event), NEW E \in SUBSET (DOMAIN l), E # {}
  PROVE  LastOf(E) \in E /\ \A j \in E : j <= LastOf(E)
<1>1. Len(l) \in Nat /\ DOMAIN l = 1 .. Len(l)
  OBVIOUS
<1> QED
  BY <1>1, Greatest

LEMMA LastOfSomeIs ==
  ASSUME NEW l \in Seq(Event), NEW E \in SUBSET (DOMAIN l), NEW i \in E, \A j \in E : j <= i
  PROVE  LastOf(E) = i
<1>1. Len(l) \in Nat /\ DOMAIN l = 1 .. Len(l)
  OBVIOUS
<1> QED
  BY <1>1, GreatestIs

\* An event of another chain leaves a chain with its tail.
LEMMA OtherChain ==
  ASSUME NEW l \in Seq(Event), NEW e \in Event, NEW r \in DOMAIN l, e.root # r,
         r \in ChainIn(l, r), agrees(l, r)
  PROVE  agrees(Append(l, e), r)
<1>1. ChainIn(Append(l, e), r) = ChainIn(l, r) /\ (Odd(Append(l, e), r) <=> Odd(l, r))
  BY Flips
<1>2. LastOf(ChainIn(l, r)) \in DOMAIN l
  BY LastOfSome DEF ChainIn
<1>3. \A i \in DOMAIN l : Append(l, e)[i] = l[i]
  BY Appended
<1>4. tailOf(Append(l, e), r) = tailOf(l, r) /\ Append(l, e)[r] = l[r]
  BY <1>1, <1>2, <1>3 DEF tailOf
<1> QED
  BY <1>1, <1>4 DEF agrees

LEMMA ActionChained ==
  ASSUME NEW l \in Seq(Event), NEW e \in Event, Chained(l), e.kind = "action", e.root = Len(l) + 1
  PROVE  /\ Chained(Append(l, e)) /\ Odd(Append(l, e), Len(l) + 1)
         /\ \A i \in DOMAIN l : Odd(Append(l, e), i) <=> Odd(l, i)
<1> DEFINE n == Len(l) + 1  m == Append(l, e)
<1>1. /\ Len(l) \in Nat /\ DOMAIN l = 1 .. Len(l) /\ DOMAIN m = 1 .. n /\ m[n] = e /\ m \in Seq(Event)
      /\ \A i \in DOMAIN l : m[i] = l[i] /\ i \in 1 .. Len(l) /\ i # n
  BY Appended
<1>2. \A i \in DOMAIN l : Odd(m, i) <=> Odd(l, i)
  BY <1>1, Flips
<1>3. ChainIn(l, n) = {}
  BY <1>1 DEF Chained, ChainIn
<1>4. ~Odd(l, n)
  <2>1. Cardinality(ChainIn(l, n)) = 0
    BY <1>3, FS_EmptySet
  <2> QED
    BY <2>1 DEF Odd
<1>5. ChainIn(m, n) = {n} /\ Odd(m, n)
  BY <1>3, <1>4, Flips
<1>6. agrees(m, n)
  <2>1. {n} \in SUBSET (DOMAIN m) /\ n \in {n} /\ \A j \in {n} : j <= n
    BY <1>1
  <2>2. LastOf({n}) = n
    <3> HIDE DEF n, m
    <3> QED
      BY <1>1, <2>1, LastOfSomeIs
  <2> QED
    BY <1>1, <1>5, <2>2 DEF agrees, tailOf
<1>7. ASSUME NEW i \in DOMAIN m
      PROVE  /\ m[i].root \in 1 .. i
             /\ m[i].kind = "action" <=> m[i].root = i
             /\ m[m[i].root].kind = "action"
             /\ m[i].kind = "action" => agrees(m, i)
  <2>1. CASE i = n
    BY <1>1, <1>6, <2>1
  <2>2. CASE i # n
    <3>1. i \in DOMAIN l /\ m[i] = l[i]
      BY <1>1, <1>7, <2>2
    <3>2. /\ l[i].root \in 1 .. i
          /\ l[i].kind = "action" <=> l[i].root = i
          /\ l[l[i].root].kind = "action"
          /\ l[i].kind = "action" => agrees(l, i)
      BY <3>1 DEF Chained
    <3>3. l[i].root \in DOMAIN l
      BY <1>1, <3>1, <3>2
    <3>4. m[l[i].root] = l[l[i].root]
      BY <1>1, <3>3
    <3>5. ASSUME l[i].kind = "action" PROVE agrees(m, i)
      <4>1. i \in ChainIn(l, i) /\ e.root # i
        BY <1>1, <3>1, <3>2, <3>5 DEF ChainIn
      <4> QED
        BY <3>1, <3>2, <3>5, <4>1, OtherChain
    <3> QED
      BY <3>1, <3>2, <3>4, <3>5
  <2> QED
    BY <2>1, <2>2
<1> QED
  BY <1>2, <1>5, <1>7 DEF Chained

LEMMA CompensationChained ==
  ASSUME NEW l \in Seq(Event), NEW e \in Event, Chained(l), e.kind # "action", e.root \in DOMAIN l,
         l[e.root].kind = "action", e.from = tailOf(l, e.root).to, e.to = tailOf(l, e.root).from
  PROVE  /\ Chained(Append(l, e))
         /\ \A i \in DOMAIN l : Odd(Append(l, e), i) <=> IF i = e.root THEN ~Odd(l, i) ELSE Odd(l, i)
<1> DEFINE n == Len(l) + 1  m == Append(l, e)  r == e.root
<1>1. /\ Len(l) \in Nat /\ DOMAIN l = 1 .. Len(l) /\ DOMAIN m = 1 .. n /\ m[n] = e /\ m \in Seq(Event)
      /\ \A i \in DOMAIN l : m[i] = l[i] /\ i \in 1 .. Len(l) /\ i # n
  BY Appended
<1>2. \A i \in DOMAIN l : Odd(m, i) <=> IF i = r THEN ~Odd(l, i) ELSE Odd(l, i)
  BY Flips
<1>3. ChainIn(m, r) = ChainIn(l, r) \cup {n}
  BY Flips
<1>4. LastOf(ChainIn(m, r)) = n
  <2>1. ChainIn(m, r) \in SUBSET (DOMAIN m) /\ n \in ChainIn(m, r)
    BY <1>3 DEF ChainIn
  <2>2. \A j \in ChainIn(m, r) : j <= n
    BY <1>1, <2>1
  <2> QED
    BY <1>1, <2>1, <2>2, LastOfSomeIs
<1>5. agrees(m, r)
  <2>1. agrees(l, r) /\ m[r] = l[r] /\ tailOf(m, r) = e
    BY <1>1, <1>4 DEF Chained, tailOf
  <2>2. Odd(m, r) <=> ~Odd(l, r)
    BY <1>2
  <2> QED
    BY <2>1, <2>2 DEF agrees
<1>6. ASSUME NEW i \in DOMAIN m
      PROVE  /\ m[i].root \in 1 .. i
             /\ m[i].kind = "action" <=> m[i].root = i
             /\ m[m[i].root].kind = "action"
             /\ m[i].kind = "action" => agrees(m, i)
  <2>1. CASE i = n
    <3>1. r \in 1 .. Len(l) /\ m[r] = l[r] /\ m[i] = e
      BY <1>1, <2>1
    <3>2. r \in 1 .. n /\ r # n
      BY <1>1, <3>1
    <3> QED
      BY <2>1, <3>1, <3>2
  <2>2. CASE i # n
    <3>1. i \in DOMAIN l /\ m[i] = l[i]
      BY <1>1, <1>6, <2>2
    <3>2. /\ l[i].root \in 1 .. i
          /\ l[i].kind = "action" <=> l[i].root = i
          /\ l[l[i].root].kind = "action"
          /\ l[i].kind = "action" => agrees(l, i)
      BY <3>1 DEF Chained
    <3>3. l[i].root \in DOMAIN l
      BY <1>1, <3>1, <3>2
    <3>4. m[l[i].root] = l[l[i].root]
      BY <1>1, <3>3
    <3>5. ASSUME l[i].kind = "action" PROVE agrees(m, i)
      <4>1. i \in ChainIn(l, i)
        BY <3>1, <3>2, <3>5 DEF ChainIn
      <4>2. CASE i = r
        BY <1>5, <4>2
      <4>3. CASE i # r
        BY <3>1, <3>2, <3>5, <4>1, <4>3, OtherChain
      <4> QED
        BY <4>2, <4>3
    <3> QED
      BY <3>1, <3>2, <3>4, <3>5
  <2> QED
    BY <2>1, <2>2
<1> QED
  BY <1>2, <1>6 DEF Chained

\* An undo of the last action that explains a value: those before it explain the
\* value it found.
LEMMA Undone ==
  ASSUME NEW l \in Seq(Event), NEW s \in Setting, NEW v, NEW E \in SUBSET On(l, s),
         Explains(l, E, s, v), NEW r \in E, v = l[r].to[s]
  PROVE  Explains(l, E \ {r}, s, l[r].from[s])
<1> SUFFICES ASSUME Unreturned(l, s)
             PROVE  /\ l[r].from[s] = Left(l, E \ {r}, s)
                    /\ \A i \in E \ {r} : l[i].from[s] = Left(l, {j \in E \ {r} : j < i}, s)
                    /\ \A i \in On(l, s) : \/ l[i].from[s] = Default
                                           \/ \E k \in On(l, s) : k < i /\ l[k].to[s] = l[i].from[s]
  BY DEF Explains
<1>1. E \in SUBSET (DOMAIN l) /\ DOMAIN l = 1 .. Len(l) /\ Len(l) \in Nat
  BY DEF On
<1>2. LastOf(E) \in E /\ \A j \in E : j <= LastOf(E)
  BY <1>1, LastOfSome
<1>3. LastOf(E) = r
  BY <1>2 DEF Explains, Left, Unreturned
<1>4. \A i \in E \ {r} : i < r
  BY <1>1, <1>2, <1>3
<1>5. {j \in E : j < r} = E \ {r}
  BY <1>1, <1>4
<1>6. ASSUME NEW i \in E \ {r} PROVE {j \in E \ {r} : j < i} = {j \in E : j < i}
  BY <1>1, <1>4
<1> QED
  BY <1>5, <1>6 DEF Explains

\* A redo on top of a value the action once found: the action is the last again, for
\* what it found was set before it.
LEMMA Redone ==
  ASSUME NEW l \in Seq(Event), NEW s \in Setting, NEW v, NEW E \in SUBSET On(l, s),
         Explains(l, E, s, v), NEW r \in On(l, s) \ E, v = l[r].from[s]
  PROVE  Explains(l, E \cup {r}, s, l[r].to[s])
<1> DEFINE F == E \cup {r}
<1> SUFFICES ASSUME Unreturned(l, s)
             PROVE  /\ l[r].to[s] = Left(l, F, s)
                    /\ \A i \in F : l[i].from[s] = Left(l, {j \in F : j < i}, s)
                    /\ \A i \in On(l, s) : \/ l[i].from[s] = Default
                                           \/ \E k \in On(l, s) : k < i /\ l[k].to[s] = l[i].from[s]
  BY DEF Explains
<1>1. E \in SUBSET (DOMAIN l) /\ F \in SUBSET (DOMAIN l) /\ DOMAIN l = 1 .. Len(l) /\ Len(l) \in Nat
  BY DEF On
<1>2. \A j \in E : j < r
  <2> SUFFICES ASSUME NEW j \in E PROVE j < r
    OBVIOUS
  <2>1. LastOf(E) \in E /\ \A i \in E : i <= LastOf(E)
    BY <1>1, LastOfSome
  <2>2. v = l[LastOf(E)].to[s] /\ v # Default
    BY <2>1 DEF Explains, Left, Unreturned
  <2>3. PICK k \in On(l, s) : k < r /\ l[k].to[s] = v
    BY <2>2 DEF Explains
  <2>4. k = LastOf(E)
    BY <2>1, <2>2, <2>3 DEF Unreturned
  <2> QED
    BY <1>1, <2>1, <2>3, <2>4
<1>3. LastOf(F) = r
  <2>1. r \in F /\ \A j \in F : j <= r
    BY <1>1, <1>2
  <2> HIDE DEF F
  <2> QED
    BY <1>1, <2>1, LastOfSomeIs
<1>4. {j \in F : j < r} = E
  BY <1>1, <1>2
<1>5. ASSUME NEW i \in E PROVE {j \in F : j < i} = {j \in E : j < i}
  BY <1>1, <1>2
<1>6. l[r].to[s] = Left(l, F, s) /\ l[r].from[s] = Left(l, E, s)
  BY <1>3 DEF Left, Explains
<1>7. \A i \in F : l[i].from[s] = Left(l, {j \in F : j < i}, s)
  <2> SUFFICES ASSUME NEW i \in F PROVE l[i].from[s] = Left(l, {j \in F : j < i}, s)
    OBVIOUS
  <2>1. CASE i = r
    BY <1>4, <1>6, <2>1
  <2>2. CASE i # r
    <3>1. i \in E
      BY <2>2
    <3>2. l[i].from[s] = Left(l, {j \in E : j < i}, s)
      BY <3>1 DEF Explains
    <3> QED
      BY <1>5, <3>1, <3>2
  <2> QED
    BY <2>1, <2>2
<1> QED
  BY <1>6, <1>7 DEF Explains

\* The same events leave the same value in a longer history.
LEMMA LeftStays ==
  ASSUME NEW l \in Seq(Event), NEW e \in Event, NEW s \in Setting, NEW E \in SUBSET (DOMAIN l)
  PROVE  Left(Append(l, e), E, s) = Left(l, E, s)
<1>1. CASE E = {}
  BY <1>1 DEF Left
<1>2. CASE E # {}
  <2>1. LastOf(E) \in DOMAIN l
    BY <1>2, LastOfSome
  <2>2. Append(l, e)[LastOf(E)] = l[LastOf(E)]
    BY <2>1, Appended
  <2> QED
    BY <1>2, <2>2 DEF Left
<1> QED
  BY <1>1, <1>2

LEMMA OnAppended ==
  ASSUME NEW l \in Seq(Event), NEW e \in Event, NEW s \in Setting
  PROVE  On(Append(l, e), s) = IF e.kind = "action" /\ e.from[s] # e.to[s]
                               THEN On(l, s) \cup {Len(l) + 1} ELSE On(l, s)
<1> DEFINE n == Len(l) + 1  m == Append(l, e)
<1>1. /\ DOMAIN m = DOMAIN l \cup {n} /\ m[n] = e /\ n \notin DOMAIN l
      /\ \A i \in DOMAIN l : m[i] = l[i]
  OBVIOUS
<1> HIDE DEF n, m
<1>2. On(m, s) = {i \in DOMAIN l : m[i].kind = "action" /\ m[i].from[s] # m[i].to[s]}
                   \cup {i \in {n} : e.kind = "action" /\ e.from[s] # e.to[s]}
  BY <1>1 DEF On
<1>3. {i \in DOMAIN l : m[i].kind = "action" /\ m[i].from[s] # m[i].to[s]} = On(l, s)
  BY <1>1 DEF On
<1> QED
  BY <1>2, <1>3 DEF n, m

\* Events that are no actions, or not on the setting, change nothing of it.
LEMMA OthersExplain ==
  ASSUME NEW l \in Seq(Event), NEW e \in Event, NEW s \in Setting, NEW v, NEW E \in SUBSET On(l, s),
         Explains(l, E, s, v), ~(e.kind = "action" /\ e.from[s] # e.to[s])
  PROVE  Explains(Append(l, e), E, s, v)
<1> DEFINE m == Append(l, e)
<1>1. On(m, s) = On(l, s) /\ On(l, s) \subseteq DOMAIN l
  BY OnAppended DEF On
<1>2. \A i \in On(l, s) : m[i] = l[i]
  BY <1>1, Appended
<1>3. Unreturned(m, s) => Unreturned(l, s)
  BY <1>1, <1>2 DEF Unreturned
<1>4. Left(m, E, s) = Left(l, E, s) /\ \A i \in E : Left(m, {j \in E : j < i}, s) = Left(l, {j \in E : j < i}, s)
  BY <1>1, LeftStays
<1> HIDE DEF m
<1>5. ASSUME Unreturned(m, s)
      PROVE  /\ v = Left(m, E, s)
             /\ \A i \in E : m[i].from[s] = Left(m, {j \in E : j < i}, s)
             /\ \A i \in On(m, s) : \/ m[i].from[s] = Default
                                    \/ \E k \in On(m, s) : k < i /\ m[k].to[s] = m[i].from[s]
  <2>1. /\ v = Left(l, E, s)
        /\ \A i \in E : l[i].from[s] = Left(l, {j \in E : j < i}, s)
        /\ \A i \in On(l, s) : \/ l[i].from[s] = Default
                               \/ \E k \in On(l, s) : k < i /\ l[k].to[s] = l[i].from[s]
    BY <1>3, <1>5 DEF Explains
  <2>2. \A i \in On(m, s) : \/ m[i].from[s] = Default
                            \/ \E k \in On(m, s) : k < i /\ m[k].to[s] = m[i].from[s]
    BY <1>1, <1>2, <2>1
  <2> QED
    BY <1>1, <1>2, <1>4, <2>1, <2>2
<1> QED
  BY <1>5 DEF Explains, m

\* A new action explains what it sets, on top of what it found.
LEMMA ActionExplains ==
  ASSUME NEW l \in Seq(Event), NEW e \in Event, NEW s \in Setting, NEW E \in SUBSET On(l, s),
         Explains(l, E, s, e.from[s]), e.kind = "action"
  PROVE  Explains(Append(l, e), IF e.from[s] # e.to[s] THEN E \cup {Len(l) + 1} ELSE E, s, e.to[s])
<1> DEFINE m == Append(l, e)  n == Len(l) + 1  F == E \cup {n}
<1>1. CASE e.from[s] = e.to[s]
  BY <1>1, OthersExplain
<1>2. CASE e.from[s] # e.to[s]
  <2>1. On(m, s) = On(l, s) \cup {n} /\ On(l, s) \subseteq DOMAIN l
    BY <1>2, OnAppended DEF On
  <2>2. /\ m \in Seq(Event) /\ m[n] = e /\ Len(l) \in Nat /\ DOMAIN l = 1 .. Len(l) /\ DOMAIN m = 1 .. n
        /\ \A i \in DOMAIN l : m[i] = l[i]
    BY Appended
  <2>3. \A i \in DOMAIN l : i < n
    BY <2>2
  <2>4. \A i \in On(l, s) : m[i] = l[i] /\ i < n
    BY <2>1, <2>2, <2>3
  <2>5. Unreturned(m, s) => Unreturned(l, s)
    <3> HIDE DEF m, n
    <3> QED
      BY <2>1, <2>4 DEF Unreturned
  <2>6. E \in SUBSET (DOMAIN l) /\ F \in SUBSET (DOMAIN m)
    BY <2>1, <2>2
  <2>7. Left(m, F, s) = e.to[s]
    <3>1. n \in F /\ \A j \in F : j <= n
      BY <2>2, <2>3, <2>6
    <3>2. LastOf(F) = n
      <4> HIDE DEF F, n, m
      <4> QED
        BY <2>2, <2>6, <3>1, LastOfSomeIs
    <3> QED
      BY <2>2, <3>1, <3>2 DEF Left
  <2>8. {j \in F : j < n} = E /\ \A i \in E : {j \in F : j < i} = {j \in E : j < i}
    BY <2>2, <2>3, <2>6
  <2>9. Left(m, E, s) = Left(l, E, s) /\ \A i \in E : Left(m, {j \in E : j < i}, s) = Left(l, {j \in E : j < i}, s)
    BY <2>6, LeftStays
  <2>10. ASSUME Unreturned(m, s)
         PROVE  /\ e.to[s] = Left(m, F, s)
                /\ \A i \in F : m[i].from[s] = Left(m, {j \in F : j < i}, s)
                /\ \A i \in On(m, s) : \/ m[i].from[s] = Default
                                       \/ \E k \in On(m, s) : k < i /\ m[k].to[s] = m[i].from[s]
    <3>1. /\ e.from[s] = Left(l, E, s)
          /\ \A i \in E : l[i].from[s] = Left(l, {j \in E : j < i}, s)
          /\ \A i \in On(l, s) : \/ l[i].from[s] = Default
                                 \/ \E k \in On(l, s) : k < i /\ l[k].to[s] = l[i].from[s]
      BY <2>5, <2>10 DEF Explains
    <3>2. \A i \in F : m[i].from[s] = Left(m, {j \in F : j < i}, s)
      <4> SUFFICES ASSUME NEW i \in F PROVE m[i].from[s] = Left(m, {j \in F : j < i}, s)
        OBVIOUS
      <4>1. CASE i = n
        BY <2>2, <2>8, <2>9, <3>1, <4>1
      <4>2. CASE i # n
        <5>1. i \in E /\ m[i] = l[i]
          BY <2>2, <2>6, <4>2
        <5> HIDE DEF m, F, n
        <5> QED
          BY <2>8, <2>9, <3>1, <5>1
      <4> QED
        BY <4>1, <4>2
    <3>3. e.from[s] = Default \/ \E k \in On(l, s) : l[k].to[s] = e.from[s]
      <4>1. CASE E = {}
        BY <3>1, <4>1 DEF Left
      <4>2. CASE E # {}
        <5>1. LastOf(E) \in E
          BY <2>6, <4>2, LastOfSome
        <5> QED
          BY <3>1, <4>2, <5>1 DEF Left
      <4> QED
        BY <4>1, <4>2
    <3>4. ASSUME NEW i \in On(m, s)
          PROVE  \/ m[i].from[s] = Default
                 \/ \E k \in On(m, s) : k < i /\ m[k].to[s] = m[i].from[s]
      <4> HIDE DEF m, n
      <4>1. CASE i = n
        BY <2>1, <2>2, <2>4, <3>3, <4>1
      <4>2. CASE i # n
        BY <2>1, <2>4, <3>1, <3>4, <4>2
      <4> QED
        BY <4>1, <4>2
    <3> QED
      BY <2>7, <3>2, <3>4
  <2> QED
    BY <1>2, <2>10 DEF Explains
<1> QED
  BY <1>1, <1>2

-----------------------------------------------------------------------------
(* The ledger, one step at a time.                                          *)

LEMMA InitLedger == Init => Ledger
<1> SUFFICES ASSUME Init PROVE Ledger
  OBVIOUS
<1>1. Settling /\ Undoing /\ Troubles
  BY DEF Init, Settling, Undoing, NoUndo, Troubles
<1>2. log = <<>> /\ queue = <<>> /\ memory = NewProject /\ DOMAIN log = {}
  BY DEF Init
<1>3. Chained(log)
  BY <1>2 DEF Chained
<1>4. ASSUME NEW s \in Setting PROVE Explains(log, inEffect(s), s, recordedProject[s])
  <2>1. On(log, s) = {} /\ inEffect(s) = {}
    BY <1>2 DEF On, inEffect
  <2>2. recordedProject[s] = Default
    BY <1>2 DEF recordedProject, NewProject
  <2> QED
    BY <2>1, <2>2 DEF Explains, Left
<1> QED
  BY <1>1, <1>3, <1>4 DEF Ledger, Explained

\* What a step undoes nothing of and records nothing in stays explained.
LEMMA LedgerStays ==
  ASSUME Ledger, Troubles', UNCHANGED <<log, undo>>, recordedProject' = recordedProject,
         undisturbed' => undisturbed /\ Settling'
  PROVE  Ledger'
<1>1. ASSUME undisturbed' PROVE Settling' /\ Undoing' /\ Chained(log)' /\ Explained'
  <2>1. Settling' /\ Undoing /\ Chained(log) /\ Explained
    BY <1>1 DEF Ledger
  <2>2. Undoing' /\ Chained(log)'
    BY <2>1 DEF Undoing
  <2>3. \A s \in Setting : inEffect(s)' = inEffect(s)
    BY DEF inEffect
  <2>4. Explained'
    BY <2>1, <2>3 DEF Explained
  <2> QED
    BY <2>1, <2>2, <2>4
<1> QED
  BY <1>1 DEF Ledger

\* Without trouble before a step there was none, and the step is none.
LEMMA CountersGrow ==
  ASSUME Books, Troubles,
         faults' \in {faults, faults + 1}, undoFaults' \in {undoFaults, undoFaults + 1},
         externals' \in {externals, externals + 1}, crashes' \in {crashes, crashes + 1}
  PROVE  /\ Troubles'
         /\ undisturbed' => undisturbed /\ UNCHANGED <<faults, undoFaults, externals, crashes>>
<1>1. faults \in Nat /\ undoFaults \in Nat /\ externals \in Nat /\ crashes \in Nat
  BY DEF Books, Counters, Troubles
<1>2. Troubles'
  BY <1>1 DEF Troubles
<1>3. ASSUME undisturbed' PROVE undisturbed /\ UNCHANGED <<faults, undoFaults, externals, crashes>>
  BY <1>1, <1>3 DEF undisturbed
<1> QED
  BY <1>2, <1>3

LEMMA MutateLedger ==
  ASSUME Books, Ledger, NEW s \in Setting, NEW v \in Value, mutateProject(s, v)
  PROVE  Ledger'
<1> USE DEF Books, EditsAreAccounted
<1> DEFINE d == [from |-> memory, to |-> [memory EXCEPT ![s] = v]]
<1>1. /\ queue' = Append(queue, d) /\ d.from = memory
      /\ worker' = (IF worker = "none" THEN "write" ELSE worker)
      /\ UNCHANGED <<saved, undo, importing, imported, open, file, log, externals, faults, undoFaults, crashes>>
      /\ undo.pc = "none" /\ importing = "none"
  BY DEF mutateProject, mutationBusy, windowFree, transitionBusy, diskVars
<1>2. [memory EXCEPT ![s] = v] \in Project /\ d \in Change
  BY DEF TypeOK, Project, Change
<1> HIDE DEF d
<1>3. /\ queue \in Seq(Change) /\ (worker = "none") = (queue = <<>>)
  BY DEF TypeOK
<1>4. /\ queue' # <<>>
      /\ queue # <<>> => Head(queue') = Head(queue)
      /\ queue = <<>> => Head(queue') = d
  BY <1>1, <1>2, <1>3, QueueGrows
<1>5. recordedProject' = recordedProject
  BY <1>1, <1>3, <1>4 DEF recordedProject
<1>6. Troubles' /\ (undisturbed' <=> undisturbed)
  BY <1>1 DEF Ledger, Troubles, undisturbed
<1>7. undisturbed => Settling'
  BY <1>1, <1>3 DEF Ledger, Settling
<1> QED
  BY <1>1, <1>5, <1>6, <1>7, LedgerStays

LEMMA SaveLedger ==
  ASSUME Books, Ledger, saveWrite \/ saveCommit
  PROVE  Ledger'
<1> USE DEF Books, EditsAreAccounted
<1>1. /\ queue # <<>> /\ worker \in {"write", "commit"} /\ importing = "none" /\ undo.pc = "none" /\ open
      /\ UNCHANGED <<memory, queue, undo, importing, imported, open, log, externals, undoFaults, crashes>>
      /\ faults' \in {faults, faults + 1}
  BY DEF saveWrite, saveCommit, TypeOK, OneAtATime, fault
<1>2. Troubles' /\ (undisturbed' => undisturbed /\ faults' = faults)
  BY <1>1, CountersGrow DEF Ledger
<1>3. faults' = faults => worker' \in {"commit", "record"} /\ (worker' = "record" => saved')
  BY <1>2 DEF saveWrite, saveCommit, fault, Troubles, Ledger
<1>4. worker' \in {"commit", "record", "report"} /\ worker # "report"
  BY DEF saveWrite, saveCommit
<1>5. undisturbed' => recordedProject' = recordedProject /\ Settling'
  BY <1>1, <1>2, <1>3, <1>4 DEF recordedProject, Settling
<1>6. CASE undisturbed'
  BY <1>1, <1>2, <1>5, <1>6, LedgerStays
<1>7. CASE ~undisturbed'
  BY <1>2, <1>7 DEF Ledger
<1> QED
  BY <1>6, <1>7

LEMMA FinishLedger ==
  ASSUME Books, Ledger, finishProjectMutation
  PROVE  Ledger'
<1> USE DEF Books, EditsAreAccounted
<1>1. /\ queue \in Seq(Change) /\ queue # <<>> /\ worker = "report" /\ undo.pc = "none" /\ importing = "none"
      /\ UNCHANGED <<saved, undo, importing, imported, open, file, log, externals, faults, undoFaults, crashes>>
      /\ queue' = (IF saved THEN Tail(queue) ELSE <<>>) /\ (saved => memory' = memory)
      /\ worker' = (IF queue' = <<>> THEN "none" ELSE "write")
  BY DEF finishProjectMutation, TypeOK, OneAtATime, windowFree, diskVars, bounds, memoryAfter, nextSave
<1>2. Troubles' /\ (undisturbed' <=> undisturbed)
  BY <1>1 DEF Ledger, Troubles, undisturbed
<1>3. CASE undisturbed
  <2>1. saved /\ open /\ externals = 0 /\ file = Head(queue).to
    BY <1>1, <1>3 DEF Ledger, Settling, SaveInProgress, undisturbed
  <2>2. queue' = Tail(queue) /\ memory' = memory
    BY <1>1, <2>1
  <2>3. /\ Len(queue) \in Nat /\ Len(queue) > 0 /\ Head(queue) = queue[1]
        /\ Len(Tail(queue)) = Len(queue) - 1 /\ (Tail(queue) = <<>> <=> Len(queue) = 1)
        /\ \A i \in 1 .. Len(Tail(queue)) : Tail(queue)[i] = queue[i + 1]
        /\ Tail(queue) \in Seq(Change)
    BY <1>1, QueueShrinks
  <2>4. CASE Tail(queue) = <<>>
    <3>1. memory = Head(queue).to
      BY <1>1, <2>3, <2>4 DEF QueueLeadsToMemory
    <3>2. recordedProject' = recordedProject /\ Settling'
      BY <1>1, <2>1, <2>2, <2>4, <3>1 DEF recordedProject, Settling
    <3> QED
      BY <1>1, <1>2, <1>3, <3>2, LedgerStays
  <2>5. CASE Tail(queue) # <<>>
    <3>1. Head(Tail(queue)) = Tail(queue)[1] /\ 1 \in 1 .. Len(Tail(queue)) /\ 1 \in 1 .. Len(queue) - 1
      BY <2>3, <2>5, EmptySeq
    <3>2. Head(Tail(queue)).from = Head(queue).to
      BY <2>3, <3>1 DEF QueueLeadsToMemory
    <3>3. recordedProject' = recordedProject /\ Settling'
      BY <1>1, <2>1, <2>2, <2>5, <3>2 DEF recordedProject, Settling
    <3> QED
      BY <1>1, <1>2, <1>3, <3>3, LedgerStays
  <2> QED
    BY <2>4, <2>5
<1>4. CASE ~undisturbed
  BY <1>2, <1>4 DEF Ledger
<1> QED
  BY <1>3, <1>4

\* An action enters the history: it found what the history explained so far.
LEMMA RecordLedger ==
  ASSUME Books, Ledger, saveRecord
  PROVE  Ledger'
<1> USE DEF Books, EditsAreAccounted
<1> DEFINE e == [root |-> Len(log) + 1, kind |-> "action", from |-> Head(queue).from, to |-> Head(queue).to]
<1>1. /\ queue \in Seq(Change) /\ queue # <<>> /\ worker = "record" /\ worker' = "report"
      /\ importing = "none" /\ undo.pc = "none" /\ open /\ log \in Seq(Event)
      /\ UNCHANGED <<memory, queue, saved, undo, importing, imported, open, file, externals, undoFaults, crashes>>
      /\ faults' \in {faults, faults + 1}
      /\ log' = Append(log, e) \/ faults' = faults + 1
  BY DEF saveRecord, TypeOK, OneAtATime, fault
<1>2. Troubles' /\ (undisturbed' => undisturbed /\ faults' = faults /\ faults \in Nat)
  BY <1>1, CountersGrow DEF Ledger, Troubles
<1>3. ASSUME undisturbed' PROVE Settling' /\ Undoing' /\ Chained(log)' /\ Explained'
  <2>1. /\ log' = Append(log, e) /\ Settling /\ Chained(log) /\ Explained
    BY <1>1, <1>2, <1>3 DEF Ledger
  <2>2. Head(queue) \in Change
    BY <1>1, QueueShrinks
  <2>3. /\ e \in Event /\ e.kind = "action" /\ e.root = Len(log) + 1
        /\ e.from = recordedProject /\ e.to = recordedProject'
    BY <1>1, <2>2 DEF Event, Change, recordedProject
  <2> HIDE DEF e
  <2>4. /\ Chained(log') /\ Odd(log', Len(log) + 1)
        /\ \A i \in DOMAIN log : Odd(log', i) <=> Odd(log, i)
    BY <1>1, <2>1, <2>3, ActionChained
  <2>5. Settling' /\ Undoing'
    BY <1>1, <2>1 DEF Settling, Undoing
  <2>6. ASSUME NEW s \in Setting
        PROVE  Explains(log', inEffect(s)', s, recordedProject'[s])
    <3>1. inEffect(s) \in SUBSET On(log, s) /\ inEffect(s) = {i \in On(log, s) : Odd(log, i)}
      BY <1>1 DEF inEffect
    <3>2. Explains(log', IF e.from[s] # e.to[s] THEN inEffect(s) \cup {Len(log) + 1} ELSE inEffect(s), s, e.to[s])
      BY <1>1, <2>1, <2>3, <3>1, ActionExplains DEF Explained
    <3>3. inEffect(s)' = {i \in On(log', s) : Odd(log', i)}
      BY <1>1 DEF inEffect
    <3>4. On(log', s) = IF e.from[s] # e.to[s] THEN On(log, s) \cup {Len(log) + 1} ELSE On(log, s)
      BY <1>1, <2>1, <2>3, OnAppended
    <3>5. On(log, s) \subseteq DOMAIN log
      BY DEF On
    <3>6. inEffect(s)' = IF e.from[s] # e.to[s] THEN inEffect(s) \cup {Len(log) + 1} ELSE inEffect(s)
      BY <2>4, <3>1, <3>3, <3>4, <3>5
    <3> QED
      BY <2>3, <3>2, <3>6
  <2> QED
    BY <2>4, <2>5, <2>6 DEF Explained
<1> QED
  BY <1>2, <1>3 DEF Ledger

\* A compensation says the reverse of the tail of its action's chain.
LEMMA Compensated ==
  ASSUME log \in Seq(Event), Chained(log), NEW root \in DOMAIN log, log[root].kind = "action",
         NEW kind \in {"undo", "redo"}, log' = Append(log, compensation(root, kind))
  PROVE  /\ Chained(log')
         /\ \A i \in DOMAIN log : Odd(log', i) <=> IF i = root THEN ~Odd(log, i) ELSE Odd(log, i)
         /\ \A s \in Setting : On(log', s) = On(log, s)
         /\ \A s \in Setting : \A E \in SUBSET On(log, s) : \A v :
               Explains(log, E, s, v) => Explains(log', E, s, v)
         /\ root \in DOMAIN log' /\ log'[root].kind = "action"
<1> DEFINE e == compensation(root, kind)
<1>1. Chain(root) = ChainIn(log, root)
  BY DEF Chain, ChainIn
<1>2. root \in Roots
  BY DEF Chained, Roots
<1>3. /\ e \in Event /\ e.root = root /\ e.kind # "action"
      /\ e.from = tailOf(log, root).to /\ e.to = tailOf(log, root).from
  BY <1>1, <1>2, CompensationType DEF compensation, tailOf
<1>4. log' = Append(log, e)
  OBVIOUS
<1> HIDE DEF e
<1>5. /\ Chained(log')
      /\ \A i \in DOMAIN log : Odd(log', i) <=> IF i = root THEN ~Odd(log, i) ELSE Odd(log, i)
  BY <1>3, <1>4, CompensationChained
<1>6. \A s \in Setting : On(log', s) = On(log, s)
  BY <1>3, <1>4, OnAppended
<1>7. \A s \in Setting : \A E \in SUBSET On(log, s) : \A v :
         Explains(log, E, s, v) => Explains(log', E, s, v)
  BY <1>3, <1>4, OthersExplain
<1>8. root \in DOMAIN log' /\ log'[root] = log[root]
  BY <1>3, <1>4, Appended
<1> QED
  BY <1>5, <1>6, <1>7, <1>8

\* The root of an event is an action of the history.
LEMMA RootIsAction ==
  ASSUME log \in Seq(Event), Chained(log), NEW root \in Roots
  PROVE  root \in DOMAIN log /\ log[root].kind = "action"
<1>1. PICK i \in DOMAIN log : root = log[i].root
  BY DEF Roots
<1>2. root \in 1 .. i /\ log[root].kind = "action"
  BY <1>1 DEF Chained
<1>3. DOMAIN log = 1 .. Len(log) /\ Len(log) \in Nat
  OBVIOUS
<1> QED
  BY <1>1, <1>2, <1>3

LEMMA ToggleLedger ==
  ASSUME Books, Ledger, NEW root \in Roots, NEW kind \in {"undo", "redo"}, toggleHistoryEvent(root, kind)
  PROVE  Ledger'
<1> USE DEF Books, EditsAreAccounted
<1>1. /\ log \in Seq(Event) /\ queue = <<>> /\ worker = "none" /\ undo.pc = "none" /\ importing = "none"
      /\ UNCHANGED <<memory, unread, queue, worker, saved, importing, imported, open, file, externals, faults,
                     undoFaults, crashes>>
      /\ log' = Append(log, compensation(root, kind))
      /\ undo'.pc = "apply" /\ undo'.root = root /\ undo'.kind = kind
      /\ isEffective(root) <=> kind = "undo"
  BY DEF toggleHistoryEvent, TypeOK, windowFree, requireIdleProjectHistory, transitionBusy, mutationBusy
<1>2. Troubles' /\ (undisturbed' <=> undisturbed)
  BY <1>1 DEF Ledger, Troubles, undisturbed
<1>3. ASSUME undisturbed' PROVE Settling' /\ Undoing' /\ Chained(log)' /\ Explained'
  <2>1. Settling /\ Chained(log) /\ Explained
    BY <1>2, <1>3 DEF Ledger
  <2>2. root \in DOMAIN log /\ log[root].kind = "action"
    BY <1>1, <2>1, RootIsAction
  <2>3. Odd(log, root) <=> kind = "undo"
    BY <1>1 DEF isEffective, Odd, Chain, ChainIn
  <2>4. /\ Chained(log')
        /\ \A i \in DOMAIN log : Odd(log', i) <=> IF i = root THEN ~Odd(log, i) ELSE Odd(log, i)
        /\ \A s \in Setting : On(log', s) = On(log, s)
        /\ \A s \in Setting : \A E \in SUBSET On(log, s) : \A v :
              Explains(log, E, s, v) => Explains(log', E, s, v)
        /\ root \in DOMAIN log' /\ log'[root].kind = "action"
    BY <1>1, <2>1, <2>2, Compensated
  <2>5. Undoing'
    BY <1>1, <2>2, <2>3, <2>4 DEF Undoing
  <2>6. Settling'
    BY <1>1, <2>1 DEF Settling
  <2>7. ASSUME NEW s \in Setting PROVE inEffect(s)' = inEffect(s) /\ inEffect(s) \in SUBSET On(log, s)
    <3>1. inEffect(s) = {i \in On(log, s) : Odd(log, i)}
      BY <1>1 DEF inEffect
    <3>2. inEffect(s)' = {i \in On(log, s) : IF i = root THEN kind = "undo" ELSE Odd(log', i)}
      BY <1>1, <2>4 DEF inEffect
    <3>3. On(log, s) \subseteq DOMAIN log
      BY DEF On
    <3> QED
      BY <2>3, <2>4, <3>1, <3>2, <3>3
  <2>8. recordedProject' = recordedProject
    BY <1>1 DEF recordedProject
  <2>9. Explained'
    BY <2>1, <2>4, <2>7, <2>8 DEF Explained
  <2> QED
    BY <2>4, <2>5, <2>6, <2>9
<1> QED
  BY <1>2, <1>3 DEF Ledger

\* What the next lemmas share: an undo or redo at work, of an action that counts as
\* undone or not by now.
UndoAtWork ==
  /\ log \in Seq(Event) /\ queue = <<>> /\ worker = "none" /\ importing = "none" /\ open
  /\ undo.root \in Roots /\ undo.kind \in {"undo", "redo"}

LEMMA AtWork ==
  ASSUME Books, undo.pc # "none"
  PROVE  UndoAtWork
BY DEF Books, EditsAreAccounted, TypeOK, OneAtATime, UndoAtWork

LEMMA ApplyLedger ==
  ASSUME Books, Ledger, applyHistoryState
  PROVE  Ledger'
<1>1. /\ UndoAtWork /\ undo.pc = "apply" /\ undo'.pc \in {"commit", "repair"}
      /\ undo'.root = undo.root /\ undo'.kind = undo.kind
      /\ UNCHANGED <<memory, unread, queue, worker, saved, importing, imported, open, log, externals, faults, crashes>>
      /\ undoFaults' \in {undoFaults, undoFaults + 1}
      /\ undo'.pc = "commit" => file' = undone /\ unconflicted(memory, undoEvent)
      /\ undo'.pc = "repair" => file' = file
  <2>1. undo.pc = "apply" /\ undo \in [pc : {"none", "apply", "commit", "repair"}, root : Nat, kind : {"undo", "redo"}]
    BY DEF applyHistoryState, Books, EditsAreAccounted, TypeOK
  <2> QED
    BY <2>1, AtWork DEF applyHistoryState, writeFile, undoFault
<1>2. Troubles' /\ (undisturbed' => undisturbed)
  BY <1>1, CountersGrow DEF Ledger
<1>3. ASSUME undisturbed' PROVE Settling' /\ Undoing' /\ Chained(log)' /\ Explained'
  <2>1. Settling /\ Undoing /\ Chained(log) /\ Explained
    BY <1>2, <1>3 DEF Ledger
  <2>2. undoEvent' = undoEvent /\ undone' = undone
    BY <1>1 DEF undoEvent, undone, Chain
  <2>3. unconflicted(memory, undoEvent) => unconflicted(memory, undoEvent)'
    BY <1>1, <2>2 DEF unconflicted
  <2>4. Settling'
    <3>1. CASE undo'.pc = "commit"
      BY <1>1, <2>1, <2>2, <2>3, <3>1 DEF Settling, UndoAtWork
    <3>2. CASE undo'.pc = "repair"
      BY <1>1, <2>1, <3>2 DEF Settling
    <3> QED
      BY <1>1, <3>1, <3>2
  <2>5. Undoing' /\ Chained(log)'
    BY <1>1, <2>1 DEF Undoing
  <2>6. recordedProject' = recordedProject /\ \A s \in Setting : inEffect(s)' = inEffect(s)
    BY <1>1 DEF recordedProject, inEffect
  <2> QED
    BY <1>1, <2>1, <2>4, <2>5, <2>6 DEF Explained
<1> QED
  BY <1>2, <1>3 DEF Ledger

LEMMA RepairLedger ==
  ASSUME Books, Ledger, repair
  PROVE  Ledger'
<1>1. /\ UndoAtWork /\ undo.pc = "repair" /\ undo' = NoUndo /\ undo'.pc = "none"
      /\ UNCHANGED <<memory, unread, queue, worker, saved, importing, imported, open, file, externals, faults, crashes>>
      /\ undoFaults' \in {undoFaults, undoFaults + 1}
      /\ log' = repaired(undo.root, undo.kind) \/ undoFaults' = undoFaults + 1
  BY AtWork DEF repair, NoUndo, undoFault
<1>2. Troubles' /\ (undisturbed' => undisturbed /\ undoFaults' = undoFaults /\ undoFaults \in Nat)
  BY <1>1, CountersGrow DEF Ledger, Troubles
<1>3. ASSUME undisturbed' PROVE Settling' /\ Undoing' /\ Chained(log)' /\ Explained'
  <2> DEFINE r == undo.root  k == opposite(undo.kind)
  <2>1. Settling /\ Undoing /\ Chained(log) /\ Explained /\ log' = Append(log, compensation(r, k))
    BY <1>1, <1>2, <1>3 DEF Ledger, repaired
  <2>2. r \in DOMAIN log /\ log[r].kind = "action" /\ (Odd(log, r) <=> undo.kind = "redo")
        /\ k \in {"undo", "redo"} /\ undo.kind \in {"undo", "redo"}
    BY <1>1, <2>1 DEF Undoing, UndoAtWork, opposite
  <2> HIDE DEF k
  <2>3. /\ Chained(log')
        /\ \A i \in DOMAIN log : Odd(log', i) <=> IF i = r THEN ~Odd(log, i) ELSE Odd(log, i)
        /\ \A s \in Setting : On(log', s) = On(log, s)
        /\ \A s \in Setting : \A E \in SUBSET On(log, s) : \A v :
              Explains(log, E, s, v) => Explains(log', E, s, v)
    BY <1>1, <2>1, <2>2, Compensated DEF UndoAtWork
  <2>4. Settling' /\ Undoing'
    BY <1>1, <2>1 DEF Settling, Undoing, UndoAtWork
  <2>5. ASSUME NEW s \in Setting PROVE inEffect(s)' = inEffect(s) /\ inEffect(s) \in SUBSET On(log, s)
    <3>1. inEffect(s) = {i \in On(log, s) : IF i = r THEN undo.kind = "undo" ELSE Odd(log, i)}
      BY <1>1 DEF inEffect
    <3>2. inEffect(s)' = {i \in On(log, s) : Odd(log', i)}
      BY <1>1, <2>3 DEF inEffect
    <3>3. On(log, s) \subseteq DOMAIN log
      BY DEF On
    <3> QED
      BY <2>2, <2>3, <3>1, <3>2, <3>3
  <2>6. recordedProject' = recordedProject
    BY <1>1 DEF recordedProject
  <2>7. Explained'
    BY <2>1, <2>3, <2>5, <2>6 DEF Explained
  <2> QED
    BY <2>3, <2>4, <2>7
<1> QED
  BY <1>2, <1>3 DEF Ledger

\* An undo takes its action out of those that explain the settings it changed; a
\* redo puts it back on top.
LEMMA CommitLedger ==
  ASSUME Books, Ledger, applyCommit
  PROVE  Ledger'
<1>1. /\ UndoAtWork /\ undo.pc = "commit"
      /\ UNCHANGED <<queue, worker, saved, importing, imported, open, file, log, externals, faults, crashes>>
      /\ undoFaults' \in {undoFaults, undoFaults + 1}
      /\ \/ undo' = NoUndo /\ undo'.pc = "none" /\ memory' = undone
         \/ undoFaults' = undoFaults + 1
  BY AtWork DEF applyCommit, NoUndo, undoFault
<1>2. Troubles' /\ (undisturbed' => undisturbed /\ undoFaults' = undoFaults /\ undoFaults \in Nat)
  BY <1>1, CountersGrow DEF Ledger, Troubles
<1>3. ASSUME undisturbed' PROVE Settling' /\ Undoing' /\ Chained(log)' /\ Explained'
  <2> DEFINE r == undo.root
  <2>1. /\ Settling /\ Undoing /\ Chained(log) /\ Explained
        /\ undo' = NoUndo /\ undo'.pc = "none" /\ memory' = undone
    BY <1>1, <1>2, <1>3 DEF Ledger
  <2>2. r \in DOMAIN log /\ log[r].kind = "action" /\ (Odd(log, r) <=> undo.kind = "redo")
        /\ undo.kind \in {"undo", "redo"}
    BY <1>1, <2>1 DEF Undoing, UndoAtWork
  <2>3. Settling' /\ Undoing' /\ Chained(log)'
    BY <1>1, <2>1 DEF Settling, Undoing, UndoAtWork
  <2>4. undoEvent = tailOf(log, r) /\ agrees(log, r)
    BY <2>1, <2>2 DEF undoEvent, tailOf, Chain, ChainIn, Chained
  <2>5. recordedProject = memory /\ recordedProject' = undone
    BY <1>1, <2>1 DEF recordedProject, UndoAtWork
  <2>6. ASSUME NEW s \in Setting PROVE Explains(log', inEffect(s)', s, recordedProject'[s])
    <3> DEFINE E == inEffect(s)
    <3>1. /\ Explains(log, E, s, memory[s]) /\ E \in SUBSET On(log, s)
          /\ E = {i \in On(log, s) : IF i = r THEN undo.kind = "undo" ELSE Odd(log, i)}
      BY <1>1, <2>1, <2>5 DEF Explained, inEffect
    <3>2. log' = log /\ inEffect(s)' = {i \in On(log, s) : Odd(log, i)}
      BY <1>1, <2>1 DEF inEffect
    <3> HIDE DEF E
    <3>3. r \in On(log, s) <=> log[r].from[s] # log[r].to[s]
      BY <2>2 DEF On
    <3>4. CASE r \notin On(log, s)
      <4>1. undoEvent.from[s] = undoEvent.to[s]
        BY <2>4, <3>3, <3>4 DEF agrees
      <4>2. undone[s] = memory[s]
        BY <4>1 DEF undone, applyMergePatch, Paths
      <4>3. inEffect(s)' = E
        BY <3>1, <3>2, <3>4
      <4> QED
        BY <2>5, <3>1, <3>2, <4>2, <4>3
    <3>5. CASE r \in On(log, s) /\ undo.kind = "undo"
      <4>1. undoEvent.from = log[r].to /\ undoEvent.to = log[r].from
        BY <2>2, <2>4, <3>5 DEF agrees
      <4>2. undone[s] = log[r].from[s] /\ memory[s] = log[r].to[s]
        BY <1>1, <2>1, <3>3, <3>5, <4>1 DEF undone, applyMergePatch, Paths, Settling, unconflicted
      <4>3. r \in E /\ inEffect(s)' = E \ {r}
        BY <2>2, <3>1, <3>2, <3>5
      <4>4. Explains(log, E \ {r}, s, log[r].from[s])
        BY <1>1, <3>1, <4>2, <4>3, Undone DEF UndoAtWork
      <4> QED
        BY <2>5, <3>2, <4>2, <4>3, <4>4
    <3>6. CASE r \in On(log, s) /\ undo.kind = "redo"
      <4>1. undoEvent.from = log[r].from /\ undoEvent.to = log[r].to
        BY <2>2, <2>4, <3>6 DEF agrees
      <4>2. undone[s] = log[r].to[s] /\ memory[s] = log[r].from[s]
        BY <1>1, <2>1, <3>3, <3>6, <4>1 DEF undone, applyMergePatch, Paths, Settling, unconflicted
      <4>3. r \in On(log, s) \ E /\ inEffect(s)' = E \cup {r}
        BY <2>2, <3>1, <3>2, <3>6
      <4>4. Explains(log, E \cup {r}, s, log[r].to[s])
        BY <1>1, <3>1, <4>2, <4>3, Redone DEF UndoAtWork
      <4> QED
        BY <2>5, <3>2, <4>2, <4>3, <4>4
    <3> QED
      BY <2>2, <3>4, <3>5, <3>6
  <2> QED
    BY <2>3, <2>6 DEF Explained
<1> QED
  BY <1>2, <1>3 DEF Ledger

LEMMA WatcherLedger ==
  ASSUME Books, Ledger,
         watcherReports \/ watcherTimer \/ (importLoad /\ UNCHANGED faults) \/ importDeliver \/ importFails
           \/ openProject
  PROVE  Ledger'
<1> USE DEF Books, EditsAreAccounted
<1>1. /\ UNCHANGED <<queue, worker, saved, undo, file, log, externals, faults, undoFaults, crashes>>
      /\ (worker = "none") = (queue = <<>>)
  BY DEF watcherReports, watcherTimer, importLoad, importDeliver, importFails, openProject, diskVars, bounds,
         TypeOK
<1>2. Troubles' /\ (undisturbed' <=> undisturbed)
  BY <1>1 DEF Ledger, Troubles, undisturbed
<1>3. ASSUME undisturbed PROVE memory' = memory /\ Settling'
  <2>1. Settling
    BY <1>3 DEF Ledger
  <2>2. memory' = memory /\ open' = open /\ (importing' = "deliver" => imported' = file)
    <3>1. CASE watcherReports \/ watcherTimer \/ importLoad \/ importFails \/ openProject
      BY <2>1, <3>1 DEF watcherReports, watcherTimer, importLoad, importFails, openProject, Settling
    <3>2. CASE importDeliver
      BY <1>1, <2>1, <3>2 DEF importDeliver, Settling, OneAtATime
    <3> QED
      BY <3>1, <3>2
  <2>3. undoEvent' = undoEvent /\ undone' = undone
    BY <1>1, <2>2 DEF undoEvent, undone, Chain
  <2>4. unconflicted(memory, undoEvent) => unconflicted(memory, undoEvent)'
    BY <2>2, <2>3 DEF unconflicted
  <2> QED
    BY <1>1, <2>1, <2>2, <2>3, <2>4 DEF Settling
<1>4. CASE undisturbed
  <2>1. recordedProject' = recordedProject
    BY <1>1, <1>3, <1>4 DEF recordedProject
  <2> QED
    BY <1>1, <1>2, <1>3, <1>4, <2>1, LedgerStays
<1>5. CASE ~undisturbed
  BY <1>2, <1>5 DEF Ledger
<1> QED
  BY <1>4, <1>5

\* Crashes, other programs and a project that cannot be read disturb.
LEMMA DisturbedLedger ==
  ASSUME Books, Ledger,
         crash \/ (importLoad /\ fault) \/ \E s \in Setting, v \in Value : externalEdit(s, v)
  PROVE  Ledger'
<1>1. /\ undoFaults' = undoFaults /\ faults' \in {faults, faults + 1}
      /\ crashes' = crashes + 1 \/ externals' = externals + 1 \/ faults' = faults + 1
  BY DEF crash, externalEdit, importLoad, fault
<1>2. Troubles' /\ ~undisturbed'
  BY <1>1 DEF Ledger, Troubles, undisturbed, Books, Counters
<1> QED
  BY <1>2 DEF Ledger

LEMMA NextLedger == Books /\ Ledger /\ [Next]_vars => Ledger'
<1> SUFFICES ASSUME Books, Ledger, [Next]_vars PROVE Ledger'
  OBVIOUS
<1>1. CASE UNCHANGED vars
  <2>1. /\ UNCHANGED <<memory, unread, queue, worker, saved, undo, importing, imported, open, file, log>>
        /\ UNCHANGED <<externals, faults, undoFaults, crashes>>
    BY <1>1 DEF vars, windowVars, diskVars, bounds
  <2>2. Troubles' /\ (undisturbed' <=> undisturbed) /\ recordedProject' = recordedProject
    BY <2>1 DEF Ledger, Troubles, undisturbed, recordedProject
  <2>3. undoEvent' = undoEvent /\ undone' = undone
    BY <2>1 DEF undoEvent, undone, Chain
  <2>4. unconflicted(memory, undoEvent) => unconflicted(memory, undoEvent)'
    BY <2>1, <2>3 DEF unconflicted
  <2>5. undisturbed => Settling'
    BY <2>1, <2>3, <2>4 DEF Settling, Ledger
  <2> QED
    BY <2>1, <2>2, <2>5, LedgerStays
<1>2. CASE WindowNext
  <2>1. importLoad => (importLoad /\ UNCHANGED faults) \/ (importLoad /\ fault)
    BY DEF importLoad
  <2> QED
    BY <1>2, <2>1, DisturbedLedger, SaveLedger, RecordLedger, FinishLedger, ApplyLedger, CommitLedger,
       RepairLedger, WatcherLedger
       DEF WindowNext
<1>3. CASE \E s \in Setting, v \in Value : mutateProject(s, v) \/ externalEdit(s, v)
  BY <1>3, MutateLedger, DisturbedLedger
<1>4. CASE \E root \in Roots, kind \in {"undo", "redo"} : toggleHistoryEvent(root, kind)
  BY <1>4, ToggleLedger
<1>5. CASE crash
  BY <1>5, DisturbedLedger
<1> QED
  BY <1>1, <1>2, <1>3, <1>4, <1>5 DEF Next

LEMMA LedgerExplains == Books /\ Ledger => HistoryExplainsProject
<1> SUFFICES ASSUME Books, Ledger, quiet, externals = 0, faults = 0, undoFaults = 0, crashes = 0,
                    NEW s \in Setting, neverReturns(s)
             PROVE  LET E == EffectiveActions(s)
                    IN  file[s] = IF E = {} THEN Default ELSE log[LastOf(E)].to[s]
  BY DEF HistoryExplainsProject
<1>1. Settling /\ Chained(log) /\ Explains(log, inEffect(s), s, recordedProject[s])
  BY DEF Ledger, undisturbed, Explained
<1>2. undo.pc = "none" /\ recordedProject = memory /\ file = memory
  BY <1>1 DEF quiet, NoUndo, recordedProject, Settling
<1>3. ActionsOn(s) = On(log, s)
  BY DEF ActionsOn, On, Paths
<1>4. Unreturned(log, s)
  BY <1>3 DEF neverReturns, Unreturned
<1>5. \A i \in On(log, s) : log[i].root = i
  BY <1>1 DEF Chained, On
<1>6. EffectiveActions(s) = inEffect(s)
  <2>1. \A i : isEffective(i) <=> Odd(log, i)
    BY DEF isEffective, Odd, Chain, ChainIn
  <2> QED
    BY <1>2, <1>3, <1>5, <2>1 DEF EffectiveActions, inEffect
<1> QED
  BY <1>1, <1>2, <1>4, <1>6 DEF Explains, Left

\* The history explains the project: while nothing fails, a quiet window's file has for
\* each setting what its newest effective action set, over undo and redo in any order.
THEOREM Explanation == Spec => []HistoryExplainsProject
<1>1. Init => Books /\ Ledger
  BY InitBooks, InitLedger
<1>2. Books /\ Ledger /\ [Next]_vars => (Books /\ Ledger)'
  BY NextBooks, NextLedger
<1> QED
  BY <1>1, <1>2, LedgerExplains, PTL DEF Spec

-----------------------------------------------------------------------------
\* No reply is newer than the last operation, the search of that operation is for the
\* query shown, and downloads are for a project.
Replies ==
  \A r \in replies :
    /\ r.operation <= operation
    /\ r.kind = "search" /\ r.operation = operation => r.what = query
    /\ r.kind # "search" => r.for \in Directory

BusyIsAnswered ==
  running /\ busy =>
    (reply \in replies /\ currentRequest(reply)) \/ transition # NoDirectory \/ unopened

CatalogueInv == Replies /\ ResultsFitQuery /\ BusyIsAnswered

QueueInv == AnswersBelong /\ InventoryFitsSource /\ QueuedDownloadsExist /\ UpdatesAreQueued

IntakeInv == IntakeTypeOK /\ CatalogueInv /\ QueueInv /\ MetadataIsCurrent

LEMMA InitIntakeInv == IntakeInit => IntakeInv
<1> SUFFICES ASSUME IntakeInit PROVE IntakeInv
  OBVIOUS
<1>1. IntakeTypeOK
  BY UpdateAssumption DEF IntakeInit, IntakeTypeOK, Reply, Query
<1>2. CatalogueInv
  BY DEF IntakeInit, CatalogueInv, Replies, ResultsFitQuery, BusyIsAnswered
<1>3. QueueInv
  BY DEF IntakeInit, QueueInv, AnswersBelong, InventoryFitsSource, QueuedDownloadsExist,
         UpdatesAreQueued
<1>4. MetadataIsCurrent
  BY DEF IntakeInit, MetadataIsCurrent, now
<1> QED
  BY <1>1, <1>2, <1>3, <1>4 DEF IntakeInv

-----------------------------------------------------------------------------
(* What a step leaves alone.                                                *)

LEMMA CatalogueFrame ==
  ASSUME CatalogueInv, UNCHANGED <<running, projectVars, catalogue, unopened>>
  PROVE  CatalogueInv'
BY DEF CatalogueInv, Replies, ResultsFitQuery, BusyIsAnswered, currentRequest, projectVars,
       catalogue

LEMMA QueueFrame ==
  ASSUME QueueInv, UNCHANGED <<contents, downloads>>
  PROVE  QueueInv'
BY DEF QueueInv, AnswersBelong, InventoryFitsSource, QueuedDownloadsExist, UpdatesAreQueued,
       contents, downloads

LEMMA MetadataFrame ==
  ASSUME MetadataIsCurrent, UNCHANGED <<project, payloads, metadata>>
  PROVE  MetadataIsCurrent'
BY DEF MetadataIsCurrent, now, metadata

LEMMA Counted ==
  ASSUME IntakeTypeOK, ask \/ opening \/ spend(0) \/ spend(1) \/ UNCHANGED spent
  PROVE  requests' \in Nat /\ openings' \in Nat /\ troubles' \in Nat
BY DEF IntakeTypeOK, ask, opening, spend, spent

-----------------------------------------------------------------------------
(* What the shared parts of the handlers do.                                *)

\* The metadata is that of the list it is read for, or is being read.
LEMMA Described ==
  ASSUME NEW list \in SUBSET Payload, IntakeTypeOK, MetadataIsCurrent,
         describe(list) \/ reloadPayloadCatalog(list)
  PROVE  /\ paths' = list /\ paths' \subseteq Payload /\ described' \subseteq Payload
         /\ metadataBusy' \in BOOLEAN /\ metadataGeneration' \in Nat /\ readers' \subseteq Reader
         /\ IF metadataBusy'
            THEN [generation |-> metadataGeneration', paths |-> paths'] \in readers'
            ELSE described' = paths'
<1>1. CASE describe(list)
  <2>1. metadataGeneration' = metadataGeneration + 1 /\ metadataGeneration' \in Nat
    BY <1>1 DEF describe, IntakeTypeOK
  <2>2. [generation |-> metadataGeneration', paths |-> list] \in Reader
    BY <2>1 DEF Reader
  <2> QED
    BY <1>1, <2>1, <2>2 DEF describe, IntakeTypeOK
<1>2. CASE ~describe(list)
  BY <1>2 DEF reloadPayloadCatalog, metadata, IntakeTypeOK, MetadataIsCurrent
<1> QED
  BY <1>1, <1>2

LEMMA PayloadsSet ==
  ASSUME NEW list \in SUBSET Payload, IntakeTypeOK, MetadataIsCurrent, project \in Directory,
         setPayloads(list), UNCHANGED project
  PROVE  /\ payloads' \in [Directory -> SUBSET Payload]
         /\ payloads'[project] = list
         /\ \A p \in Directory \ {project} : payloads'[p] = payloads[p]
         /\ paths' \subseteq Payload /\ described' \subseteq Payload
         /\ metadataBusy' \in BOOLEAN /\ metadataGeneration' \in Nat /\ readers' \subseteq Reader
         /\ MetadataIsCurrent'
<1>1. /\ payloads' \in [Directory -> SUBSET Payload]
      /\ payloads'[project] = list
      /\ \A p \in Directory \ {project} : payloads'[p] = payloads[p]
  BY DEF setPayloads, IntakeTypeOK
<1>2. now' = list
  BY <1>1, NoDirectoryAssumption DEF now
<1> QED
  BY <1>1, <1>2, Described DEF setPayloads, MetadataIsCurrent

\* A payload for the open project, which is no download, keeps the queues sound.
LEMMA PayloadsGrow ==
  ASSUME NEW e \in Payload, IntakeTypeOK, MetadataIsCurrent, QueueInv, project \in Directory,
         setPayloads(payloads[project] \cup {e}), UNCHANGED <<project, source, inventory>>,
         e.what # "hostDrivers" => e.for = project,
         \/ e.what # "download" /\ UNCHANGED disk
         \/ disk' = disk \cup {e},
         UNCHANGED <<refused, lost>>
  PROVE  QueueInv'
<1> DEFINE list == payloads[project] \cup {e}
<1>1. list \in SUBSET Payload
  BY DEF IntakeTypeOK
<1>2. /\ payloads'[project] = list
      /\ \A p \in Directory \ {project} : payloads'[p] = payloads[p]
  BY <1>1, PayloadsSet
<1>3. AnswersBelong'
  BY <1>2 DEF QueueInv, AnswersBelong
<1>4. QueuedDownloadsExist'
  BY <1>2 DEF QueueInv, QueuedDownloadsExist
<1> QED
  BY <1>3, <1>4 DEF QueueInv, InventoryFitsSource, UpdatesAreQueued

\* A search is the current operation, and for the query shown.
LEMMA SearchStarts ==
  ASSUME NEW q \in Query, IntakeTypeOK, CatalogueInv, searchUpdateCatalog(q),
         UNCHANGED <<projectVars, unopened>>
  PROVE  /\ running' \in BOOLEAN /\ query' \in Query /\ busy' \in BOOLEAN /\ operation' \in Nat
         /\ results' \subseteq [query : Query, for : Directory \cup {NoDirectory}]
         /\ reply' \in Reply \cup {NoReply} /\ replies' \subseteq Reply
         /\ CatalogueInv'
<1> DEFINE r == [kind |-> "search", operation |-> operation + 1, scope |-> scope,
                 for |-> project, as |-> "updates", what |-> q, n |-> 0]
<1>0. CASE q = NoSource /\ busy' = FALSE /\ UNCHANGED <<running, reply, replies>>
  <2>1. operation' = operation + 1 /\ operation \in Nat /\ query' = q /\ results' = {} /\ ~busy'
    BY <1>0 DEF searchUpdateCatalog, IntakeTypeOK
  <2>2. Replies'
    <3> SUFFICES ASSUME NEW s \in replies
                 PROVE  /\ s.operation <= operation' /\ s.operation # operation'
                        /\ s.kind # "search" => s.for \in Directory
      BY <1>0 DEF Replies
    <3>1. s.operation <= operation /\ s.operation \in Nat
      BY DEF CatalogueInv, Replies, IntakeTypeOK, Reply
    <3> QED
      BY <2>1, <3>1 DEF CatalogueInv, Replies
  <2> QED
    <3>1. BusyIsAnswered' /\ ResultsFitQuery'
      BY <2>1 DEF BusyIsAnswered, ResultsFitQuery
    <3>3. operation' \in Nat
      BY <2>1
    <3>4. busy' \in BOOLEAN
      BY ONLY <1>0
    <3>2. running' \in BOOLEAN /\ reply' \in Reply \cup {NoReply} /\ replies' \subseteq Reply
      BY <1>0 DEF IntakeTypeOK
    <3> QED
      BY <2>1, <2>2, <3>1, <3>2, <3>3, <3>4 DEF CatalogueInv
<1> SUFFICES ASSUME abortKept, busy', begin("search", operation + 1, "updates", q, 0, notAborted)
             PROVE  /\ running' \in BOOLEAN /\ query' \in Query /\ busy' \in BOOLEAN /\ operation' \in Nat
                    /\ results' \subseteq [query : Query, for : Directory \cup {NoDirectory}]
                    /\ reply' \in Reply \cup {NoReply} /\ replies' \subseteq Reply
                    /\ CatalogueInv'
  BY <1>0 DEF searchUpdateCatalog
<1>1. /\ operation' = operation + 1 /\ operation' \in Nat /\ query' = q /\ results' = {} /\ busy'
      /\ reply' = r /\ replies' = (replies \ {reply}) \cup {r}
  BY DEF searchUpdateCatalog, begin, notAborted, IntakeTypeOK
<1>2. r \in Reply
  BY UpdateAssumption DEF Reply, IntakeTypeOK, Category
<1>3. running' \in BOOLEAN
  BY DEF abortKept
<1>4. Replies'
  <2> SUFFICES ASSUME NEW s \in replies'
               PROVE  /\ s.operation <= operation'
                      /\ s.kind = "search" /\ s.operation = operation' => s.what = query'
                      /\ s.kind # "search" => s.for \in Directory
    BY DEF Replies
  <2>1. CASE s = r
    BY <1>1, <2>1
  <2>2. CASE s \in replies
    <3>1. s.operation <= operation /\ s.operation \in Nat /\ operation \in Nat
      BY <2>2 DEF CatalogueInv, Replies, IntakeTypeOK, Reply
    <3> QED
      BY <1>1, <2>2, <3>1 DEF CatalogueInv, Replies
  <2> QED
    BY <1>1, <2>1, <2>2
<1>5. BusyIsAnswered'
  BY <1>1 DEF BusyIsAnswered, currentRequest, projectVars
<1>6. ResultsFitQuery'
  BY <1>1 DEF ResultsFitQuery
<1> QED
  BY <1>1, <1>2, <1>3, <1>4, <1>5, <1>6 DEF CatalogueInv, IntakeTypeOK

-----------------------------------------------------------------------------
(* The update catalogue.                                                    *)

LEMMA SearchKeeps ==
  ASSUME IntakeInv, Search
  PROVE  IntakeInv'
<1>1. PICK q \in Query : searchUpdateCatalog(q)
  <2>1. CASE \E q \in {"typed", NoSource} : searchUpdateCatalog(q)
    BY <2>1 DEF Query
  <2>2. CASE project # NoDirectory /\ searchUpdateCatalog(inventory[project])
    BY <2>2 DEF Query, IntakeInv, IntakeTypeOK
  <2> QED
    BY <2>1, <2>2 DEF Search
<1>2. UNCHANGED <<projectVars, contents, automatic, scanning, metadata, processes, downloads,
                  unopened>> /\ ask
  BY DEF Search
<1>3. IntakeTypeOK' /\ CatalogueInv'
  BY <1>1, <1>2, SearchStarts DEF IntakeInv, IntakeTypeOK, ask, projectVars, contents, scanning,
                                  metadata, processes, downloads
<1>4. QueueInv' /\ MetadataIsCurrent'
  BY <1>2, QueueFrame, MetadataFrame DEF IntakeInv, projectVars, contents
<1> QED
  BY <1>3, <1>4 DEF IntakeInv

LEMMA AutomaticSearchKeeps ==
  ASSUME IntakeInv, NEW a \in automatic, AutomaticSearch(a)
  PROVE  IntakeInv'
<1>1. UNCHANGED <<projectVars, contents, scanning, metadata, processes, downloads, unopened,
                  spent>> /\ automatic' = automatic \ {a}
  BY DEF AutomaticSearch
<1>2. a.query \in Query
  BY DEF IntakeInv, IntakeTypeOK, Automatic, Query
<1>3. IntakeTypeOK' /\ CatalogueInv'
  <2>1. CASE searchUpdateCatalog(a.query)
    BY <1>1, <1>2, <2>1, SearchStarts DEF IntakeInv, IntakeTypeOK, projectVars, contents, scanning,
                                          metadata, processes, downloads, spent
  <2>2. CASE UNCHANGED <<running, catalogue>>
    BY <1>1, <2>2, CatalogueFrame DEF IntakeInv, IntakeTypeOK, projectVars, contents, catalogue,
                                      scanning, metadata, processes, downloads, spent
  <2> QED
    BY <2>1, <2>2 DEF AutomaticSearch
<1>4. QueueInv' /\ MetadataIsCurrent'
  BY <1>1, QueueFrame, MetadataFrame DEF IntakeInv, projectVars, contents
<1> QED
  BY <1>3, <1>4 DEF IntakeInv

LEMMA CancelKeeps ==
  ASSUME IntakeInv, cancelUpdateCatalog
  PROVE  IntakeInv'
<1>1. UNCHANGED <<projectVars, contents, query, results, operation, automatic, scanning,
                  metadata, processes, downloads, unopened>>
  BY DEF cancelUpdateCatalog
<1>2. running' \in BOOLEAN /\ reply' = NoReply /\ replies' = replies \ {reply} /\ busy' = FALSE
  BY DEF cancelUpdateCatalog, abortKept, notAborted
<1>3. IntakeTypeOK'
  <2>1. requests' \in Nat /\ openings' \in Nat /\ troubles' \in Nat
    BY Counted DEF IntakeInv, cancelUpdateCatalog
  <2> QED
    BY <1>1, <1>2, <2>1 DEF IntakeInv, IntakeTypeOK, projectVars, contents, scanning, metadata,
                            processes, downloads
<1>4. CatalogueInv'
  BY <1>1, <1>2 DEF IntakeInv, CatalogueInv, Replies, ResultsFitQuery, BusyIsAnswered, projectVars
<1>5. QueueInv' /\ MetadataIsCurrent'
  BY <1>1, QueueFrame, MetadataFrame DEF IntakeInv, projectVars, contents
<1> QED
  BY <1>3, <1>4, <1>5 DEF IntakeInv

LEMMA DownloadKeeps ==
  ASSUME IntakeInv, NEW c \in Category, downloadUpdateCatalogItem(c)
  PROVE  IntakeInv'
<1> DEFINE r == [kind |-> "dialog", operation |-> operation + 1, scope |-> scope,
                 for |-> project, as |-> c, what |-> NoSource, n |-> 0]
<1>1. UNCHANGED <<projectVars, contents, query, results, automatic, scanning, metadata,
                  processes, downloads, unopened>>
  BY DEF downloadUpdateCatalogItem
<1>2. /\ running' \in BOOLEAN /\ operation' = operation + 1 /\ busy' = TRUE
      /\ reply' = r /\ replies' = (replies \ {reply}) \cup {r}
  BY DEF downloadUpdateCatalogItem, abortKept, begin, notAborted
<1>3. r \in Reply /\ r.for \in Directory
  <2>1. project \in Directory /\ scope \in Nat /\ operation + 1 \in Nat
    BY DEF downloadUpdateCatalogItem, IntakeInv, IntakeTypeOK
  <2> QED
    BY <2>1, UpdateAssumption DEF Reply, Query, Category
<1>4. IntakeTypeOK'
  <2>1. requests' \in Nat /\ openings' \in Nat /\ troubles' \in Nat
    BY Counted DEF IntakeInv, downloadUpdateCatalogItem
  <2>2. operation' \in Nat /\ reply' \in Reply /\ replies' \subseteq Reply /\ busy' \in BOOLEAN
    BY <1>2, <1>3 DEF IntakeInv, IntakeTypeOK
  <2> QED
    BY <1>1, <1>2, <2>1, <2>2 DEF IntakeInv, IntakeTypeOK, projectVars, contents, scanning, metadata,
                                  processes, downloads
<1>5. CatalogueInv'
  <2>1. ASSUME NEW s \in replies'
        PROVE  /\ s.operation <= operation'
               /\ s.kind = "search" /\ s.operation = operation' => s.what = query'
               /\ s.kind # "search" => s.for \in Directory
    <3>1. CASE s = r
      BY <1>2, <1>3, <3>1 DEF IntakeInv, IntakeTypeOK
    <3>2. CASE s \in replies
      <4>1. s.operation <= operation /\ s.operation \in Nat /\ operation \in Nat
        BY <3>2 DEF IntakeInv, CatalogueInv, Replies, IntakeTypeOK, Reply
      <4> QED
        BY <1>2, <3>2, <4>1 DEF IntakeInv, CatalogueInv, Replies
    <3> QED
      BY <1>2, <2>1, <3>1, <3>2
  <2>2. Replies'
    BY <2>1 DEF Replies
  <2> QED
    BY <1>1, <1>2, <2>2 DEF IntakeInv, CatalogueInv, ResultsFitQuery, BusyIsAnswered,
                            currentRequest, projectVars
<1>6. QueueInv' /\ MetadataIsCurrent'
  BY <1>1, QueueFrame, MetadataFrame DEF IntakeInv, projectVars, contents
<1> QED
  BY <1>4, <1>5, <1>6 DEF IntakeInv

\* A stale reply is not the one a busy sheet waits for.
LEMMA StaleReplyKeeps ==
  ASSUME IntakeInv, NEW r \in replies, StaleReply(r)
  PROVE  IntakeInv'
<1>1. UNCHANGED <<running, projectVars, contents, query, results, busy, operation, reply,
                  automatic, scanning, metadata, processes, downloads, unopened, spent>>
  BY DEF StaleReply
<1>2. replies' = replies \ {r} /\ ~currentRequest(r)
  BY DEF StaleReply
<1>3. IntakeTypeOK'
  BY <1>1, <1>2 DEF IntakeInv, IntakeTypeOK, projectVars, contents, scanning, metadata, processes,
                    downloads, spent
<1>4. CatalogueInv'
  BY <1>1, <1>2 DEF IntakeInv, CatalogueInv, Replies, ResultsFitQuery, BusyIsAnswered,
                    currentRequest, projectVars
<1>5. QueueInv' /\ MetadataIsCurrent'
  BY <1>1, QueueFrame, MetadataFrame DEF IntakeInv, projectVars, contents
<1> QED
  BY <1>3, <1>4, <1>5 DEF IntakeInv

LEMMA SearchEndsKeeps ==
  ASSUME IntakeInv, NEW r \in replies, SearchEnds(r)
  PROVE  IntakeInv'
<1> DEFINE found == [query |-> r.what, for |-> r.for]
<1>1. UNCHANGED <<running, projectVars, contents, query, operation, automatic, scanning,
                  metadata, processes, downloads, unopened, requests, openings>>
  BY DEF SearchEnds, spend
<1>2. /\ replies' = replies \ {r} /\ reply' \in {reply, NoReply} /\ busy' = FALSE
      /\ results' = results \cup {found} \/ results' = {}
      /\ troubles' \in Nat
  BY DEF SearchEnds, forget, spend, IntakeInv, IntakeTypeOK
<1>3. r \in Reply /\ r.what = query /\ r.for = project
  BY DEF SearchEnds, currentRequest, IntakeInv, IntakeTypeOK, CatalogueInv, Replies
<1>4. IntakeTypeOK'
  <2>1. found \in [query : Query, for : Directory \cup {NoDirectory}]
    BY <1>3 DEF Reply
  <2> QED
    BY <1>1, <1>2, <2>1 DEF IntakeInv, IntakeTypeOK, projectVars, contents, scanning, metadata,
                            processes, downloads
<1>5. CatalogueInv'
  BY <1>1, <1>2, <1>3 DEF IntakeInv, CatalogueInv, Replies, ResultsFitQuery, BusyIsAnswered,
                          projectVars
<1>6. QueueInv' /\ MetadataIsCurrent'
  BY <1>1, QueueFrame, MetadataFrame DEF IntakeInv, projectVars, contents
<1> QED
  BY <1>4, <1>5, <1>6 DEF IntakeInv

\* The next file of the same download, or its end, after a reply that was current.
LEMMA NextFile ==
  ASSUME NEW r \in replies, IntakeTypeOK, CatalogueInv, currentRequest(r), r.kind # "search",
         NEW n \in 1 .. UpdateFiles + 1, NEW failures \in Nat,
         nextFile(r, n, replies \ {r}, forget(r), failures),
         UNCHANGED <<running, projectVars, query, results, operation, unopened>>
  PROVE  /\ reply' \in Reply \cup {NoReply} /\ replies' \subseteq Reply /\ busy' \in BOOLEAN
         /\ requests' \in Nat /\ openings' \in Nat /\ troubles' \in Nat
         /\ CatalogueInv'
<1>1. PICK i \in n .. UpdateFiles + 1 :
        /\ spend(failures + i - n)
        /\ IF i > UpdateFiles THEN downloadsEnd(r, replies \ {r}, forget(r))
           ELSE begin("file", r.operation, r.as, NoSource, i, replies \ {r}) /\ UNCHANGED busy
  BY DEF nextFile
<1>2. i \in Nat /\ UpdateFiles \in Nat /\ failures + i - n \in Nat
  BY UpdateAssumption
<1>3. requests' \in Nat /\ openings' \in Nat /\ troubles' \in Nat
  BY <1>1, <1>2 DEF spend, IntakeTypeOK
<1>4. r \in Reply /\ r.operation = operation /\ r.for = project /\ r.for \in Directory
  BY DEF IntakeTypeOK, currentRequest, CatalogueInv, Replies
<1>5. CASE i > UpdateFiles
  <2>1. /\ reply' \in Reply \cup {NoReply} /\ replies' = replies \ {r} /\ busy' = FALSE
    BY <1>1, <1>5 DEF downloadsEnd, forget, IntakeTypeOK
  <2> QED
    BY <1>3, <2>1 DEF IntakeTypeOK, CatalogueInv, Replies, ResultsFitQuery, BusyIsAnswered,
                      projectVars
<1>6. CASE ~(i > UpdateFiles)
  <2> DEFINE s == [kind |-> "file", operation |-> r.operation, scope |-> scope,
                   for |-> project, as |-> r.as, what |-> NoSource, n |-> i]
  <2>1. reply' = s /\ replies' = (replies \ {r}) \cup {s} /\ busy' = busy
    BY <1>1, <1>6 DEF begin
  <2>2. s \in Reply
    BY <1>2, <1>4, <1>6 DEF Reply, Query, IntakeTypeOK
  <2>3. Replies'
    BY <1>4, <2>1 DEF Replies, CatalogueInv, IntakeTypeOK
  <2>4. BusyIsAnswered'
    BY <1>4, <2>1 DEF BusyIsAnswered, currentRequest, projectVars
  <2> QED
    BY <1>3, <2>1, <2>2, <2>3, <2>4 DEF IntakeTypeOK, CatalogueInv, ResultsFitQuery, projectVars
<1> QED
  BY <1>5, <1>6

LEMMA DialogEndsKeeps ==
  ASSUME IntakeInv, NEW r \in replies, DialogEnds(r)
  PROVE  IntakeInv'
<1>1. UNCHANGED <<running, projectVars, contents, query, results, operation, automatic,
                  scanning, metadata, processes, downloads, unopened>>
  BY DEF DialogEnds
<1>2. /\ reply' \in Reply \cup {NoReply} /\ replies' \subseteq Reply /\ busy' \in BOOLEAN
      /\ requests' \in Nat /\ openings' \in Nat /\ troubles' \in Nat
      /\ CatalogueInv'
  <2>1. CASE nextFile(r, 1, replies \ {r}, forget(r), 0)
    <3>1. 1 \in 1 .. UpdateFiles + 1 /\ 0 \in Nat
      BY UpdateAssumption
    <3>2. currentRequest(r) /\ r.kind # "search"
      BY DEF DialogEnds
    <3> QED
      BY <1>1, <2>1, <3>1, <3>2, NextFile DEF IntakeInv
  <2>2. CASE busy' = FALSE /\ reply' = forget(r) /\ replies' = replies \ {r} /\ spend(1)
    <3>1. requests' \in Nat /\ openings' \in Nat /\ troubles' \in Nat
      BY <2>2, Counted DEF IntakeInv
    <3> QED
      BY <1>1, <2>2, <3>1 DEF forget, IntakeInv, IntakeTypeOK, CatalogueInv, Replies, ResultsFitQuery,
                              BusyIsAnswered, projectVars
  <2> QED
    BY <2>1, <2>2 DEF DialogEnds
<1>3. IntakeTypeOK'
  BY <1>1, <1>2 DEF IntakeInv, IntakeTypeOK, projectVars, contents, scanning, metadata, processes,
                    downloads
<1>4. QueueInv' /\ MetadataIsCurrent'
  BY <1>1, QueueFrame, MetadataFrame DEF IntakeInv, projectVars, contents
<1> QED
  BY <1>2, <1>3, <1>4 DEF IntakeInv

\* A file that arrived takes its place in the queue, or is removed again.
LEMMA Arrival ==
  ASSUME NEW r \in replies, IntakeInv, r.kind = "file", currentRequest(r),
         NEW e, e = [as |-> r.as, what |-> "download", for |-> r.for, n |-> r.n],
         arrives(e), UNCHANGED <<project, source, inventory, lost>>
  PROVE  /\ payloads' \in [Directory -> SUBSET Payload]
         /\ disk' \subseteq Payload /\ refused' \subseteq Payload
         /\ paths' \subseteq Payload /\ described' \subseteq Payload
         /\ metadataBusy' \in BOOLEAN /\ metadataGeneration' \in Nat /\ readers' \subseteq Reader
         /\ QueueInv' /\ MetadataIsCurrent'
<1>1. r \in Reply /\ r.for = project /\ project \in Directory
  BY DEF IntakeInv, IntakeTypeOK, CatalogueInv, Replies, currentRequest
<1>2. e \in Payload /\ e.for = project /\ e.what = "download" /\ e.as = r.as
  BY <1>1 DEF Reply, Payload
<1>3. CASE /\ disk' = disk \cup {e}
           /\ setPayloads(payloads[project] \cup {e})
           /\ UNCHANGED refused
  <2>1. payloads[project] \cup {e} \in SUBSET Payload
    BY <1>1, <1>2 DEF IntakeInv, IntakeTypeOK
  <2>2. QueueInv'
    BY <1>1, <1>2, <1>3, PayloadsGrow DEF IntakeInv
  <2> QED
    BY <1>1, <1>2, <1>3, <2>1, <2>2, PayloadsSet DEF IntakeInv, IntakeTypeOK
<1>4. CASE /\ ~referenced(e) /\ ~(supported(e) /\ e \notin payloads[project] /\ mayChange)
           /\ disk' = disk \ {e}
           /\ refused' = IF mayChange THEN refused \cup {e} ELSE refused
           /\ UNCHANGED <<payloads, metadata>>
  <2>1. e \notin payloads[project]
    BY <1>4 DEF referenced
  <2>2. \A p \in Directory : e \notin payloads[p]
    BY <1>2, <2>1 DEF IntakeInv, QueueInv, AnswersBelong
  <2>3. QueuedDownloadsExist'
    BY <1>4, <2>2 DEF IntakeInv, QueueInv, QueuedDownloadsExist
  <2>4. mayChange => e.as = "drivers"
    BY <1>1, <1>2, <1>4, <2>1 DEF supported, Reply, Category
  <2>5. UpdatesAreQueued'
    BY <1>4, <2>4 DEF IntakeInv, QueueInv, UpdatesAreQueued
  <2>6. AnswersBelong' /\ InventoryFitsSource'
    BY <1>4 DEF IntakeInv, QueueInv, AnswersBelong, InventoryFitsSource
  <2>7. MetadataIsCurrent'
    BY <1>4, MetadataFrame DEF IntakeInv
  <2> QED
    BY <1>2, <1>4, <2>3, <2>5, <2>6, <2>7 DEF IntakeInv, QueueInv, IntakeTypeOK, metadata
<1> QED
  BY <1>3, <1>4 DEF arrives

LEMMA FileEndsKeeps ==
  ASSUME IntakeInv, NEW r \in replies, FileEnds(r)
  PROVE  IntakeInv'
<1> DEFINE e == [as |-> r.as, what |-> "download", for |-> r.for, n |-> r.n]
<1>1. /\ r.kind = "file"
      /\ UNCHANGED <<running, projectVars, source, inventory, query, results, operation,
                     automatic, scanning, processes, unopened>>
  BY DEF FileEnds
<1>2. UpdateFiles \in Nat /\ r \in Reply /\ r.n + 1 \in 1 .. UpdateFiles + 1
  BY UpdateAssumption DEF IntakeInv, IntakeTypeOK, Reply
<1>3. CASE /\ ~currentRequest(r)
           /\ reply' = forget(r) /\ replies' = replies \ {r}
           /\ UNCHANGED <<busy, downloads, payloads, metadata, spent>>
  <2>1. IntakeTypeOK'
    BY <1>1, <1>3 DEF IntakeInv, IntakeTypeOK, forget, projectVars, scanning, metadata, processes,
                      downloads, spent
  <2>2. CatalogueInv'
    BY <1>1, <1>3 DEF IntakeInv, CatalogueInv, Replies, ResultsFitQuery, BusyIsAnswered,
                      currentRequest, forget, projectVars
  <2>3. QueueInv' /\ MetadataIsCurrent'
    BY <1>1, <1>3, QueueFrame, MetadataFrame DEF IntakeInv, projectVars, contents
  <2> QED
    BY <2>1, <2>2, <2>3 DEF IntakeInv
<1>4. CASE /\ currentRequest(r) /\ arrives(e) /\ UNCHANGED lost
           /\ nextFile(r, r.n + 1, replies \ {r}, forget(r), 0)
  <2>1. /\ payloads' \in [Directory -> SUBSET Payload]
        /\ disk' \subseteq Payload /\ refused' \subseteq Payload
        /\ paths' \subseteq Payload /\ described' \subseteq Payload
        /\ metadataBusy' \in BOOLEAN /\ metadataGeneration' \in Nat /\ readers' \subseteq Reader
        /\ QueueInv' /\ MetadataIsCurrent'
    BY <1>1, <1>4, Arrival DEF projectVars
  <2>2. /\ reply' \in Reply \cup {NoReply} /\ replies' \subseteq Reply /\ busy' \in BOOLEAN
        /\ requests' \in Nat /\ openings' \in Nat /\ troubles' \in Nat
        /\ CatalogueInv'
    BY <1>1, <1>2, <1>4, NextFile DEF IntakeInv
  <2>3. IntakeTypeOK'
    BY <1>1, <1>4, <2>1, <2>2 DEF IntakeInv, IntakeTypeOK, projectVars, scanning, processes
  <2> QED
    BY <2>1, <2>2, <2>3 DEF IntakeInv
<1>5. CASE /\ currentRequest(r) /\ nextFile(r, r.n + 1, replies \ {r}, forget(r), 1)
           /\ \/ UNCHANGED <<disk, lost>>
              \/ disk' = disk \ {e} /\ lost' = lost \cup {e}
           /\ UNCHANGED <<payloads, metadata, refused>>
  <2>1. /\ reply' \in Reply \cup {NoReply} /\ replies' \subseteq Reply /\ busy' \in BOOLEAN
        /\ requests' \in Nat /\ openings' \in Nat /\ troubles' \in Nat
        /\ CatalogueInv'
    BY <1>1, <1>2, <1>5, NextFile DEF IntakeInv
  <2>2. e \in Payload
    BY <1>1, <1>2 DEF Reply, Payload, IntakeInv, CatalogueInv, Replies
  <2>3. disk' \subseteq Payload /\ lost' \subseteq Payload
    BY <1>5, <2>2 DEF IntakeInv, IntakeTypeOK
  <2>4. IntakeTypeOK'
    BY <1>1, <1>5, <2>1, <2>3 DEF IntakeInv, IntakeTypeOK, projectVars, scanning, metadata, processes
  <2>5. QueueInv'
    BY <1>1, <1>5 DEF IntakeInv, QueueInv, AnswersBelong, InventoryFitsSource, QueuedDownloadsExist,
                      UpdatesAreQueued
  <2>6. MetadataIsCurrent'
    BY <1>1, <1>5, MetadataFrame DEF IntakeInv, projectVars
  <2> QED
    BY <2>1, <2>4, <2>5, <2>6 DEF IntakeInv
<1> QED
  BY <1>3, <1>4, <1>5 DEF FileEnds

-----------------------------------------------------------------------------
(* Payloads from the operator's disks, and their metadata.                  *)

\* A step that changes nothing but the queue of the open project.
LEMMA QueueStep ==
  ASSUME IntakeInv, NEW list \in SUBSET Payload, project \in Directory, setPayloads(list), QueueInv',
         UNCHANGED <<running, projectVars, source, inventory, catalogue, automatic, processes,
                     downloads, unopened>>,
         scanBusy' \in BOOLEAN, UNCHANGED scanGeneration, scans' \subseteq Scan,
         requests' \in Nat, openings' \in Nat, troubles' \in Nat
  PROVE  IntakeInv'
<1>1. /\ payloads' \in [Directory -> SUBSET Payload]
      /\ paths' \subseteq Payload /\ described' \subseteq Payload
      /\ metadataBusy' \in BOOLEAN /\ metadataGeneration' \in Nat /\ readers' \subseteq Reader
      /\ MetadataIsCurrent'
  BY PayloadsSet DEF IntakeInv, projectVars
<1>2. IntakeTypeOK'
  BY <1>1 DEF IntakeInv, IntakeTypeOK, projectVars, catalogue, processes, downloads
<1> QED
  BY <1>1, <1>2, CatalogueFrame DEF IntakeInv

LEMMA AddKeeps ==
  ASSUME IntakeInv, NEW c \in Category, NEW what \in {"inf", "cab"}, addPayloadFiles(c, what)
  PROVE  IntakeInv'
<1> DEFINE e == [as |-> c, what |-> what, for |-> project, n |-> 0]
<1>1. project \in Directory
  BY DEF addPayloadFiles, mayChange, IntakeInv, IntakeTypeOK
<1>2. e \in Payload /\ e.for = project /\ e.what # "download"
  BY <1>1, UpdateAssumption DEF Payload
<1>3. /\ setPayloads(payloads[project] \cup {e})
      /\ UNCHANGED <<running, projectVars, source, inventory, catalogue, automatic, scanning,
                     processes, downloads, unopened>>
  BY DEF addPayloadFiles
<1>4. QueueInv' /\ payloads[project] \cup {e} \in SUBSET Payload
  <2>1. QueueInv'
    BY <1>1, <1>2, <1>3, PayloadsGrow DEF IntakeInv, projectVars, downloads
  <2> QED
    BY <1>1, <1>2, <2>1 DEF IntakeInv, IntakeTypeOK
<1>5. requests' \in Nat /\ openings' \in Nat /\ troubles' \in Nat
  BY Counted DEF IntakeInv, addPayloadFiles
<1>6. scanBusy' \in BOOLEAN /\ UNCHANGED scanGeneration /\ scans' \subseteq Scan
  BY <1>3 DEF IntakeInv, IntakeTypeOK, scanning
<1> QED
  BY <1>1, <1>3, <1>4, <1>5, <1>6, QueueStep

LEMMA RemoveKeeps ==
  ASSUME IntakeInv, NEW e, removeListItem(e)
  PROVE  IntakeInv'
<1>1. project \in Directory
  BY DEF removeListItem, mayChange, IntakeInv, IntakeTypeOK
<1>2. /\ setPayloads(payloads[project] \ {e})
      /\ UNCHANGED <<running, projectVars, source, inventory, catalogue, automatic, scanning,
                     processes, downloads, unopened>>
  BY DEF removeListItem
<1>3. payloads[project] \ {e} \in SUBSET Payload
  BY <1>1 DEF IntakeInv, IntakeTypeOK
<1>4. \A p \in Directory : payloads'[p] \subseteq payloads[p]
  BY <1>1, <1>2, <1>3, PayloadsSet DEF IntakeInv, projectVars
<1>5. QueueInv'
  BY <1>2, <1>4 DEF IntakeInv, QueueInv, AnswersBelong, InventoryFitsSource, QueuedDownloadsExist,
                    UpdatesAreQueued, downloads
<1>6. requests' \in Nat /\ openings' \in Nat /\ troubles' \in Nat
  BY Counted DEF IntakeInv, removeListItem
<1>7. scanBusy' \in BOOLEAN /\ UNCHANGED scanGeneration /\ scans' \subseteq Scan
  BY <1>2 DEF IntakeInv, IntakeTypeOK, scanning
<1> QED
  BY <1>1, <1>2, <1>3, <1>5, <1>6, <1>7, QueueStep

LEMMA ScanStartsKeeps ==
  ASSUME IntakeInv, NEW c \in Category, addPayloadDirectory(c)
  PROVE  IntakeInv'
<1> DEFINE s == [generation |-> scanGeneration + 1, scope |-> scope, for |-> project, as |-> c]
<1>1. UNCHANGED <<running, projectVars, contents, catalogue, automatic, metadata, processes,
                  downloads, unopened>>
  BY DEF addPayloadDirectory
<1>2. project \in Directory /\ scope \in Nat /\ scanGeneration + 1 \in Nat
  BY DEF addPayloadDirectory, IntakeInv, IntakeTypeOK
<1>3. s \in Scan
  BY <1>2 DEF Scan, Category
<1>4. scanBusy' = TRUE /\ scanGeneration' \in Nat /\ scans' \subseteq Scan
  BY <1>2, <1>3 DEF addPayloadDirectory, IntakeInv, IntakeTypeOK
<1>5. requests' \in Nat /\ openings' \in Nat /\ troubles' \in Nat
  BY Counted DEF IntakeInv, addPayloadDirectory
<1>6. IntakeTypeOK'
  BY <1>1, <1>4, <1>5 DEF IntakeInv, IntakeTypeOK, projectVars, contents, catalogue, metadata,
                          processes, downloads
<1> QED
  BY <1>1, <1>6, CatalogueFrame, QueueFrame, MetadataFrame DEF IntakeInv, projectVars, contents

LEMMA ScanEndsKeeps ==
  ASSUME IntakeInv, NEW s \in scans, ScanEnds(s)
  PROVE  IntakeInv'
<1> DEFINE e == [as |-> s.as, what |-> "folder", for |-> s.for, n |-> 0]
<1>1. /\ scans' = scans \ {s} /\ scanBusy' \in BOOLEAN
      /\ UNCHANGED <<running, projectVars, source, inventory, catalogue, automatic,
                     scanGeneration, processes, downloads, unopened, spent>>
  BY DEF ScanEnds, IntakeInv, IntakeTypeOK
<1>2. requests' \in Nat /\ openings' \in Nat /\ troubles' \in Nat /\ scans' \subseteq Scan
  BY <1>1 DEF spent, IntakeInv, IntakeTypeOK
<1>3. CASE s.for = project /\ mayChange /\ setPayloads(payloads[project] \cup {e})
  <2>1. project \in Directory /\ s \in Scan
    BY <1>3 DEF mayChange, IntakeInv, IntakeTypeOK
  <2>2. e \in Payload /\ e.for = project /\ e.what # "download"
    BY <1>3, <2>1, UpdateAssumption DEF Payload, Scan
  <2>3. QueueInv'
    BY <1>1, <1>3, <2>1, <2>2, PayloadsGrow DEF IntakeInv, projectVars, downloads
  <2>4. payloads[project] \cup {e} \in SUBSET Payload
    BY <2>1, <2>2 DEF IntakeInv, IntakeTypeOK
  <2> QED
    BY <1>1, <1>2, <1>3, <2>1, <2>3, <2>4, QueueStep
<1>4. CASE UNCHANGED <<payloads, metadata>>
  <2>1. IntakeTypeOK'
    BY <1>1, <1>2, <1>4 DEF IntakeInv, IntakeTypeOK, projectVars, catalogue, metadata, processes,
                            downloads
  <2> QED
    BY <1>1, <1>4, <2>1, CatalogueFrame, QueueFrame, MetadataFrame DEF IntakeInv, projectVars, contents
<1> QED
  BY <1>3, <1>4 DEF ScanEnds

LEMMA RefreshKeeps ==
  ASSUME IntakeInv, refreshPayloadCatalog
  PROVE  IntakeInv'
<1>1. /\ describe(now)
      /\ UNCHANGED <<running, projectVars, contents, catalogue, automatic, scanning, processes,
                     downloads, unopened>>
  BY DEF refreshPayloadCatalog
<1>2. now \in SUBSET Payload /\ now' = now
  BY <1>1 DEF now, IntakeInv, IntakeTypeOK, projectVars, contents
<1>3. /\ paths' \subseteq Payload /\ described' \subseteq Payload
      /\ metadataBusy' \in BOOLEAN /\ metadataGeneration' \in Nat /\ readers' \subseteq Reader
      /\ MetadataIsCurrent'
  BY <1>1, <1>2, Described DEF IntakeInv, MetadataIsCurrent
<1>4. requests' \in Nat /\ openings' \in Nat /\ troubles' \in Nat
  BY Counted DEF IntakeInv, refreshPayloadCatalog
<1>5. IntakeTypeOK'
  BY <1>1, <1>3, <1>4 DEF IntakeInv, IntakeTypeOK, projectVars, contents, catalogue, scanning,
                          processes, downloads
<1> QED
  BY <1>1, <1>3, <1>5, CatalogueFrame, QueueFrame DEF IntakeInv

LEMMA MetadataReadKeeps ==
  ASSUME IntakeInv, NEW r \in readers, MetadataRead(r)
  PROVE  IntakeInv'
<1>1. /\ readers' = readers \ {r}
      /\ UNCHANGED <<running, projectVars, contents, catalogue, automatic, scanning, paths,
                     metadataGeneration, processes, downloads, unopened, spent>>
  BY DEF MetadataRead
<1>2. IntakeTypeOK'
  BY <1>1 DEF MetadataRead, IntakeInv, IntakeTypeOK, Reader, projectVars, contents, catalogue,
              scanning, processes, downloads, spent
<1>3. MetadataIsCurrent'
  <2>1. now' = now
    BY <1>1 DEF now, projectVars, contents
  <2>2. r = [generation |-> r.generation, paths |-> r.paths]
    BY DEF IntakeInv, IntakeTypeOK, Reader
  <2>3. CASE r.generation = metadataGeneration /\ r.paths = paths
    BY <1>1, <2>1, <2>3 DEF MetadataRead, IntakeInv, MetadataIsCurrent
  <2>4. CASE ~(r.generation = metadataGeneration /\ r.paths = paths)
    BY <1>1, <2>1, <2>2, <2>4 DEF MetadataRead, IntakeInv, MetadataIsCurrent
  <2> QED
    BY <2>3, <2>4
<1> QED
  BY <1>1, <1>2, <1>3, CatalogueFrame, QueueFrame DEF IntakeInv

-----------------------------------------------------------------------------
(* The source and its inventory, and the drivers of the host.               *)

LEMMA SetSourceKeeps ==
  ASSUME IntakeInv, NEW s \in Source, setSourcePath(s)
  PROVE  IntakeInv'
<1>1. /\ project \in Directory
      /\ source' = [source EXCEPT ![project] = s]
      /\ inventory' = [inventory EXCEPT ![project] = NoSource]
      /\ UNCHANGED <<running, projectVars, payloads, catalogue, automatic, scanning, metadata,
                     processes, downloads, unopened>>
  BY DEF setSourcePath, mayChange, IntakeInv, IntakeTypeOK
<1>2. requests' \in Nat /\ openings' \in Nat /\ troubles' \in Nat
  BY Counted DEF IntakeInv, setSourcePath
<1>3. IntakeTypeOK'
  <2>1. /\ source' \in [Directory -> Source \cup {NoSource}]
        /\ inventory' \in [Directory -> Source \cup {NoSource}]
    BY <1>1 DEF IntakeInv, IntakeTypeOK
  <2> QED
    BY <1>1, <1>2, <2>1 DEF IntakeInv, IntakeTypeOK, projectVars, catalogue, scanning, metadata,
                            processes, downloads
<1>4. QueueInv'
  <2>1. InventoryFitsSource'
    BY <1>1 DEF IntakeInv, IntakeTypeOK, QueueInv, InventoryFitsSource
  <2> QED
    BY <1>1, <2>1 DEF IntakeInv, QueueInv, AnswersBelong, QueuedDownloadsExist, UpdatesAreQueued,
                      downloads
<1> QED
  BY <1>1, <1>3, <1>4, CatalogueFrame, MetadataFrame DEF IntakeInv, projectVars

LEMMA InspectKeeps ==
  ASSUME IntakeInv, inspectSource
  PROVE  IntakeInv'
<1> DEFINE i == [generation |-> inspection + 1, scope |-> scope, for |-> project,
                 source |-> source[project], late |-> FALSE]
<1>1. /\ inspection' = inspection + 1
      /\ UNCHANGED <<running, projectVars, contents, catalogue, automatic, scanning, metadata,
                     exports, downloads, unopened>>
  BY DEF inspectSource
<1>2. i \in Inspection
  <2>1. project \in Directory /\ scope \in Nat /\ inspection + 1 \in Nat
    BY DEF inspectSource, mayChange, IntakeInv, IntakeTypeOK
  <2>2. source[project] \in Source
    BY <2>1 DEF inspectSource, IntakeInv, IntakeTypeOK
  <2> QED
    BY <2>1, <2>2 DEF Inspection
<1>3. inspecting' \in BOOLEAN /\ inspections' \subseteq Inspection /\ inspection' \in Nat
  <2>1. /\ inspecting' = TRUE \/ inspecting' = inspecting
        /\ inspections' \in {inspections, inspections \cup {i}}
    BY DEF inspectSource
  <2>2. inspecting \in BOOLEAN /\ inspections \subseteq Inspection /\ inspection \in Nat
    BY DEF IntakeInv, IntakeTypeOK
  <2>3. inspecting' \in BOOLEAN
    BY <2>1, <2>2
  <2>4. inspections' \subseteq Inspection
    BY <1>2, <2>1, <2>2
  <2> QED
    BY <1>1, <2>2, <2>3, <2>4
<1>4. requests' \in Nat /\ openings' \in Nat /\ troubles' \in Nat
  BY Counted DEF IntakeInv, inspectSource
<1>5. IntakeTypeOK'
  BY <1>1, <1>3, <1>4 DEF IntakeInv, IntakeTypeOK, projectVars, contents, catalogue, scanning,
                          metadata, downloads
<1> QED
  BY <1>1, <1>5, CatalogueFrame, QueueFrame, MetadataFrame DEF IntakeInv, projectVars, contents

LEMMA OverdueKeeps ==
  ASSUME IntakeInv, NEW i \in inspections, InspectionOverdue(i)
  PROVE  IntakeInv'
<1>1. /\ inspections' = (inspections \ {i}) \cup {[i EXCEPT !.late = TRUE]}
      /\ UNCHANGED <<running, projectVars, contents, catalogue, automatic, scanning, metadata,
                     inspecting, inspection, exports, downloads, unopened>>
  BY DEF InspectionOverdue
<1>2. inspections' \subseteq Inspection
  BY <1>1 DEF IntakeInv, IntakeTypeOK, Inspection
<1>3. requests' \in Nat /\ openings' \in Nat /\ troubles' \in Nat
  BY Counted DEF IntakeInv, InspectionOverdue
<1>4. IntakeTypeOK'
  BY <1>1, <1>2, <1>3 DEF IntakeInv, IntakeTypeOK, projectVars, contents, catalogue, scanning,
                          metadata, downloads
<1> QED
  BY <1>1, <1>4, CatalogueFrame, QueueFrame, MetadataFrame DEF IntakeInv, projectVars, contents

\* The inventory is of the source the project names, for it was compared.
LEMMA InspectionEndsKeeps ==
  ASSUME IntakeInv, NEW i \in inspections, InspectionEnds(i)
  PROVE  IntakeInv'
<1>1. /\ inspections' = inspections \ {i} /\ inspecting' \in BOOLEAN
      /\ UNCHANGED <<projectVars, payloads, source, automatic, scanning, metadata, inspection,
                     exports, downloads, unopened, spent>>
  BY DEF InspectionEnds, IntakeInv, IntakeTypeOK
<1>2. /\ inventory' \in [Directory -> Source \cup {NoSource}] /\ InventoryFitsSource'
      /\ running' \in BOOLEAN /\ query' \in Query /\ busy' \in BOOLEAN /\ operation' \in Nat
      /\ results' \subseteq [query : Query, for : Directory \cup {NoDirectory}]
      /\ reply' \in Reply \cup {NoReply} /\ replies' \subseteq Reply
      /\ CatalogueInv'
  <2>1. CASE /\ sameSource(i) /\ mayChange
             /\ inventory' = [inventory EXCEPT ![project] = i.source]
             /\ searchUpdateCatalog(i.source) \/ UNCHANGED <<running, catalogue>>
    <3>1. project \in Directory /\ i.source \in Source /\ i.source = source[project]
      BY <2>1 DEF mayChange, sameSource, IntakeInv, IntakeTypeOK, Inspection
    <3>2. inventory' \in [Directory -> Source \cup {NoSource}] /\ InventoryFitsSource'
      BY <1>1, <2>1, <3>1 DEF IntakeInv, IntakeTypeOK, QueueInv, InventoryFitsSource
    <3>3. CASE searchUpdateCatalog(i.source)
      BY <1>1, <3>1, <3>2, <3>3, SearchStarts DEF IntakeInv, Query
    <3>4. CASE UNCHANGED <<running, catalogue>>
      BY <1>1, <3>2, <3>4, CatalogueFrame DEF IntakeInv, IntakeTypeOK, catalogue
    <3> QED
      BY <2>1, <3>3, <3>4
  <2>2. CASE UNCHANGED <<running, inventory, catalogue>>
    BY <1>1, <2>2, CatalogueFrame DEF IntakeInv, IntakeTypeOK, QueueInv, InventoryFitsSource, catalogue
  <2> QED
    BY <2>1, <2>2 DEF InspectionEnds
<1>3. IntakeTypeOK'
  BY <1>1, <1>2 DEF IntakeInv, IntakeTypeOK, projectVars, scanning, metadata, downloads, spent
<1>4. QueueInv'
  BY <1>1, <1>2 DEF IntakeInv, QueueInv, AnswersBelong, QueuedDownloadsExist, UpdatesAreQueued,
                    downloads
<1> QED
  BY <1>1, <1>2, <1>3, <1>4, MetadataFrame DEF IntakeInv, projectVars

LEMMA ImportKeeps ==
  ASSUME IntakeInv, importHostDrivers
  PROVE  IntakeInv'
<1> DEFINE x == [id |-> requests, for |-> project]
<1>1. UNCHANGED <<running, projectVars, contents, catalogue, automatic, scanning, metadata,
                  inspection, inspections, downloads, unopened>>
  BY DEF importHostDrivers
<1>2. x \in Export
  BY DEF importHostDrivers, IntakeInv, IntakeTypeOK, Export
<1>3. inspecting' \in BOOLEAN /\ exports' \subseteq Export
  BY <1>2 DEF importHostDrivers, IntakeInv, IntakeTypeOK
<1>4. requests' \in Nat /\ openings' \in Nat /\ troubles' \in Nat
  BY Counted DEF IntakeInv, importHostDrivers
<1>5. IntakeTypeOK'
  BY <1>1, <1>3, <1>4 DEF IntakeInv, IntakeTypeOK, projectVars, contents, catalogue, scanning,
                          metadata, downloads
<1> QED
  BY <1>1, <1>5, CatalogueFrame, QueueFrame, MetadataFrame DEF IntakeInv, projectVars, contents

LEMMA ExportEndsKeeps ==
  ASSUME IntakeInv, NEW x \in exports, ExportEnds(x)
  PROVE  IntakeInv'
<1> DEFINE e == [as |-> "drivers", what |-> "hostDrivers", for |-> x.for, n |-> 0]
<1>1. /\ exports' = exports \ {x} /\ inspecting' = FALSE
      /\ UNCHANGED <<running, projectVars, source, inventory, catalogue, automatic, scanning,
                     inspection, inspections, downloads, unopened, spent>>
  BY DEF ExportEnds
<1>2. e \in Payload /\ e.what = "hostDrivers"
  BY UpdateAssumption DEF IntakeInv, IntakeTypeOK, Export, Payload, Category
<1>3. CASE mayChange /\ setPayloads(payloads[project] \cup {e})
  <2>1. project \in Directory
    BY <1>3 DEF mayChange, IntakeInv, IntakeTypeOK
  <2>2. QueueInv'
    BY <1>1, <1>2, <1>3, <2>1, PayloadsGrow DEF IntakeInv, projectVars, downloads
  <2>3. payloads[project] \cup {e} \in SUBSET Payload
    BY <1>2, <2>1 DEF IntakeInv, IntakeTypeOK
  <2>4. /\ payloads' \in [Directory -> SUBSET Payload]
        /\ paths' \subseteq Payload /\ described' \subseteq Payload
        /\ metadataBusy' \in BOOLEAN /\ metadataGeneration' \in Nat /\ readers' \subseteq Reader
        /\ MetadataIsCurrent'
    BY <1>1, <1>3, <2>1, <2>3, PayloadsSet DEF IntakeInv, projectVars
  <2>5. IntakeTypeOK'
    BY <1>1, <2>4 DEF IntakeInv, IntakeTypeOK, projectVars, catalogue, scanning, downloads, spent
  <2> QED
    BY <1>1, <2>2, <2>4, <2>5, CatalogueFrame DEF IntakeInv
<1>4. CASE UNCHANGED <<payloads, metadata>>
  <2>1. IntakeTypeOK'
    BY <1>1, <1>4 DEF IntakeInv, IntakeTypeOK, projectVars, catalogue, scanning, metadata, downloads,
                      spent
  <2> QED
    BY <1>1, <1>4, <2>1, CatalogueFrame, QueueFrame, MetadataFrame DEF IntakeInv, projectVars, contents
<1> QED
  BY <1>3, <1>4 DEF ExportEnds

-----------------------------------------------------------------------------
(* Projects come and go.                                                    *)

\* A project is being opened: nothing is asked of a busy sheet.
LEMMA OpenKeeps ==
  ASSUME IntakeInv, (\E p \in Directory : openDirectory(p)) \/ externalChange
  PROVE  IntakeInv'
<1>1. /\ transition' \in Directory /\ scope' = scope + 1
      /\ scanGeneration' \in Nat /\ scanBusy' \in BOOLEAN
      /\ UNCHANGED <<running, project, contents, catalogue, automatic, scans, metadata, processes,
                     downloads, unopened>>
  <2>1. ASSUME NEW p \in Directory, openDirectory(p)
        PROVE  /\ transition' \in Directory /\ scope' = scope + 1
               /\ scanGeneration' = scanGeneration + 1 /\ scanBusy' = FALSE
               /\ UNCHANGED <<running, project, contents, catalogue, automatic, scans, metadata,
                              processes, downloads, unopened>>
    BY <2>1 DEF openDirectory
  <2>2. ASSUME externalChange
        PROVE  /\ transition' = project /\ project # NoDirectory /\ scope' = scope + 1
               /\ UNCHANGED <<running, project, contents, catalogue, automatic, scanGeneration,
                              scanBusy, scans, metadata, processes, downloads, unopened>>
    BY <2>2 DEF externalChange, mayChange, scanning
  <2>3. /\ project \in Directory \cup {NoDirectory}
        /\ scanGeneration \in Nat /\ scanGeneration + 1 \in Nat /\ scanBusy \in BOOLEAN
    BY DEF IntakeInv, IntakeTypeOK
  <2> QED
    BY <2>1, <2>2, <2>3
<1>2. requests' \in Nat /\ openings' \in Nat /\ troubles' \in Nat
  BY Counted DEF IntakeInv, openDirectory, externalChange
<1>3. IntakeTypeOK'
  BY <1>1, <1>2 DEF IntakeInv, IntakeTypeOK, contents, catalogue, metadata, processes, downloads
<1>4. transition' # NoDirectory
  BY <1>1, NoDirectoryAssumption
<1>5. CatalogueInv'
  BY <1>1, <1>4 DEF IntakeInv, CatalogueInv, Replies, ResultsFitQuery, BusyIsAnswered, catalogue
<1> QED
  BY <1>1, <1>3, <1>5, QueueFrame, MetadataFrame DEF IntakeInv, contents

LEMMA LoadKeeps ==
  ASSUME IntakeInv, NEW p \in Directory, loadProjectState(p), unopened' \in BOOLEAN,
         requests' \in Nat, openings' \in Nat, troubles' \in Nat
  PROVE  IntakeInv'
<1>1. /\ project' = p /\ transition' = NoDirectory /\ scope' = scope + 1
      /\ scanGeneration' = scanGeneration + 1 /\ scanBusy' = FALSE
      /\ running' \in BOOLEAN /\ reply' = NoReply /\ replies' = replies \ {reply}
      /\ operation' = operation + 1 /\ busy' = FALSE /\ query' = NoSource /\ results' = {}
      /\ reloadPayloadCatalog(payloads[p])
      /\ UNCHANGED <<contents, scans, processes, downloads>>
  BY DEF loadProjectState, abortKept, notAborted, forgetResults
<1>2. automatic' \subseteq Automatic
  <2>1. inventory[p] # NoSource => [scope |-> scope + 1, query |-> inventory[p]] \in Automatic
    BY DEF IntakeInv, IntakeTypeOK, Automatic
  <2> QED
    BY <2>1 DEF loadProjectState, IntakeInv, IntakeTypeOK
<1>3. payloads[p] \in SUBSET Payload /\ now' = payloads[p]
  BY <1>1, NoDirectoryAssumption DEF now, contents, IntakeInv, IntakeTypeOK
<1>4. /\ paths' \subseteq Payload /\ described' \subseteq Payload
      /\ metadataBusy' \in BOOLEAN /\ metadataGeneration' \in Nat /\ readers' \subseteq Reader
      /\ MetadataIsCurrent'
  BY <1>1, <1>3, Described DEF IntakeInv, MetadataIsCurrent
<1>5. IntakeTypeOK'
  <2>1. scope' \in Nat /\ scanGeneration' \in Nat /\ operation' \in Nat
    BY <1>1 DEF IntakeInv, IntakeTypeOK
  <2>2. query' \in Query /\ replies' \subseteq Reply /\ reply' \in Reply \cup {NoReply}
    BY <1>1 DEF IntakeInv, IntakeTypeOK, Query
  <2> QED
    BY <1>1, <1>2, <1>4, <2>1, <2>2 DEF IntakeInv, IntakeTypeOK, contents, processes, downloads
<1>6. CatalogueInv'
  <2>1. Replies'
    <3> SUFFICES ASSUME NEW r \in replies'
                 PROVE  /\ r.operation < operation'
                        /\ r.kind # "search" => r.for \in Directory
      BY <1>1 DEF Replies, IntakeInv, IntakeTypeOK, Reply
    <3>1. r.operation \in Nat /\ operation \in Nat /\ r \in replies
      BY <1>1 DEF IntakeInv, IntakeTypeOK, Reply
    <3> QED
      BY <1>1, <3>1 DEF IntakeInv, CatalogueInv, Replies
  <2> QED
    BY <1>1, <2>1 DEF CatalogueInv, ResultsFitQuery, BusyIsAnswered
<1> QED
  BY <1>1, <1>4, <1>5, <1>6, QueueFrame DEF IntakeInv

LEMMA OpeningEndsKeeps ==
  ASSUME IntakeInv, OpeningEnds
  PROVE  IntakeInv'
<1>1. requests' \in Nat /\ openings' \in Nat /\ troubles' \in Nat
  BY Counted DEF IntakeInv, OpeningEnds
<1>2. CASE loadProjectState(transition) /\ UNCHANGED unopened
  BY <1>1, <1>2, LoadKeeps DEF OpeningEnds, IntakeInv, IntakeTypeOK
<1>3. CASE /\ transition' = NoDirectory /\ unopened' = TRUE
           /\ UNCHANGED <<running, project, scope, contents, catalogue, automatic, scanning,
                          metadata, processes, downloads>>
  <2>1. IntakeTypeOK'
    BY <1>1, <1>3 DEF IntakeInv, IntakeTypeOK, contents, catalogue, scanning, metadata, processes,
                      downloads
  <2>2. CatalogueInv'
    BY <1>3 DEF IntakeInv, CatalogueInv, Replies, ResultsFitQuery, BusyIsAnswered, catalogue
  <2> QED
    BY <1>3, <2>1, <2>2, QueueFrame, MetadataFrame DEF IntakeInv, contents
<1> QED
  BY <1>2, <1>3 DEF OpeningEnds

LEMMA ReloadKeeps ==
  ASSUME IntakeInv, reloadAfterUndo
  PROVE  IntakeInv'
<1>1. requests' \in Nat /\ openings' \in Nat /\ troubles' \in Nat
  BY Counted DEF IntakeInv, reloadAfterUndo
<1> QED
  BY <1>1, LoadKeeps DEF reloadAfterUndo, mayChange, IntakeInv, IntakeTypeOK

-----------------------------------------------------------------------------
LEMMA NextKeeps ==
  ASSUME IntakeInv, [IntakeNext]_intakeVars
  PROVE  IntakeInv'
<1>1. CASE UNCHANGED intakeVars
  <2>1. IntakeTypeOK'
    BY <1>1 DEF intakeVars, projectVars, contents, catalogue, scanning, metadata, processes,
                downloads, spent, IntakeInv, IntakeTypeOK
  <2> QED
    BY <1>1, <2>1, CatalogueFrame, QueueFrame, MetadataFrame
       DEF intakeVars, projectVars, contents, IntakeInv
<1>2. CASE IntakeNext
  <2>1. CASE Answered
    <3>1. ASSUME NEW r \in replies, StaleReply(r) \/ SearchEnds(r) \/ DialogEnds(r) \/ FileEnds(r)
          PROVE  IntakeInv'
      BY <3>1, StaleReplyKeeps, SearchEndsKeeps, DialogEndsKeeps, FileEndsKeeps
    <3>2. ASSUME NEW a \in automatic, AutomaticSearch(a)
          PROVE  IntakeInv'
      BY <3>2, AutomaticSearchKeeps
    <3> QED
      BY <2>1, <3>1, <3>2 DEF Answered
  <2>2. ASSUME NEW r \in readers, MetadataRead(r) PROVE IntakeInv'
    BY <2>2, MetadataReadKeeps
  <2>3. ASSUME NEW s \in scans, ScanEnds(s) PROVE IntakeInv'
    BY <2>3, ScanEndsKeeps
  <2>4. ASSUME NEW i \in inspections, InspectionOverdue(i) \/ InspectionEnds(i) PROVE IntakeInv'
    BY <2>4, OverdueKeeps, InspectionEndsKeeps
  <2>5. ASSUME NEW x \in exports, ExportEnds(x) PROVE IntakeInv'
    BY <2>5, ExportEndsKeeps
  <2>6. CASE OpeningEnds
    BY <2>6, OpeningEndsKeeps
  <2>7. CASE Search \/ cancelUpdateCatalog \/ refreshPayloadCatalog
    BY <2>7, SearchKeeps, CancelKeeps, RefreshKeeps
  <2>8. ASSUME NEW c \in Category,
               \/ downloadUpdateCatalogItem(c) \/ addPayloadDirectory(c)
               \/ \E what \in {"inf", "cab"} : addPayloadFiles(c, what)
        PROVE  IntakeInv'
    BY <2>8, DownloadKeeps, ScanStartsKeeps, AddKeeps
  <2>9. ASSUME NEW e \in now, removeListItem(e) PROVE IntakeInv'
    BY <2>9, RemoveKeeps
  <2>10. ASSUME NEW s \in Source, setSourcePath(s) PROVE IntakeInv'
    BY <2>10, SetSourceKeeps
  <2>11. CASE inspectSource \/ importHostDrivers
    BY <2>11, InspectKeeps, ImportKeeps
  <2>12. CASE (\E p \in Directory : openDirectory(p)) \/ externalChange
    BY <2>12, OpenKeeps
  <2>13. CASE reloadAfterUndo
    BY <2>13, ReloadKeeps
  <2> QED
    BY <1>2, <2>1, <2>2, <2>3, <2>4, <2>5, <2>6, <2>7, <2>8, <2>9, <2>10, <2>11, <2>12, <2>13
       DEF IntakeNext
<1> QED
  BY <1>1, <1>2

\* All of the invariant holds.
LEMMA IntakeIsInvariant == IntakeSpec => []IntakeInv
<1>1. IntakeInv /\ [IntakeNext]_intakeVars => IntakeInv'
  BY NextKeeps
<1> QED
  BY InitIntakeInv, <1>1, PTL DEF IntakeSpec

\* What a window takes in is of the project that asked, is on the disk, is described
\* as it is queued, and a busy sheet has a reply to wait for.
THEOREM IntakeHolds == IntakeSpec => []IntakeIsSound
<1>1. IntakeInv => IntakeIsSound
  BY DEF IntakeInv, CatalogueInv, QueueInv, IntakeIsSound, BusyIsAnswered, BusyHasAReply
<1> QED
  BY <1>1, IntakeIsInvariant, PTL
=============================================================================
