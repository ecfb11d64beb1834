------------------------- MODULE ActionHistoryProofs -------------------------
(***************************************************************************)
(* The action history stays whole, for any windows, lanes and bounds: it   *)
(* can always be read, and what was acknowledged is in the journal and in  *)
(* the latest commit, with a commit of its own.                            *)
(*                                                                         *)
(* Readability needs no lock: every copy of the journal, in a file, the    *)
(* index, a commit or a call, is an intact one, and an event appended to   *)
(* any of them gets an identifier none of them has.  What was acknowledged *)
(* stays because only the lock's owner writes the journal, puts the bytes  *)
(* it read back, or stages it.                                             *)
(***************************************************************************)
EXTENDS MCActionHistory, WellFoundedInduction, TLAPS

Tree == [journal : Seq(Event), project : Nat]
Commit == [tree : Tree, event : Nat]

\* An intact journal whose identifiers have all been given out.
Sound(s, n) == Intact(s) /\ \A i \in DOMAIN s : s[i].id \in 1..n

AllSound ==
  /\ Sound(work.journal, lastId) /\ Sound(index.journal, lastId)
  /\ \A i \in DOMAIN commits : Sound(commits[i].tree.journal, lastId)
  /\ \A w \in Window : Sound(call[w].loaded, lastId) /\ Sound(call[w].previous, lastId)

\* What is still to be held: acknowledged, and not lost by a rollback.
Held == acknowledged \ lost
USE DEF Held

\* What a rollback of the call would bring back, or count as lost.
Backed(c) == Ids(c.previous) \union (IF c.unread THEN Ids(c.loaded) ELSE {})

InStep(c) ==
  /\ c.built <= lastId
  /\ c.pc \in {"stage", "commit"} => c.built # NoEvent
  /\ c.pc = "revert" => Len(commits) >= 2

Numbered ==
  /\ acknowledged \subseteq 1..lastId
  /\ \A i \in DOMAIN commits : commits[i].event <= lastId
  /\ \A w \in Window : InStep(call[w])

Locking == {"load", "write", "stage", "commit", "rollback"}
Owned == \A w \in Window : call[w].pc \in Locking => lock = w

\* What the owner of the lock has in hand.
InHand(c) ==
  /\ c.pc \notin {"revert", "commitRevert"}
  /\ c.pc = "write" => Held \subseteq Ids(c.loaded)
  /\ c.pc \in {"stage", "commit", "rollback"} => Held \subseteq Backed(c)
  /\ c.pc \in {"stage", "commit"} =>
       /\ c.built \in Ids(work.journal)
       /\ \A i \in DOMAIN commits : commits[i].event # c.built
  /\ c.pc = "commit" => c.built \in Ids(index.journal)

\* Without reverts.
Kept ==
  reverts = 0 =>
    /\ Held \subseteq Ids(work.journal)
    /\ Held \subseteq Ids(index.journal)
    /\ Held \subseteq Ids(HEAD.journal)
    /\ \A w \in Window : InHand(call[w])

Whole == TypeOK /\ AllSound /\ Numbered /\ Owned /\ Kept /\ OneCommitEach

-----------------------------------------------------------------------------
(* Data.                                                                    *)

LEMMA TreeFields ==
  ASSUME NEW t
  PROVE  t \in Tree <=> /\ t = [p \in Path |-> t[p]]
                        /\ t.journal \in Seq(Event) /\ t.project \in Nat
BY DEF Tree, Path

LEMMA SoundLasts ==
  ASSUME NEW s \in Seq(Event), NEW n \in Nat, NEW m \in Nat, n <= m, Sound(s, n)
  PROVE  Sound(s, m)
BY DEF Sound

LEMMA LaneType ==
  ASSUME NEW s \in Seq(Event), NEW lane \in Lane \union {NoLane}
  PROVE  currentBranch(s) \in Lane /\ laneFor(s, lane) \in Lane
<1>1. currentBranch(s) \in Lane
  <2>1. CASE s = <<>>
    BY <2>1, MainAssumption DEF currentBranch
  <2>2. CASE s # <<>>
    <3>1. s[Len(s)] \in Event
      BY <2>2
    <3> QED
      BY <2>2, <3>1 DEF currentBranch, Event
  <2> QED
    BY <2>1, <2>2
<1> QED
  BY <1>1 DEF laneFor

\* An event with a new identifier, appended to an intact journal.
LEMMA AppendIsSound ==
  ASSUME NEW s \in Seq(Event), NEW n \in Nat, Sound(s, n), NEW e \in Event,
         e.id = n + 1, e.seq = nextSequence(s), e.prev = IF s = <<>> THEN 0 ELSE s[Len(s)].id
  PROVE  /\ Append(s, e) \in Seq(Event) /\ Sound(Append(s, e), n + 1)
         /\ Ids(Append(s, e)) = Ids(s) \cup {n + 1}
<1> DEFINE t == Append(s, e)
<1>1. /\ t \in Seq(Event) /\ Len(t) = Len(s) + 1 /\ Len(s) \in Nat /\ t[Len(s) + 1] = e
      /\ DOMAIN t = 1..Len(s) + 1 /\ DOMAIN s = 1..Len(s)
      /\ \A i \in 1..Len(s) : t[i] = s[i]
  OBVIOUS
<1> HIDE DEF t
<1>2. \A i \in DOMAIN t : t[i].id \in 1..(n + 1)
  BY <1>1 DEF Sound
<1>3. ASSUME NEW i \in DOMAIN t
      PROVE  /\ t[i].seq = i
             /\ t[i].prev = IF i = 1 THEN 0 ELSE t[i - 1].id
             /\ t[i].lane # NoLane
             /\ \A j \in DOMAIN t : t[i].id = t[j].id => i = j
  <2>1. CASE i \in 1..Len(s)
    <3>1. t[i] = s[i] /\ i \in DOMAIN s /\ s[i].id \in 1..n
      BY <1>1, <2>1 DEF Sound
    <3>2. i # 1 => t[i - 1] = s[i - 1]
      BY <1>1, <2>1
    <3>3. \A j \in DOMAIN t : t[i].id = t[j].id => i = j
      BY <1>1, <3>1 DEF Sound, Intact
    <3> QED
      BY <3>1, <3>2, <3>3 DEF Sound, Intact
  <2>2. CASE i = Len(s) + 1
    <3>1. t[i] = e /\ e.lane # NoLane
      BY <1>1, <2>2, MainAssumption DEF Event
    <3>2. e.seq = i
      BY <2>2 DEF nextSequence
    <3>3. e.prev = IF i = 1 THEN 0 ELSE t[i - 1].id
      <4>1. CASE s = <<>>
        BY <1>1, <2>2, <4>1
      <4>2. CASE s # <<>>
        <5>1. Len(s) \in 1..Len(s) /\ i - 1 = Len(s) /\ i # 1
          BY <1>1, <2>2, <4>2
        <5> QED
          BY <1>1, <4>2, <5>1
      <4> QED
        BY <4>1, <4>2
    <3>4. \A j \in DOMAIN t : t[i].id = t[j].id => i = j
      BY <1>1, <2>2, <3>1 DEF Sound
    <3> QED
      BY <3>1, <3>2, <3>3, <3>4
  <2> QED
    BY <1>1, <2>1, <2>2
<1>4. Sound(t, n + 1)
  BY <1>2, <1>3 DEF Sound, Intact
<1>5. Ids(t) = Ids(s) \cup {n + 1}
  BY <1>1 DEF Ids
<1> QED
  BY <1>1, <1>4, <1>5 DEF t

\* A set of positions has a last one.
LEMMA LastOfSome ==
  ASSUME NEW n \in Nat, NEW I \in SUBSET (1..n), I # {}
  PROVE  lastOf(I) \in I
<1> DEFINE S == {n - i : i \in I}
<1>1. S \subseteq Nat /\ S # {}
  <2>1. \A i \in I : n - i \in Nat
    <3> SUFFICES ASSUME NEW i \in I PROVE n - i \in Nat
      OBVIOUS
    <3>1. i \in 1..n
      OBVIOUS
    <3> QED
      BY <3>1
  <2>2. PICK i \in I : TRUE
    OBVIOUS
  <2>3. n - i \in S
    BY <2>2
  <2> QED
    BY <2>1, <2>3
<1>2. PICK k \in S : \A m \in S : k <= m
  <2> HIDE DEF S
  <2>1. PICK k \in S : \A m \in S : <<m, k>> \notin OpToRel(<, Nat)
    BY <1>1, WFMin, NatLessThanWellFounded
  <2>2. k \in Nat
    BY <1>1
  <2>3. \A m \in S : m \in Nat
    BY <1>1
  <2>4. \A m \in S : ~(m < k)
    BY <2>1, <2>2, <2>3, Zenon DEF OpToRel
  <2> QED
    BY <2>2, <2>3, <2>4
<1>3. PICK i \in I : k = n - i
  BY <1>2
<1>4. \A j \in I : j <= i
  <2> SUFFICES ASSUME NEW j \in I PROVE j <= i
    OBVIOUS
  <2>1. n - j \in S /\ i \in 1..n /\ j \in 1..n
    OBVIOUS
  <2>2. n - i <= n - j
    BY <1>2, <1>3, <2>1
  <2> QED
    BY <2>1, <2>2
<1> QED
  BY <1>3, <1>4 DEF lastOf

LEMMA LastIsInChain ==
  ASSUME NEW s \in Seq(Event), NEW root, chainFor(s, root) # {}
  PROVE  lastOf(chainFor(s, root)) \in chainFor(s, root)
<1>1. chainFor(s, root) \in SUBSET (1..Len(s)) /\ Len(s) \in Nat
  BY DEF chainFor
<1> QED
  BY <1>1, LastOfSome

LEMMA CompensationType ==
  ASSUME NEW s \in Seq(Event), NEW root \in Nat, NEW verb \in EventType, chainFor(s, root) # {}
  PROVE  compensation(s, root, verb) \in Draft
<1>1. lastOf(chainFor(s, root)) \in DOMAIN s
  BY LastIsInChain DEF chainFor
<1>a. s[lastOf(chainFor(s, root))] \in Event
  BY <1>1
<1>2. s[lastOf(chainFor(s, root))].id \in Nat
  BY <1>a DEF Event
<1>3. currentBranch(s) \in Lane
  BY LaneType
<1> QED
  BY <1>2, <1>3 DEF compensation, Draft, EventType

LEMMA RootType ==
  ASSUME NEW s \in Seq(Event), NEW i \in DOMAIN s
  PROVE  rootIdFor(s[i]) \in Nat /\ s[i].id \in Nat /\ s[i].lane \in Lane
<1>1. s[i] \in Event
  OBVIOUS
<1> QED
  BY <1>1 DEF Event, rootIdFor

-----------------------------------------------------------------------------
(* What every step keeps.                                                   *)

OnlyCall(w) == call' = [u \in Window |-> IF u = w THEN call'[w] ELSE call[u]]

CountersOK == calls \in Nat /\ saves \in Nat /\ reverts \in Nat /\ faults \in Nat /\ crashes \in Nat

\* The owner of the lock moves, or whoever moves leaves the lock alone.
LockMoves(w) ==
  /\ lock' \in {lock, Nobody, w} /\ (lock' = lock \/ lock \in {w, Nobody})
  /\ call'[w].pc \in Locking => lock' = w

Committed(event) == commits' = Append(commits, [tree |-> index, event |-> event])

LEMMA CommitAppended ==
  ASSUME TypeOK, NEW event \in Nat, Committed(event)
  PROVE  /\ commits' \in Seq(Commit) /\ Len(commits') >= 1 /\ Len(commits') = Len(commits) + 1
         /\ DOMAIN commits' = DOMAIN commits \cup {Len(commits')} /\ Len(commits') \notin DOMAIN commits
         /\ commits'[Len(commits')].event = event /\ commits'[Len(commits')].tree = index
         /\ \A i \in DOMAIN commits : commits'[i] = commits[i]
<1> DEFINE c == [tree |-> index, event |-> event]
<1>1. c \in Commit /\ c.tree = index /\ c.event = event
  BY DEF TypeOK, Commit, Tree
<1>2. commits \in Seq(Commit) /\ commits' = Append(commits, c)
  BY DEF TypeOK, Commit, Tree, Committed
<1> HIDE DEF c
<1>3. /\ commits' \in Seq(Commit) /\ Len(commits') = Len(commits) + 1 /\ Len(commits) \in Nat
      /\ commits'[Len(commits) + 1] = c
      /\ \A i \in 1..Len(commits) : commits'[i] = commits[i]
  BY <1>1, <1>2
<1>4. DOMAIN commits = 1..Len(commits) /\ DOMAIN commits' = 1..Len(commits')
  BY <1>2, <1>3
<1> QED
  BY <1>1, <1>3, <1>4

LEMMA TypesKept ==
  ASSUME TypeOK, NEW w \in Window, OnlyCall(w), call'[w] \in Call,
         work' \in Tree, index' \in Tree,
         UNCHANGED commits \/ \E event \in Nat : Committed(event),
         LockMoves(w), acknowledged' \in SUBSET Nat, lost' \in SUBSET Nat, lastId' \in Nat,
         CountersOK'
  PROVE  TypeOK'
<1>1. commits' \in Seq(Commit) /\ Len(commits') >= 1
  BY CommitAppended DEF TypeOK, Commit, Tree
<1>2. call' \in [Window -> Call]
  BY DEF TypeOK, OnlyCall
<1>3. lock' \in Window \union {Nobody}
  BY DEF TypeOK, LockMoves
<1> QED
  BY <1>1, <1>2, <1>3 DEF TypeOK, Commit, Tree, CountersOK

LEMMA OwnedKept ==
  ASSUME Owned, NEW w \in Window, OnlyCall(w), LockMoves(w)
  PROVE  Owned'
BY NobodyAssumption DEF Owned, OnlyCall, LockMoves

LEMMA SoundKept ==
  ASSUME TypeOK, AllSound, Numbered, NEW w \in Window, OnlyCall(w),
         lastId' \in Nat, lastId <= lastId',
         Sound(work'.journal, lastId'), Sound(index'.journal, lastId'),
         UNCHANGED commits \/ \E event \in 0..lastId : Committed(event),
         Sound(call'[w].loaded, lastId'), Sound(call'[w].previous, lastId'),
         acknowledged' \subseteq 1..lastId', InStep(call[w])'
  PROVE  AllSound' /\ Numbered'
<1>0. lastId \in Nat /\ commits \in Seq(Commit) /\ index.journal \in Seq(Event)
      /\ \A i \in DOMAIN commits : commits[i].tree.journal \in Seq(Event) /\ commits[i].event \in Nat
  <2>1. lastId \in Nat /\ commits \in Seq(Commit) /\ index.journal \in Seq(Event)
    BY DEF TypeOK, Commit, Tree
  <2>2. ASSUME NEW i \in DOMAIN commits PROVE commits[i].tree.journal \in Seq(Event) /\ commits[i].event \in Nat
    <3>1. commits[i] \in Commit
      BY <2>1
    <3> QED
      BY <3>1 DEF Commit, Tree
  <2> QED
    BY <2>1, <2>2
<1>1. \A i \in DOMAIN commits : Sound(commits[i].tree.journal, lastId') /\ commits[i].event <= lastId'
  BY <1>0, SoundLasts DEF AllSound, Numbered
<1>2. \A i \in DOMAIN commits' : Sound(commits'[i].tree.journal, lastId') /\ commits'[i].event <= lastId'
  <2>1. CASE UNCHANGED commits
    BY <1>1, <2>1
  <2>2. ASSUME NEW event \in 0..lastId, Committed(event)
        PROVE  \A i \in DOMAIN commits' : Sound(commits'[i].tree.journal, lastId') /\ commits'[i].event <= lastId'
    <3>0. event \in Nat /\ event <= lastId
      BY <1>0
    <3>1. /\ DOMAIN commits' = DOMAIN commits \cup {Len(commits')}
          /\ commits'[Len(commits')].event = event /\ commits'[Len(commits')].tree = index
          /\ \A i \in DOMAIN commits : commits'[i] = commits[i]
      BY <3>0, <2>2, CommitAppended
    <3>2. Sound(index.journal, lastId') /\ event <= lastId'
      BY <1>0, <3>0, SoundLasts DEF AllSound
    <3>3. ASSUME NEW i \in DOMAIN commits'
          PROVE  Sound(commits'[i].tree.journal, lastId') /\ commits'[i].event <= lastId'
      <4>1. CASE i \in DOMAIN commits
        BY <1>1, <3>1, <4>1
      <4>2. CASE i = Len(commits')
        BY <3>1, <3>2, <4>2
      <4> QED
        BY <3>1, <4>1, <4>2
    <3> QED
      BY <3>3
  <2> QED
    BY <2>1, <2>2
<1>3. ASSUME NEW u \in Window PROVE Sound(call'[u].loaded, lastId') /\ Sound(call'[u].previous, lastId')
  <2>1. CASE u = w
    BY <2>1
  <2>2. CASE u # w
    <3>1. call'[u] = call[u] /\ call[u].loaded \in Seq(Event) /\ call[u].previous \in Seq(Event)
      BY <2>2 DEF OnlyCall, TypeOK, Call
    <3> QED
      BY <1>0, <3>1, SoundLasts DEF AllSound
  <2> QED
    BY <2>1, <2>2
<1>4. AllSound'
  BY <1>2, <1>3 DEF AllSound
<1>5. Len(commits) <= Len(commits')
  <2>1. Len(commits) \in Nat
    BY <1>0
  <2>2. ASSUME NEW event \in 0..lastId, Committed(event) PROVE Len(commits') = Len(commits) + 1
    <3>1. event \in Nat
      BY <1>0
    <3> QED
      BY <2>2, <3>1, CommitAppended
  <2> QED
    BY <2>1, <2>2
<1>6. ASSUME NEW u \in Window PROVE InStep(call[u])'
  <2>1. CASE u # w
    <3>1. call'[u] = call[u] /\ InStep(call[u]) /\ call[u].built \in Nat
      BY <2>1 DEF OnlyCall, Numbered, TypeOK, Call
    <3>2. Len(commits) \in Nat /\ Len(commits') \in Nat
      BY <1>0 DEF Committed
    <3> QED
      BY <1>0, <1>5, <3>1, <3>2 DEF InStep
  <2> QED
    BY <2>1
<1> QED
  BY <1>2, <1>4, <1>6 DEF Numbered

\* While one process owns the lock the others have nothing of the journal in hand.
LEMMA OthersIdle ==
  ASSUME Whole, reverts = 0, NEW w \in Window, OnlyCall(w), lock \in {w, Nobody},
         NEW u \in Window, u # w
  PROVE  InHand(call[u])'
<1>1. call'[u] = call[u] /\ call[u].pc \notin Locking
  BY NobodyAssumption DEF OnlyCall, Whole, Owned
<1> QED
  BY <1>1 DEF Whole, Kept, InHand, Locking

\* What is in hand stays so when somebody moves who has no part in the journal.
LEMMA OthersKeep ==
  ASSUME Whole, reverts = 0, NEW w \in Window, OnlyCall(w),
         work'.journal = work.journal, index'.journal = index.journal, UNCHANGED <<acknowledged, lost>>,
         UNCHANGED commits \/ Committed(NoEvent),
         NEW u \in Window, u # w
  PROVE  InHand(call[u])'
<1>1. call'[u] = call[u] /\ InHand(call[u])
  BY DEF OnlyCall, Whole, Kept
<1>2. \A i \in DOMAIN commits' : (i \in DOMAIN commits /\ commits'[i] = commits[i]) \/ commits'[i].event = NoEvent
  BY CommitAppended DEF Whole, NoEvent
<1>3. call[u].pc \in {"stage", "commit"} => \A i \in DOMAIN commits' : commits'[i].event # call[u].built
  BY <1>1, <1>2 DEF InHand, InStep, Whole, Numbered
<1> QED
  BY ONLY <1>1, <1>3, work'.journal = work.journal, index'.journal = index.journal,
     acknowledged' = acknowledged, lost' = lost
  DEF InHand, Backed, Held

LEMMA CommitsKept ==
  ASSUME Whole, reverts = 0, UNCHANGED <<acknowledged, lost>>,
         UNCHANGED commits \/ \E event \in Nat : Committed(event) /\ event \notin acknowledged
  PROVE  OneCommitEach'
<1>1. CASE UNCHANGED commits
  BY <1>1 DEF Whole, OneCommitEach
<1>2. ASSUME NEW event \in Nat, Committed(event), event \notin acknowledged PROVE OneCommitEach'
  <2>1. /\ DOMAIN commits' = DOMAIN commits \cup {Len(commits')}
        /\ commits'[Len(commits')].event = event
        /\ \A i \in DOMAIN commits : commits'[i] = commits[i]
    BY <1>2, CommitAppended DEF Whole
  <2>2. ASSUME NEW e \in acknowledged
        PROVE  \E i \in DOMAIN commits' :
                 /\ commits'[i].event = e /\ e \in Ids(commits'[i].tree.journal)
                 /\ \A j \in DOMAIN commits' : commits'[j].event = e => j = i
    <3>1. PICK i \in DOMAIN commits :
                 /\ commits[i].event = e /\ e \in Ids(commits[i].tree.journal)
                 /\ \A j \in DOMAIN commits : commits[j].event = e => j = i
      BY DEF Whole, OneCommitEach
    <3> QED
      BY <1>2, <2>1, <3>1
  <2> QED
    BY <2>2 DEF OneCommitEach
<1> QED
  BY <1>1, <1>2

LEMMA StepKeeps ==
  ASSUME Whole, NEW w \in Window, OnlyCall(w), call'[w] \in Call,
         work' \in Tree, index' \in Tree,
         UNCHANGED commits \/ \E event \in 0..lastId : Committed(event),
         LockMoves(w), CountersOK', lost' \in SUBSET Nat, lastId' \in Nat, lastId <= lastId',
         Sound(work'.journal, lastId'), Sound(index'.journal, lastId'),
         Sound(call'[w].loaded, lastId'), Sound(call'[w].previous, lastId'),
         acknowledged' \subseteq 1..lastId', InStep(call[w])',
         reverts' = 0 => Kept' /\ OneCommitEach'
  PROVE  Whole'
<1>1. TypeOK'
  <2>1. \A event \in 0..lastId : event \in Nat
    BY DEF Whole, TypeOK
  <2>2. acknowledged' \in SUBSET Nat
    OBVIOUS
  <2> QED
    BY <2>1, <2>2, TypesKept DEF Whole
<1>2. Owned'
  BY OwnedKept DEF Whole
<1>3. AllSound' /\ Numbered'
  BY SoundKept DEF Whole
<1>4. Kept' /\ OneCommitEach'
  BY DEF Kept, OneCommitEach
<1> QED
  BY <1>1, <1>2, <1>3, <1>4 DEF Whole

\* A step of somebody who has no part in the journal.
LEMMA QuietStep ==
  ASSUME Whole, NEW w \in Window, OnlyCall(w), call'[w] \in Call,
         work' \in Tree, index' \in Tree,
         work'.journal = work.journal, index'.journal = index.journal,
         UNCHANGED commits \/ Committed(NoEvent),
         LockMoves(w), CountersOK', UNCHANGED <<acknowledged, lost, lastId>>,
         Sound(call'[w].loaded, lastId), Sound(call'[w].previous, lastId), InStep(call[w])',
         reverts' = 0 => reverts = 0 /\ InHand(call[w])'
  PROVE  Whole'
<1>1. lastId \in Nat /\ lastId' = lastId /\ NoEvent \in 0..lastId /\ NoEvent \in Nat
      /\ lost' \in SUBSET Nat
  BY DEF Whole, TypeOK, NoEvent
<1>2. /\ Sound(work'.journal, lastId') /\ Sound(index'.journal, lastId')
      /\ acknowledged' \subseteq 1..lastId'
  BY <1>1 DEF Whole, AllSound, Numbered
<1>3. ASSUME reverts' = 0 PROVE Kept' /\ OneCommitEach'
  <2>1. reverts = 0
    BY <1>3
  <2>2. OneCommitEach'
    <3>1. NoEvent \notin acknowledged
      BY DEF Whole, Numbered, NoEvent
    <3> QED
      BY <1>1, <2>1, <3>1, CommitsKept
  <2>3. \A u \in Window : InHand(call[u])'
    BY <1>3, <2>1, OthersKeep
  <2>4. HEAD' = HEAD \/ HEAD' = index
    BY <1>1, CommitAppended DEF HEAD, Whole
  <2>5. /\ Held \subseteq Ids(work.journal)
        /\ Held \subseteq Ids(index.journal)
        /\ Held \subseteq Ids(HEAD.journal)
    BY <2>1 DEF Whole, Kept
  <2>6. Held' \subseteq Ids(HEAD'.journal)
    BY <2>4, <2>5
  <2>7. Held' \subseteq Ids(work'.journal) /\ Held' \subseteq Ids(index'.journal)
    BY <2>5
  <2> QED
    BY ONLY <2>2, <2>3, <2>6, <2>7 DEF Kept
<1>4. Sound(call'[w].loaded, lastId') /\ Sound(call'[w].previous, lastId') /\ lastId <= lastId'
  BY <1>1
<1>5. UNCHANGED commits \/ \E event \in 0..lastId : Committed(event)
  BY <1>1
<1> QED
  BY <1>1, <1>2, <1>3, <1>4, <1>5, StepKeeps

-----------------------------------------------------------------------------
(* The steps that leave the files alone.                                    *)

LEMMA Known ==
  ASSUME Whole
  PROVE  /\ \A w \in Window :
              /\ call[w] \in Call /\ InStep(call[w])
              /\ Sound(call[w].loaded, lastId) /\ Sound(call[w].previous, lastId)
              /\ reverts = 0 => InHand(call[w])
         /\ call \in [Window -> Call] /\ lock \in Window \cup {Nobody}
         /\ lastId \in Nat /\ CountersOK /\ lost \in SUBSET Nat
         /\ work \in Tree /\ index \in Tree
         /\ work.journal \in Seq(Event) /\ index.journal \in Seq(Event)
         /\ Sound(work.journal, lastId) /\ Sound(index.journal, lastId)
<1>1. TypeOK /\ AllSound /\ Numbered /\ Kept
  BY DEF Whole
<1>2. /\ call \in [Window -> Call] /\ lock \in Window \cup {Nobody}
      /\ lastId \in Nat /\ CountersOK /\ work \in Tree /\ index \in Tree
      /\ lost \in SUBSET Nat
  BY <1>1 DEF TypeOK, CountersOK, Tree
<1>3. work.journal \in Seq(Event) /\ index.journal \in Seq(Event)
  BY <1>2 DEF Tree
<1>4. Sound(work.journal, lastId) /\ Sound(index.journal, lastId)
  BY <1>1 DEF AllSound
<1>5. ASSUME NEW w \in Window
      PROVE  /\ call[w] \in Call /\ InStep(call[w])
             /\ Sound(call[w].loaded, lastId) /\ Sound(call[w].previous, lastId)
             /\ reverts = 0 => InHand(call[w])
  BY <1>1, <1>2 DEF AllSound, Numbered, Kept
<1> QED
  BY <1>2, <1>3, <1>4, <1>5

LEMMA CallStep ==
  ASSUME Whole, NEW w \in Window, OnlyCall(w), call'[w] \in Call,
         UNCHANGED <<gitVars, acknowledged, lost, lastId>>, LockMoves(w), CountersOK',
         Sound(call'[w].loaded, lastId), Sound(call'[w].previous, lastId), InStep(call[w])',
         reverts' = 0 => reverts = 0 /\ InHand(call[w])'
  PROVE  Whole'
BY Known, QuietStep DEF gitVars

\* A call ends; its lock, if it has it, may be given back.
LEMMA FinishStep ==
  ASSUME Whole, NEW w \in Window, finish(w), UNCHANGED <<gitVars, acknowledged, lost, lastId>>,
         lock' = lock \/ (lock' = Nobody /\ lock = w), CountersOK', reverts' = reverts
  PROVE  Whole'
<1>1. OnlyCall(w) /\ call'[w] = NoCall
  BY Known DEF finish, OnlyCall
<1>2. NoCall \in Call /\ Sound(NoCall.loaded, lastId) /\ Sound(NoCall.previous, lastId)
  BY DEF NoCall, Call, PC, NoDraft, Draft, EventType, Compensation, Sound, Intact
<1>3. InStep(call[w])'
  BY <1>1, Known DEF InStep, NoCall
<1>4. InHand(call[w])'
  BY <1>1 DEF InHand, NoCall
<1>5. LockMoves(w)
  BY <1>1 DEF LockMoves, NoCall, Locking
<1> QED
  BY <1>1, <1>2, <1>3, <1>4, <1>5, CallStep

\* A call with some fields changed.
LEMMA CallDrafted ==
  ASSUME NEW c \in Call, NEW step \in PC, NEW event \in Draft
  PROVE  [c EXCEPT !.pc = step, !.draft = event] \in Call
BY Zenon DEF Call

\* A call begins, or goes on to append, with a draft.
LEMMA DraftStep ==
  ASSUME Whole, NEW w \in Window, NEW event \in Draft, NEW step \in {"toggle", "append"},
         call' = [call EXCEPT ![w].pc = step, ![w].draft = event],
         UNCHANGED <<gitVars, lock, acknowledged, lost, lastId>>, CountersOK', reverts' = reverts
  PROVE  Whole'
<1>1. OnlyCall(w) /\ call'[w] = [call[w] EXCEPT !.pc = step, !.draft = event]
  BY Known DEF OnlyCall
<1>2. call[w] \in Call /\ step \in PC
  BY Known DEF PC
<1>3. call'[w] \in Call
  <2>1. [call[w] EXCEPT !.pc = step, !.draft = event] \in Call
    BY ONLY <1>2, event \in Draft, CallDrafted
  <2> QED
    BY <1>1, <2>1
<1>4. /\ call'[w].pc = step /\ call'[w].loaded = call[w].loaded
      /\ call'[w].previous = call[w].previous /\ call'[w].built = call[w].built
  BY <1>1, <1>2 DEF Call
<1>5. InStep(call[w])' /\ InHand(call[w])'
  BY <1>4, Known DEF InStep, InHand
<1>6. LockMoves(w)
  BY <1>4 DEF LockMoves, Locking
<1>7. Sound(call'[w].loaded, lastId) /\ Sound(call'[w].previous, lastId)
  BY <1>4, Known
<1> QED
  BY <1>1, <1>3, <1>5, <1>6, <1>7, CallStep

LEMMA BeginStep ==
  ASSUME Whole, NEW w \in Window, NEW event \in Draft, begin(w, event)
  PROVE  Whole'
<1>1. CountersOK' /\ reverts' = reverts /\ UNCHANGED <<gitVars, lock, acknowledged, lost, lastId>>
  BY Known DEF begin, CountersOK
<1>2. call' = [call EXCEPT ![w].pc = "append", ![w].draft = event]
  BY DEF begin
<1> QED
  BY <1>1, <1>2, DraftStep

\* The next step of a call that keeps what it has read.
LEMMA GotoStep ==
  ASSUME Whole, NEW w \in Window, NEW step \in PC, goto(w, step)
  PROVE  /\ OnlyCall(w) /\ call'[w] \in Call /\ call'[w].pc = step
         /\ call'[w].loaded = call[w].loaded /\ call'[w].previous = call[w].previous
         /\ call'[w].built = call[w].built /\ call'[w].unread = call[w].unread
         /\ Sound(call'[w].loaded, lastId) /\ Sound(call'[w].previous, lastId)
<1>1. OnlyCall(w) /\ call'[w] = [call[w] EXCEPT !.pc = step]
  BY Known DEF OnlyCall, goto
<1>2. call[w] \in Call
  BY Known
<1>3. /\ call'[w] \in Call /\ call'[w].pc = step /\ call'[w].loaded = call[w].loaded
      /\ call'[w].previous = call[w].previous /\ call'[w].built = call[w].built /\ call'[w].unread = call[w].unread
  BY <1>1, <1>2 DEF Call
<1> QED
  BY <1>1, <1>3, Known

LEMMA Drafts ==
  ASSUME Whole, NEW w \in Window,
         \/ record(w) \/ toggle(w) \/ compensateEvent(w) \/ compensateToggle(w)
         \/ createBookmark(w) \/ createBranch(w) \/ switchBranch(w)
  PROVE  Whole'
<1> USE DEF journal
<1>0. /\ work.journal \in Seq(Event) /\ currentBranch(work.journal) \in Lane
      /\ branchNames(work.journal) \subseteq Lane /\ Ids(work.journal) \subseteq Nat
      /\ \A i \in DOMAIN work.journal : rootIdFor(work.journal[i]) \in Nat
  <2>1. work.journal \in Seq(Event) /\ currentBranch(work.journal) \in Lane
    BY Known, LaneType
  <2>2. \A i \in DOMAIN work.journal :
          rootIdFor(work.journal[i]) \in Nat /\ work.journal[i].id \in Nat /\ work.journal[i].lane \in Lane
    BY <2>1, RootType
  <2> QED
    BY <2>1, <2>2, MainAssumption DEF branchNames, Ids
<1>1. CASE record(w)
  <2>1. PICK lane \in branchNames(work.journal) \union {NoLane} : begin(w, [NoDraft EXCEPT !.lane = lane])
    BY <1>1 DEF record
  <2>2. [NoDraft EXCEPT !.lane = lane] \in Draft
    BY <1>0 DEF NoDraft, Draft, EventType, Compensation
  <2> QED
    BY <2>1, <2>2, BeginStep
<1>2. CASE toggle(w)
  <2>1. PICK root \in {rootIdFor(work.journal[i]) : i \in DOMAIN work.journal}, verb \in Compensation :
          chainFor(work.journal, root) # {} /\ begin(w, compensation(work.journal, root, verb))
    BY <1>2 DEF toggle
  <2>2. compensation(work.journal, root, verb) \in Draft
    BY <1>0, <2>1, CompensationType DEF EventType
  <2> QED
    BY <2>1, <2>2, BeginStep
<1>3. CASE compensateEvent(w)
  <2>1. PICK root \in {rootIdFor(work.journal[i]) : i \in DOMAIN work.journal} :
          /\ chainFor(work.journal, root) # {}
          /\ call' = [call EXCEPT ![w].pc = "toggle", ![w].draft =
                         compensation(work.journal, root,
                           IF isEffective(work.journal, root) THEN "undo" ELSE "redo")]
    BY <1>3 DEF compensateEvent
  <2> DEFINE event == compensation(work.journal, root,
                        IF isEffective(work.journal, root) THEN "undo" ELSE "redo")
  <2>2. event \in Draft
    BY <1>0, <2>1, CompensationType DEF Compensation, EventType
  <2>3. call' = [call EXCEPT ![w].pc = "toggle", ![w].draft = event]
    BY <2>1
  <2> HIDE DEF event
  <2>4. /\ calls' = calls + 1
        /\ UNCHANGED <<gitVars, lock, acknowledged, lost, lastId, saves, reverts, faults, crashes>>
    BY <1>3, Zenon DEF compensateEvent
  <2>5. CountersOK' /\ reverts' = reverts /\ UNCHANGED <<gitVars, lock, acknowledged, lost, lastId>>
    BY <2>4, Known DEF CountersOK
  <2> QED
    BY <2>2, <2>3, <2>5, DraftStep
<1>4. CASE compensateToggle(w)
  <2>0. /\ UNCHANGED <<gitVars, lock, acknowledged, lost, lastId>> /\ CountersOK' /\ reverts' = reverts
    BY <1>4, Known DEF compensateToggle, CountersOK, bounds
  <2> DEFINE d == call[w].draft
  <2>1. CASE finish(w)
    <3>1. UNCHANGED <<gitVars, acknowledged, lost, lastId>> /\ lock' = lock
      BY <2>0
    <3> QED
      BY <2>0, <2>1, <3>1, FinishStep
  <2>2. ASSUME chainFor(work.journal, d.root) # {}, NEW event, event = compensation(work.journal, d.root, d.type),
               call' = [call EXCEPT ![w].pc = "append", ![w].draft = event]
        PROVE  Whole'
    <3>1. d \in Draft
      BY Known DEF Call
    <3>2. d.root \in Nat /\ d.type \in EventType
      BY <3>1 DEF Draft
    <3> HIDE DEF d
    <3>3. event \in Draft
      BY <1>0, <2>2, <3>2, CompensationType
    <3> QED
      BY <2>0, <2>2, <3>3, DraftStep
  <2>3. finish(w) \/ /\ chainFor(work.journal, d.root) # {}
                     /\ call' = [call EXCEPT ![w].pc = "append",
                                   ![w].draft = compensation(work.journal, d.root, d.type)]
    BY <1>4, Zenon DEF compensateToggle
  <2> QED
    BY <2>1, <2>2, <2>3
<1>5. CASE createBookmark(w)
  <2>1. PICK target \in Ids(work.journal) \union (IF work.journal = <<>> THEN {0} ELSE {}) :
          begin(w, [type |-> "bookmark", lane |-> currentBranch(work.journal),
                    target |-> target, root |-> 0])
    BY <1>5 DEF createBookmark
  <2>2. target \in Nat
    BY <1>0
  <2>3. [type |-> "bookmark", lane |-> currentBranch(work.journal), target |-> target, root |-> 0] \in Draft
    BY <1>0, <2>2 DEF Draft, EventType
  <2> QED
    BY <2>1, <2>3, BeginStep
<1>6. CASE createBranch(w)
  <2>1. PICK name \in Lane, target \in Ids(work.journal) \union (IF work.journal = <<>> THEN {0} ELSE {}) :
          begin(w, [type |-> "create", lane |-> name, target |-> target, root |-> 0])
    BY <1>6 DEF createBranch
  <2>2. target \in Nat
    BY <1>0
  <2>3. [type |-> "create", lane |-> name, target |-> target, root |-> 0] \in Draft
    BY <2>2 DEF Draft, EventType
  <2> QED
    BY <2>1, <2>3, BeginStep
<1>7. CASE switchBranch(w)
  <2>1. PICK name \in Lane : begin(w, [type |-> "switch", lane |-> name, target |-> 0, root |-> 0])
    BY <1>0, <1>7 DEF switchBranch
  <2>2. [type |-> "switch", lane |-> name, target |-> 0, root |-> 0] \in Draft
    BY DEF Draft, EventType
  <2> QED
    BY <2>1, <2>2, BeginStep
<1> QED
  BY <1>1, <1>2, <1>3, <1>4, <1>5, <1>6, <1>7

LEMMA Locks ==
  ASSUME Whole, NEW w \in Window, takeLock(w) \/ refuse(w) \/ load(w) \/ loadFails(w) \/ writeFails(w)
  PROVE  Whole'
<1>1. CASE takeLock(w)
  <2>1. /\ goto(w, "load") /\ lock = Nobody /\ lock' = w
        /\ UNCHANGED <<gitVars, acknowledged, lost, lastId>> /\ CountersOK' /\ reverts' = reverts
    BY <1>1, Known DEF takeLock, lockFree, CountersOK, bounds
  <2>2. OnlyCall(w) /\ call'[w] \in Call /\ call'[w].pc = "load" /\ call'[w].built = call[w].built
        /\ Sound(call'[w].loaded, lastId) /\ Sound(call'[w].previous, lastId)
    BY <2>1, GotoStep DEF PC
  <2>3. InStep(call[w])' /\ InHand(call[w])'
    BY <2>1, <2>2, Known DEF InStep, InHand
  <2>4. LockMoves(w)
    BY <2>1, <2>2 DEF LockMoves
  <2> QED
    BY <2>1, <2>2, <2>3, <2>4, CallStep
<1>2. CASE refuse(w)
  <2>1. /\ finish(w) /\ UNCHANGED <<gitVars, acknowledged, lost, lastId>> /\ lock' = lock
        /\ CountersOK' /\ reverts' = reverts
    BY <1>2, Known DEF refuse, fault, CountersOK, bounds
  <2> QED
    BY <2>1, FinishStep
<1>3. CASE load(w)
  <2>1. /\ UNCHANGED <<gitVars, acknowledged, lost, lastId>> /\ CountersOK' /\ reverts' = reverts
        /\ lock = w /\ lock' = lock
        /\ call' = [call EXCEPT ![w].pc = "write", ![w].loaded = journal]
    BY <1>3, Known DEF load, CountersOK, bounds, Whole, Owned, Locking
  <2>2. OnlyCall(w) /\ call'[w] = [call[w] EXCEPT !.pc = "write", !.loaded = work.journal]
    BY <2>1, Known DEF OnlyCall, journal
  <2>3. call[w] \in Call /\ work.journal \in Seq(Event) /\ "write" \in PC
    BY Known DEF PC
  <2>4. /\ call'[w] \in Call /\ call'[w].pc = "write" /\ call'[w].loaded = work.journal
        /\ call'[w].previous = call[w].previous /\ call'[w].built = call[w].built
    BY <2>2, <2>3 DEF Call
  <2>5. InStep(call[w])'
    BY <2>1, <2>4, Known DEF InStep
  <2>6. reverts = 0 => InHand(call[w])'
    BY <2>1, <2>4 DEF InHand, Whole, Kept, gitVars
  <2>7. LockMoves(w)
    BY <2>1 DEF LockMoves
  <2>8. Sound(call'[w].loaded, lastId) /\ Sound(call'[w].previous, lastId)
    BY <2>4, Known
  <2> QED
    BY <2>1, <2>2, <2>4, <2>5, <2>6, <2>7, <2>8, CallStep
<1>4. CASE loadFails(w) \/ writeFails(w)
  <2>1. /\ finish(w) /\ UNCHANGED <<gitVars, acknowledged, lost, lastId>> /\ lock' = Nobody /\ lock = w
        /\ CountersOK' /\ reverts' = reverts
    BY <1>4, Known DEF loadFails, writeFails, fault, bounds, CountersOK, Whole, Owned, Locking
  <2> QED
    BY <2>1, FinishStep
<1> QED
  BY <1>1, <1>2, <1>3, <1>4

-----------------------------------------------------------------------------
(* The steps of project.json, and the death of a process.                   *)

LEMMA ProjectSteps ==
  ASSUME Whole, NEW w \in Window,
         saveProject(w) \/ stageProject(w) \/ commitProject(w) \/ saveFails(w) \/ crash(w)
  PROVE  Whole'
<1>1. CASE saveProject(w)
  <2>1. /\ goto(w, "stageProject") /\ work' = [work EXCEPT !.project = saves + 1] /\ saves' = saves + 1
        /\ UNCHANGED <<index, commits, lock, acknowledged, lost, lastId, calls, reverts, faults, crashes>>
    BY <1>1, Zenon DEF saveProject
  <2>2. OnlyCall(w) /\ call'[w] \in Call /\ call'[w].pc = "stageProject" /\ call'[w].built = call[w].built
        /\ Sound(call'[w].loaded, lastId) /\ Sound(call'[w].previous, lastId)
    BY <2>1, GotoStep DEF PC
  <2>3. CountersOK' /\ saves \in Nat
    BY <2>1, Known DEF CountersOK
  <2>4. work' \in Tree /\ work'.journal = work.journal /\ index' \in Tree
    BY <2>1, <2>3, Known DEF Tree
  <2>5. InStep(call[w])' /\ InHand(call[w])' /\ LockMoves(w)
    BY <2>1, <2>2, Known DEF InStep, InHand, LockMoves, Locking
  <2> QED
    BY <2>1, <2>2, <2>3, <2>4, <2>5, QuietStep
<1>2. CASE stageProject(w)
  <2>1. /\ goto(w, "commitProject") /\ index' = staged({"project"})
        /\ UNCHANGED <<work, commits, lock, acknowledged, lost, lastId, bounds>>
    BY <1>2, Zenon DEF stageProject, stage
  <2>2. OnlyCall(w) /\ call'[w] \in Call /\ call'[w].pc = "commitProject" /\ call'[w].built = call[w].built
        /\ Sound(call'[w].loaded, lastId) /\ Sound(call'[w].previous, lastId)
    BY <2>1, GotoStep DEF PC
  <2>3. CountersOK' /\ reverts' = reverts
    BY <2>1, Known DEF CountersOK, bounds
  <2>4. index'.journal = index.journal /\ index'.project = work.project
    BY <2>1 DEF staged, Path
  <2>5. work.project \in Nat
    BY Known DEF Tree
  <2>6. index' \in Tree /\ work' \in Tree
    <3>1. index' = [p \in Path |-> index'[p]]
      BY <2>1 DEF staged
    <3> QED
      BY <2>1, <2>4, <2>5, <3>1, Known, TreeFields
  <2>7. InStep(call[w])' /\ InHand(call[w])' /\ LockMoves(w)
    BY <2>1, <2>2, Known DEF InStep, InHand, LockMoves, Locking
  <2> QED
    BY <2>1, <2>2, <2>3, <2>4, <2>6, <2>7, QuietStep
<1>3. CASE commitProject(w)
  <2>1. /\ finish(w) /\ Committed(NoEvent)
        /\ UNCHANGED <<work, index, lock, acknowledged, lost, lastId, bounds>>
    BY <1>3, Zenon DEF commitProject, commitIndex, Committed
  <2>2. OnlyCall(w) /\ call'[w] = NoCall
    BY <2>1, Known DEF finish, OnlyCall
  <2>3. NoCall \in Call /\ Sound(NoCall.loaded, lastId) /\ Sound(NoCall.previous, lastId)
    BY DEF NoCall, Call, PC, NoDraft, Draft, EventType, Compensation, Sound, Intact
  <2>4. CountersOK' /\ reverts' = reverts
    BY <2>1, Known DEF CountersOK, bounds
  <2>5. InStep(call[w])' /\ InHand(call[w])' /\ LockMoves(w)
    BY <2>1, <2>2, Known DEF InStep, InHand, LockMoves, Locking, NoCall
  <2> QED
    BY <2>1, <2>2, <2>3, <2>4, <2>5, Known, QuietStep
<1>4. CASE saveFails(w)
  <2>1. /\ finish(w) /\ UNCHANGED <<gitVars, acknowledged, lost, lastId>> /\ lock' = lock
        /\ CountersOK' /\ reverts' = reverts
    BY <1>4, Known DEF saveFails, fault, CountersOK
  <2> QED
    BY <2>1, FinishStep
<1>5. CASE crash(w)
  <2>1. /\ finish(w) /\ UNCHANGED <<gitVars, acknowledged, lost, lastId>>
        /\ CountersOK' /\ reverts' = reverts
    BY <1>5, Known DEF crash, CountersOK
  <2>2. lock' = lock \/ (lock' = Nobody /\ lock = w)
    BY <1>5 DEF crash
  <2> QED
    BY <2>1, <2>2, FinishStep
<1> QED
  BY <1>1, <1>2, <1>3, <1>4, <1>5

-----------------------------------------------------------------------------
(* The steps of the lock's owner on the journal.                            *)

LEMMA CommitTypes ==
  ASSUME Whole
  PROVE  /\ Len(commits) \in Nat /\ Len(commits) >= 1 /\ DOMAIN commits = 1..Len(commits)
         /\ \A i \in DOMAIN commits :
              /\ commits[i].event \in Nat /\ commits[i].tree \in Tree
              /\ commits[i].tree.journal \in Seq(Event)
              /\ Sound(commits[i].tree.journal, lastId)
<1>1. commits \in Seq(Commit) /\ Len(commits) >= 1 /\ AllSound
  BY DEF Whole, TypeOK, Commit, Tree
<1>2. ASSUME NEW i \in DOMAIN commits
      PROVE  /\ commits[i].event \in Nat /\ commits[i].tree \in Tree
             /\ commits[i].tree.journal \in Seq(Event)
             /\ Sound(commits[i].tree.journal, lastId)
  <2>1. commits[i] \in Commit
    BY <1>1
  <2>2. commits[i].event \in Nat /\ commits[i].tree \in Tree
    BY <2>1 DEF Commit
  <2>3. commits[i].tree.journal \in Seq(Event)
    BY <2>2 DEF Tree
  <2>4. Sound(commits[i].tree.journal, lastId)
    BY <1>1 DEF AllSound
  <2> QED
    BY <2>2, <2>3, <2>4
<1> QED
  BY <1>1, <1>2

LEMMA OwnerKeeps ==
  ASSUME Whole, reverts = 0, NEW w \in Window, OnlyCall(w), lock = w, InHand(call[w])',
         Held' \subseteq Ids(work'.journal), Held' \subseteq Ids(index'.journal),
         Held' \subseteq Ids(HEAD'.journal)
  PROVE  Kept'
<1>1. \A u \in Window : InHand(call[u])'
  BY OthersIdle
<1> QED
  BY ONLY <1>1, Held' \subseteq Ids(work'.journal), Held' \subseteq Ids(index'.journal),
     Held' \subseteq Ids(HEAD'.journal) DEF Kept

LEMMA Owner ==
  ASSUME Whole, NEW w \in Window, call[w].pc \in Locking
  PROVE  lock = w
BY DEF Whole, Owned

\* The event a call is about to write.
LEMMA NewEventType ==
  ASSUME NEW w \in Window, call[w].loaded \in Seq(Event), call[w].draft \in Draft, lastId \in Nat
  PROVE  newEvent(w) \in Event
<1> DEFINE s == call[w].loaded
<1>1. /\ call[w].draft.type \in EventType /\ call[w].draft.lane \in Lane \cup {NoLane}
      /\ call[w].draft.target \in Nat /\ call[w].draft.root \in Nat
  BY DEF Draft
<1>2. laneFor(s, call[w].draft.lane) \in Lane
  BY <1>1, LaneType
<1>3. (IF s = <<>> THEN 0 ELSE s[Len(s)].id) \in Nat
  <2>1. s # <<>> => s[Len(s)] \in Event
    OBVIOUS
  <2> QED
    BY <2>1 DEF Event
<1>4. nextSequence(s) \in Nat
  BY DEF nextSequence
<1> QED
  BY <1>1, <1>2, <1>3, <1>4 DEF newEvent, Event

LEMMA WriteKeeps ==
  ASSUME Whole, NEW w \in Window, write(w)
  PROVE  Whole'
<1> DEFINE s == call[w].loaded
           e == newEvent(w)
<1>1. /\ call[w].pc = "write" /\ lock = w /\ lastId' = lastId + 1
      /\ work' = [work EXCEPT !.journal = Append(s, e)]
      /\ UNCHANGED <<index, commits, lock, acknowledged, lost>>
  BY Owner DEF write, Locking
<1>u. PICK unread \in BOOLEAN :
        /\ call' = [call EXCEPT ![w].pc = "stage", ![w].previous = previousBytes(unread),
                                ![w].unread = unread, ![w].built = lastId + 1]
        /\ IF unread THEN fault ELSE UNCHANGED bounds
  BY DEF write
<1> DEFINE old == previousBytes(unread)
<1>o. /\ old \in Seq(Event)
      /\ Sound(old, lastId)
      /\ ~unread => old = work.journal
      /\ CountersOK' /\ reverts' = reverts
  <2>1. Sound(<<>>, lastId) /\ <<>> \in Seq(Event)
    BY DEF Sound, Intact
  <2>2. CountersOK' /\ reverts' = reverts
    BY <1>u, Known DEF fault, bounds, CountersOK
  <2> QED
    BY <2>1, <2>2, Known DEF previousBytes, journal
<1> HIDE DEF old
<1>2. s \in Seq(Event) /\ Sound(s, lastId) /\ lastId \in Nat /\ call[w].draft \in Draft
  BY Known DEF Call
<1>3. e \in Event /\ e.id = lastId + 1 /\ e.seq = nextSequence(s)
      /\ e.prev = IF s = <<>> THEN 0 ELSE s[Len(s)].id
  BY <1>2, NewEventType DEF newEvent
<1> HIDE DEF e
<1>4. /\ Append(s, e) \in Seq(Event) /\ Sound(Append(s, e), lastId + 1)
      /\ Ids(Append(s, e)) = Ids(s) \cup {lastId + 1}
  BY <1>2, <1>3, AppendIsSound
<1>5. work' \in Tree /\ work'.journal = Append(s, e) /\ index' \in Tree
  BY <1>1, <1>4, Known DEF Tree
<1>6. /\ OnlyCall(w)
      /\ call'[w] = [call[w] EXCEPT !.pc = "stage", !.previous = old, !.unread = unread,
                                    !.built = lastId + 1]
  BY <1>u, Known DEF OnlyCall, old
<1>7. /\ call'[w] \in Call /\ call'[w].pc = "stage" /\ call'[w].loaded = s
      /\ call'[w].previous = old /\ call'[w].unread = unread /\ call'[w].built = lastId + 1
  <2>1. /\ call[w] \in Call /\ "stage" \in PC /\ lastId + 1 \in Nat
        /\ call[w].loaded = s
    BY Known DEF PC
  <2>2. old \in Seq(Event) /\ unread \in BOOLEAN
    BY <1>o
  <2> QED
    <3>1. call'[w] = [call[w] EXCEPT !.pc = "stage", !.previous = old, !.unread = unread,
                                     !.built = lastId + 1]
      BY <1>6
    <3>2. call'[w] \in Call
      BY <2>1, <2>2, <3>1, Zenon DEF Call
    <3>3. /\ call'[w].pc = "stage" /\ call'[w].loaded = s /\ call'[w].previous = old
          /\ call'[w].built = lastId + 1
      BY <2>1, <3>1 DEF Call
    <3>4. call'[w].unread = unread
      BY <2>1, <2>2, <3>1, Zenon DEF Call
    <3> QED
      BY <3>2, <3>3, <3>4
<1>8. /\ Sound(index'.journal, lastId') /\ Sound(call'[w].loaded, lastId')
      /\ Sound(call'[w].previous, lastId') /\ Sound(work'.journal, lastId')
  <2>1. /\ index.journal \in Seq(Event) /\ Sound(index.journal, lastId)
        /\ lastId + 1 \in Nat /\ lastId <= lastId + 1
    BY Known
  <2>2. Sound(index.journal, lastId + 1) /\ Sound(s, lastId + 1)
    BY <1>2, <2>1, SoundLasts
  <2>3. Sound(old, lastId + 1)
    <3>1. old \in Seq(Event) /\ Sound(old, lastId)
      BY <1>o
    <3> QED
      BY ONLY <2>1, <3>1, <1>2, SoundLasts
  <2> QED
    BY <1>1, <1>4, <1>5, <1>7, <2>2, <2>3
<1>9. LockMoves(w) /\ CountersOK' /\ InStep(call[w])' /\ acknowledged' \subseteq 1..lastId'
  <2>1. CountersOK' /\ LockMoves(w)
    BY <1>1, <1>o, <1>7 DEF LockMoves
  <2>2. acknowledged \subseteq 1..lastId
    BY DEF Whole, Numbered
  <2> QED
    BY <1>1, <1>2, <1>7, <2>1, <2>2 DEF InStep, NoEvent
<1>10. ASSUME reverts' = 0 PROVE Kept' /\ OneCommitEach'
  <2>1. reverts = 0
    BY <1>o, <1>10
  <2>2. OneCommitEach'
    BY <1>1, <2>1, CommitsKept
  <2>3. /\ Held \subseteq Ids(s) /\ Held \subseteq Ids(work.journal)
        /\ Held \subseteq Ids(index.journal) /\ Held \subseteq Ids(HEAD.journal)
        /\ \A i \in DOMAIN commits : commits[i].event <= lastId
    BY <1>1, <2>1 DEF Whole, Kept, InHand, Numbered
  <2>4. HEAD' = HEAD
    BY <1>1 DEF HEAD
  <2>5. \A i \in DOMAIN commits : commits[i].event # lastId + 1
    <3>1. \A i \in DOMAIN commits : commits[i].event \in Nat
      BY CommitTypes
    <3> QED
      BY <1>2, <2>3, <3>1
  <2>6. InHand(call[w])'
    <3>1. Held' = Held /\ commits' = commits /\ work'.journal = Append(s, e)
      BY <1>1, <1>5 DEF Held
    <3>2. lastId + 1 \in Ids(Append(s, e))
      BY <1>4
    <3>3. Held \subseteq Backed(call'[w])
      BY <1>7, <1>o, <2>3 DEF Backed
    <3> QED
      BY <1>1, <1>7, <2>5, <3>1, <3>2, <3>3, Zenon DEF InHand, Backed
  <2> QED
    BY <1>1, <1>4, <1>5, <1>6, <2>1, <2>2, <2>3, <2>4, <2>6, OwnerKeeps
<1>11. lastId' \in Nat /\ lastId <= lastId' /\ UNCHANGED commits /\ lost' \in SUBSET Nat
  BY <1>1, <1>2, Known
<1> QED
  BY <1>5, <1>6, <1>7, <1>8, <1>9, <1>10, <1>11, StepKeeps

LEMMA StageKeeps ==
  ASSUME Whole, NEW w \in Window, stageJournal(w)
  PROVE  Whole'
<1>1. /\ call[w].pc = "stage" /\ lock = w /\ goto(w, "commit") /\ index' = staged({"journal"})
      /\ UNCHANGED <<work, commits, lock, acknowledged, lost, lastId, bounds>>
  <2>1. call[w].pc = "stage" /\ goto(w, "commit") /\ index' = staged({"journal"})
    BY Zenon DEF stageJournal, stage
  <2>2. UNCHANGED <<work, commits, lock, acknowledged, lost, lastId, bounds>>
    BY Zenon DEF stageJournal, stage
  <2>3. lock = w
    BY <2>1, Owner DEF Locking
  <2> QED
    BY <2>1, <2>2, <2>3
<1>2. OnlyCall(w) /\ call'[w] \in Call /\ call'[w].pc = "commit" /\ call'[w].built = call[w].built
      /\ call'[w].previous = call[w].previous /\ call'[w].unread = call[w].unread
      /\ call'[w].loaded = call[w].loaded
      /\ Sound(call'[w].loaded, lastId) /\ Sound(call'[w].previous, lastId)
  BY <1>1, GotoStep DEF PC
<1>3. index'.journal = work.journal /\ index'.project = index.project
  BY <1>1 DEF staged, Path
<1>4. index' \in Tree /\ work' \in Tree
  <2>1. index' = [p \in Path |-> index'[p]]
    BY <1>1 DEF staged
  <2>2. index.project \in Nat /\ work.journal \in Seq(Event)
    BY Known DEF Tree
  <2> QED
    BY <1>1, <1>3, <2>1, <2>2, Known, TreeFields
<1>5. LockMoves(w) /\ CountersOK' /\ InStep(call[w])' /\ acknowledged' \subseteq 1..lastId'
  <2>1. CountersOK' /\ LockMoves(w)
    BY <1>1, <1>2, Known DEF CountersOK, bounds, LockMoves
  <2>2. InStep(call[w])'
    BY <1>1, <1>2, Known DEF InStep
  <2> QED
    BY <1>1, <2>1, <2>2 DEF Whole, Numbered
<1>6. ASSUME reverts' = 0 PROVE Kept' /\ OneCommitEach'
  <2>1. reverts = 0
    BY <1>1, <1>6 DEF bounds
  <2>2. OneCommitEach'
    BY <1>1, <2>1, CommitsKept
  <2>3. /\ Held \subseteq Ids(work.journal) /\ Held \subseteq Ids(HEAD.journal)
        /\ InHand(call[w])
    BY <2>1 DEF Whole, Kept
  <2>4. HEAD' = HEAD
    BY <1>1 DEF HEAD
  <2>5. InHand(call[w])'
    BY <1>1, <1>2, <1>3, <2>3 DEF InHand, Backed
  <2> QED
    BY <1>1, <1>2, <1>3, <2>1, <2>2, <2>3, <2>4, <2>5, OwnerKeeps
<1>7. lastId \in Nat /\ lastId' = lastId /\ lastId <= lastId' /\ UNCHANGED commits /\ lost' \in SUBSET Nat
  BY <1>1, Known
<1>8. Sound(work'.journal, lastId') /\ Sound(index'.journal, lastId')
  BY <1>1, <1>3, Known
<1> QED
  BY <1>2, <1>4, <1>5, <1>6, <1>7, <1>8, StepKeeps

\* The commit of an event, acknowledged or not.
LEMMA Committing ==
  ASSUME Whole, NEW w \in Window, call[w].pc = "commit", Committed(call[w].built)
  PROVE  /\ call[w].built \in 1..lastId /\ HEAD' = index
         /\ reverts = 0 => /\ Held \subseteq Ids(index.journal)
                           /\ call[w].built \in Ids(index.journal)
                           /\ call[w].built \notin acknowledged
                           /\ \A i \in DOMAIN commits : commits[i].event # call[w].built
<1>1. call[w].built \in Nat /\ InStep(call[w]) /\ lastId \in Nat
  BY Known DEF Call
<1>2. HEAD' = index
  BY <1>1, CommitAppended DEF HEAD, Whole
<1>3. call[w].built \in 1..lastId
  BY <1>1 DEF InStep, NoEvent
<1>4. ASSUME reverts = 0
      PROVE  /\ Held \subseteq Ids(index.journal) /\ call[w].built \in Ids(index.journal)
             /\ \A i \in DOMAIN commits : commits[i].event # call[w].built
  BY <1>4 DEF Whole, Kept, InHand
<1>5. reverts = 0 => call[w].built \notin acknowledged
  BY <1>4 DEF Whole, OneCommitEach
<1> QED
  BY <1>2, <1>3, <1>4, <1>5

LEMMA CommitKeeps ==
  ASSUME Whole, NEW w \in Window, commitJournal(w)
  PROVE  Whole'
<1> DEFINE b == call[w].built
<1>1. /\ call[w].pc = "commit" /\ lock = w /\ lock' = Nobody /\ finish(w) /\ Committed(b)
      /\ acknowledged' = acknowledged \cup {b} /\ UNCHANGED <<work, index, lost, lastId, bounds>>
  <2>1. /\ call[w].pc = "commit" /\ lock' = Nobody /\ finish(w) /\ Committed(b)
        /\ acknowledged' = acknowledged \cup {b}
    BY Zenon DEF commitJournal, commitIndex, Committed
  <2>2. UNCHANGED <<work, index, lost, lastId, bounds>>
    BY DEF commitJournal, commitIndex
  <2> QED
    BY <2>1, <2>2, Owner DEF Locking
<1>2. /\ b \in 1..lastId /\ HEAD' = index
      /\ reverts = 0 => /\ Held \subseteq Ids(index.journal) /\ b \in Ids(index.journal)
                        /\ b \notin acknowledged /\ \A i \in DOMAIN commits : commits[i].event # b
  BY <1>1, Committing
<1>3. OnlyCall(w) /\ call'[w] = NoCall
  BY <1>1, Known DEF finish, OnlyCall
<1>4. NoCall \in Call /\ Sound(NoCall.loaded, lastId) /\ Sound(NoCall.previous, lastId)
  BY DEF NoCall, Call, PC, NoDraft, Draft, EventType, Compensation, Sound, Intact
<1>5. CountersOK' /\ LockMoves(w) /\ InStep(call[w])'
  BY <1>1, <1>3, Known DEF CountersOK, bounds, LockMoves, Locking, NoCall, InStep
<1>6. /\ acknowledged' \subseteq 1..lastId' /\ lastId \in Nat /\ lastId' = lastId /\ lastId <= lastId'
      /\ lost' \in SUBSET Nat
  <2>1. lastId \in Nat /\ lastId' = lastId /\ lastId <= lastId' /\ lost' \in SUBSET Nat
    BY <1>1, Known
  <2>2. acknowledged \subseteq 1..lastId
    BY DEF Whole, Numbered
  <2> QED
    BY <1>1, <1>2, <2>1, <2>2
<1>7. ASSUME reverts' = 0 PROVE Kept' /\ OneCommitEach'
  <2>1. reverts = 0
    BY <1>1, <1>7 DEF bounds
  <2>2. /\ DOMAIN commits' = DOMAIN commits \cup {Len(commits')} /\ Len(commits') \notin DOMAIN commits
        /\ commits'[Len(commits')].event = b /\ commits'[Len(commits')].tree = index
        /\ \A i \in DOMAIN commits : commits'[i] = commits[i]
    <3>1. b \in Nat
      BY <1>2
    <3> QED
      BY <1>1, <3>1, CommitAppended DEF Whole
  <2>3. ASSUME NEW x \in acknowledged'
        PROVE  \E i \in DOMAIN commits' :
                 /\ commits'[i].event = x /\ x \in Ids(commits'[i].tree.journal)
                 /\ \A j \in DOMAIN commits' : commits'[j].event = x => j = i
    <3>1. CASE x = b
      BY <1>2, <2>1, <2>2, <3>1
    <3>2. CASE x # b
      <4>1. x \in acknowledged
        BY <1>1, <3>2
      <4>2. PICK i \in DOMAIN commits :
                   /\ commits[i].event = x /\ x \in Ids(commits[i].tree.journal)
                   /\ \A j \in DOMAIN commits : commits[j].event = x => j = i
        BY <2>1, <4>1 DEF Whole, OneCommitEach
      <4> QED
        BY <2>2, <3>2, <4>2
    <3> QED
      BY <3>1, <3>2
  <2>4. OneCommitEach'
    BY <2>3 DEF OneCommitEach
  <2>5. /\ Held \subseteq Ids(work.journal) /\ b \in Ids(work.journal)
    BY <1>1, <2>1 DEF Whole, Kept, InHand
  <2>6. InHand(call[w])'
    BY <1>3 DEF InHand, NoCall
  <2>7. /\ Held' \subseteq Ids(work'.journal) /\ Held' \subseteq Ids(index'.journal)
        /\ Held' \subseteq Ids(HEAD'.journal)
    BY <1>1, <1>2, <2>1, <2>5
  <2> QED
    BY <1>1, <1>3, <2>1, <2>4, <2>6, <2>7, OwnerKeeps
<1>8. work' \in Tree /\ index' \in Tree /\ Sound(work'.journal, lastId') /\ Sound(index'.journal, lastId')
  BY <1>1, Known
<1>9. b \in 0..lastId
  BY <1>2, <1>6
<1> QED
  BY <1>1, <1>3, <1>4, <1>5, <1>6, <1>7, <1>8, <1>9, StepKeeps

\* What is left when a call has ended.
LEMMA Finished ==
  ASSUME Whole, NEW w \in Window, finish(w)
  PROVE  /\ OnlyCall(w) /\ call'[w] = NoCall /\ call'[w] \in Call
         /\ Sound(call'[w].loaded, lastId) /\ Sound(call'[w].previous, lastId)
         /\ InHand(call[w])' /\ (lastId' = lastId => InStep(call[w])')
         /\ call'[w].pc \notin Locking
<1>1. OnlyCall(w) /\ call'[w] = NoCall
  BY Known DEF finish, OnlyCall
<1>2. NoCall \in Call /\ Sound(NoCall.loaded, lastId) /\ Sound(NoCall.previous, lastId)
  BY DEF NoCall, Call, PC, NoDraft, Draft, EventType, Compensation, Sound, Intact
<1> QED
  BY <1>1, <1>2, Known DEF InStep, InHand, NoCall, Locking

LEMMA FailKeeps ==
  ASSUME Whole, NEW w \in Window, gitFails(w)
  PROVE  Whole'
<1>1. /\ call[w].pc \in {"stage", "commit"} /\ lock = w /\ goto(w, "rollback")
      /\ UNCHANGED <<lock, acknowledged, lost, lastId>> /\ CountersOK' /\ reverts' = reverts
  BY Known, Owner DEF gitFails, Locking, fault, CountersOK
<1>2. OnlyCall(w) /\ call'[w] \in Call /\ call'[w].pc = "rollback" /\ call'[w].built = call[w].built
      /\ call'[w].previous = call[w].previous /\ call'[w].unread = call[w].unread
      /\ call'[w].loaded = call[w].loaded
      /\ Sound(call'[w].loaded, lastId) /\ Sound(call'[w].previous, lastId)
  BY <1>1, GotoStep DEF PC
<1>3. InStep(call[w])' /\ LockMoves(w)
  BY <1>1, <1>2, Known DEF InStep, LockMoves
<1>4. reverts = 0 => InHand(call[w])'
  BY <1>1, <1>2, Known DEF InHand, Backed
<1>5. CASE UNCHANGED gitVars
  BY <1>1, <1>2, <1>3, <1>4, <1>5, CallStep
<1>6. CASE call[w].pc = "commit" /\ commitIndex(call[w].built)
  <2>1. Committed(call[w].built) /\ UNCHANGED <<work, index>>
    BY <1>6 DEF commitIndex, Committed
  <2>2. /\ call[w].built \in 1..lastId /\ HEAD' = index
        /\ reverts = 0 => /\ Held \subseteq Ids(index.journal)
                          /\ call[w].built \notin acknowledged
    BY <1>6, <2>1, Committing
  <2>3. lastId \in Nat /\ lastId' = lastId /\ lastId <= lastId' /\ call[w].built \in 0..lastId
        /\ call[w].built \in Nat /\ lost' \in SUBSET Nat
    BY <1>1, <2>2, Known
  <2>4. work' \in Tree /\ index' \in Tree /\ Sound(work'.journal, lastId') /\ Sound(index'.journal, lastId')
    BY <2>1, <2>3, Known
  <2>5. ASSUME reverts' = 0 PROVE Kept' /\ OneCommitEach'
    <3>1. reverts = 0
      BY <1>1, <2>5
    <3>2. OneCommitEach'
      BY <1>1, <2>1, <2>2, <2>3, <3>1, CommitsKept
    <3>3. Held \subseteq Ids(work.journal)
      BY <3>1 DEF Whole, Kept
    <3>4. /\ Held' \subseteq Ids(work'.journal) /\ Held' \subseteq Ids(index'.journal)
          /\ Held' \subseteq Ids(HEAD'.journal)
      BY <1>1, <2>1, <2>2, <3>1, <3>3
    <3> QED
      BY <1>1, <1>2, <1>4, <3>1, <3>2, <3>4, OwnerKeeps
  <2>6. acknowledged' \subseteq 1..lastId' /\ Sound(call'[w].loaded, lastId') /\ Sound(call'[w].previous, lastId')
    BY <1>1, <1>2 DEF Whole, Numbered
  <2> QED
    BY <1>1, <1>2, <1>3, <2>1, <2>3, <2>4, <2>5, <2>6, StepKeeps
<1> QED
  BY <1>5, <1>6 DEF gitFails

LEMMA RollbackKeeps ==
  ASSUME Whole, NEW w \in Window, rollback(w)
  PROVE  Whole'
<1>1. /\ call[w].pc = "rollback" /\ lock = w /\ lock' = Nobody /\ finish(w)
      /\ UNCHANGED <<index, commits, acknowledged, lastId>> /\ CountersOK' /\ reverts' = reverts
  BY Known, Owner DEF rollback, Locking, fault, CountersOK, bounds
<1>2. CASE UNCHANGED <<work, lost>>
  <2>1. UNCHANGED <<gitVars, acknowledged, lost, lastId>>
    BY <1>1, <1>2 DEF gitVars
  <2> QED
    BY <1>1, <2>1, FinishStep
<1>3. CASE /\ work' = [work EXCEPT !.journal = call[w].previous]
           /\ lost' = IF call[w].unread THEN lost \union Ids(call[w].loaded) ELSE lost
  <2>1. /\ OnlyCall(w) /\ call'[w] \in Call /\ InHand(call[w])' /\ InStep(call[w])'
        /\ Sound(call'[w].loaded, lastId) /\ Sound(call'[w].previous, lastId)
        /\ call'[w].pc \notin Locking
    BY <1>1, Finished
  <2>2. /\ call[w].previous \in Seq(Event) /\ Sound(call[w].previous, lastId)
        /\ Ids(call[w].loaded) \subseteq Nat
    <3>1. call[w].loaded \in Seq(Event)
      BY Known DEF Call
    <3>2. \A i \in DOMAIN call[w].loaded : call[w].loaded[i].id \in Nat
      BY <3>1, RootType
    <3> QED
      BY <3>2, Known DEF Call, Ids
  <2>3. work' \in Tree /\ work'.journal = call[w].previous /\ index' \in Tree
    BY <1>1, <1>3, <2>2, Known DEF Tree
  <2>4. lastId \in Nat /\ lastId' = lastId /\ lastId <= lastId' /\ UNCHANGED commits /\ lost' \in SUBSET Nat
    BY <1>1, <1>3, <2>2, Known
  <2>5. /\ Sound(work'.journal, lastId') /\ Sound(index'.journal, lastId')
        /\ Sound(call'[w].loaded, lastId') /\ Sound(call'[w].previous, lastId')
    BY <1>1, <2>1, <2>2, <2>3, <2>4, Known
  <2>6. LockMoves(w) /\ acknowledged' \subseteq 1..lastId'
    BY <1>1, <2>1 DEF LockMoves, Whole, Numbered
  <2>7. ASSUME reverts' = 0 PROVE Kept' /\ OneCommitEach'
    <3>1. reverts = 0
      BY <1>1, <2>7
    <3>2. OneCommitEach'
      BY <1>1, <3>1 DEF Whole, OneCommitEach
    <3>3. /\ Held \subseteq Backed(call[w]) /\ Held \subseteq Ids(index.journal)
          /\ Held \subseteq Ids(HEAD.journal)
      BY <1>1, <3>1 DEF Whole, Kept, InHand
    <3>4. HEAD' = HEAD
      BY <1>1 DEF HEAD
    <3>5. /\ Held' \subseteq Ids(work'.journal) /\ Held' \subseteq Ids(index'.journal)
          /\ Held' \subseteq Ids(HEAD'.journal)
      BY <1>1, <1>3, <2>3, <3>3, <3>4 DEF Backed
    <3> QED
      BY <1>1, <2>1, <3>1, <3>2, <3>5, OwnerKeeps
  <2> QED
    BY <1>1, <2>1, <2>3, <2>4, <2>5, <2>6, <2>7, StepKeeps
<1> QED
  BY <1>2, <1>3 DEF rollback

-----------------------------------------------------------------------------
(* Stepping back through the commits.                                       *)

\* With a revert under way, only that every copy is intact is left to show.
LEMMA RevertKeeps ==
  ASSUME Whole, NEW w \in Window, reverts # 0, OnlyCall(w), call'[w] \in Call,
         work' \in Tree, index' \in Tree, Sound(work'.journal, lastId), Sound(index'.journal, lastId),
         UNCHANGED commits \/ Committed(NoEvent),
         UNCHANGED <<lock, acknowledged, lost, lastId>>, CountersOK', reverts' = reverts,
         Sound(call'[w].loaded, lastId), Sound(call'[w].previous, lastId), InStep(call[w])',
         call'[w].pc \notin Locking
  PROVE  Whole'
<1>1. lastId \in Nat /\ lastId' = lastId /\ lastId <= lastId' /\ NoEvent \in 0..lastId
      /\ lost' \in SUBSET Nat
  BY Known DEF NoEvent
<1>2. LockMoves(w) /\ acknowledged' \subseteq 1..lastId'
  BY DEF LockMoves, Whole, Numbered
<1>3. UNCHANGED commits \/ \E event \in 0..lastId : Committed(event)
  BY <1>1
<1>4. /\ Sound(work'.journal, lastId') /\ Sound(index'.journal, lastId')
      /\ Sound(call'[w].loaded, lastId') /\ Sound(call'[w].previous, lastId')
  BY <1>1
<1> QED
  BY <1>1, <1>2, <1>3, <1>4, StepKeeps

LEMMA Reverting ==
  ASSUME Whole, NEW w \in Window, call[w].pc \in {"revert", "commitRevert"}
  PROVE  reverts # 0
BY Known DEF InHand

LEMMA HeadSound ==
  ASSUME Whole
  PROVE  /\ HEAD \in Tree /\ Sound(HEAD.journal, lastId)
         /\ Len(commits) >= 2 => HEADparent \in Tree /\ Sound(HEADparent.journal, lastId)
BY CommitTypes DEF HEAD, HEADparent

\* A tree put together from two sound ones.
LEMMA MixedTree ==
  ASSUME NEW t \in Tree, NEW u \in Tree, Sound(t.journal, lastId), Sound(u.journal, lastId),
         NEW P, NEW m, m = [p \in Path |-> IF p \in P THEN t[p] ELSE u[p]]
  PROVE  m \in Tree /\ Sound(m.journal, lastId)
<1>1. m.journal \in {t.journal, u.journal} /\ m.project \in {t.project, u.project}
  BY DEF Path
<1>2. t.journal \in Seq(Event) /\ u.journal \in Seq(Event) /\ t.project \in Nat /\ u.project \in Nat
  BY DEF Tree
<1>3. m = [p \in Path |-> m[p]]
  OBVIOUS
<1> QED
  BY <1>1, <1>2, <1>3, TreeFields

LEMMA AbortSound ==
  ASSUME Whole, revertAbort
  PROVE  /\ work' \in Tree /\ index' \in Tree /\ UNCHANGED commits
         /\ Sound(work'.journal, lastId) /\ Sound(index'.journal, lastId)
<1> DEFINE P == {p \in Path : index[p] # HEAD[p]}
<1>1. \/ index' = index /\ work' = work
      \/ index' = HEAD /\ work' = [p \in Path |-> IF p \in P THEN HEAD[p] ELSE work[p]]
  BY DEF revertAbort
<1>2. UNCHANGED commits
  BY DEF revertAbort
<1> HIDE DEF P
<1>3. CASE index' = index /\ work' = work
  BY <1>2, <1>3, Known
<1>4. CASE index' = HEAD /\ work' = [p \in Path |-> IF p \in P THEN HEAD[p] ELSE work[p]]
  <2>1. work' \in Tree /\ Sound(work'.journal, lastId)
    BY <1>4, Known, HeadSound, MixedTree
  <2> QED
    BY <1>2, <1>4, <2>1, HeadSound
<1> QED
  BY <1>1, <1>3, <1>4

LEMMA Reverts ==
  ASSUME Whole, NEW w \in Window,
         revertLatest(w) \/ revertApply(w) \/ revertRefused(w) \/ commitRevert(w)
  PROVE  Whole'
<1>1. CASE revertLatest(w)
  <2>1. /\ goto(w, "revert") /\ Len(commits) >= 2 /\ reverts' = reverts + 1
        /\ UNCHANGED <<gitVars, lock, acknowledged, lost, lastId, calls, saves, faults, crashes>>
    <3>1. /\ goto(w, "revert") /\ revertable({"project"}) /\ reverts' = reverts + 1
          /\ UNCHANGED <<gitVars, lock, acknowledged, lost, lastId, calls, saves, faults, crashes>>
      BY <1>1, Zenon DEF revertLatest
    <3> QED
      BY <3>1 DEF revertable
  <2>2. OnlyCall(w) /\ call'[w] \in Call /\ call'[w].pc = "revert" /\ call'[w].built = call[w].built
        /\ Sound(call'[w].loaded, lastId) /\ Sound(call'[w].previous, lastId)
    BY <2>1, GotoStep DEF PC
  <2>3. CountersOK' /\ reverts' # 0
    BY <2>1, Known DEF CountersOK
  <2>4. InStep(call[w])' /\ LockMoves(w)
    BY <2>1, <2>2, Known DEF InStep, LockMoves, Locking, gitVars
  <2>5. UNCHANGED <<gitVars, acknowledged, lost, lastId>>
    BY <2>1
  <2> QED
    BY <2>2, <2>3, <2>4, <2>5, CallStep
<1>2. CASE revertApply(w)
  <2>1. /\ call[w].pc = "revert" /\ revertNoCommit /\ goto(w, "commitRevert")
        /\ UNCHANGED <<lock, acknowledged, lost, lastId, bounds>>
    BY <1>2, Zenon DEF revertApply
  <2>2. OnlyCall(w) /\ call'[w] \in Call /\ call'[w].pc = "commitRevert" /\ call'[w].built = call[w].built
        /\ Sound(call'[w].loaded, lastId) /\ Sound(call'[w].previous, lastId)
    BY <2>1, GotoStep DEF PC
  <2>3. CountersOK' /\ reverts' = reverts /\ reverts # 0 /\ Len(commits) >= 2
    BY <2>1, Known, Reverting DEF CountersOK, bounds, InStep
  <2>4. /\ index' = [p \in Path |-> IF p \in undone THEN HEADparent[p] ELSE index[p]]
        /\ work' = [p \in Path |-> IF p \in undone THEN HEADparent[p] ELSE work[p]]
        /\ UNCHANGED commits
    BY <2>1 DEF revertNoCommit
  <2>5. /\ index' \in Tree /\ Sound(index'.journal, lastId)
        /\ work' \in Tree /\ Sound(work'.journal, lastId)
    BY <2>3, <2>4, Known, HeadSound, MixedTree
  <2>6. InStep(call[w])' /\ call'[w].pc \notin Locking
    BY <2>1, <2>2, Known DEF InStep, Locking
  <2> QED
    BY <2>1, <2>2, <2>3, <2>4, <2>5, <2>6, RevertKeeps
<1>3. CASE revertRefused(w)
  <2>1. /\ call[w].pc = "revert" /\ finish(w) /\ UNCHANGED <<lock, acknowledged, lost, lastId, bounds>>
        /\ UNCHANGED gitVars \/ revertAbort
    BY <1>3, Zenon DEF revertRefused
  <2>2. CountersOK' /\ reverts' = reverts /\ reverts # 0
    BY <2>1, Known, Reverting DEF CountersOK, bounds
  <2>3. /\ work' \in Tree /\ index' \in Tree /\ UNCHANGED commits
        /\ Sound(work'.journal, lastId) /\ Sound(index'.journal, lastId)
    BY <2>1, Known, AbortSound DEF gitVars
  <2> QED
    BY <2>1, <2>2, <2>3, Finished, RevertKeeps
<1>4. CASE commitRevert(w)
  <2>1. /\ call[w].pc = "commitRevert" /\ finish(w) /\ UNCHANGED <<lock, acknowledged, lost, lastId>>
        /\ (commitIndex(NoEvent) /\ UNCHANGED bounds) \/ (revertAbort /\ fault)
    BY <1>4, Zenon DEF commitRevert
  <2>2. CountersOK' /\ reverts' = reverts /\ reverts # 0
    BY <2>1, Known, Reverting DEF CountersOK, bounds, fault
  <2>3. /\ work' \in Tree /\ index' \in Tree /\ (UNCHANGED commits \/ Committed(NoEvent))
        /\ Sound(work'.journal, lastId) /\ Sound(index'.journal, lastId)
    BY <2>1, Known, AbortSound DEF commitIndex, Committed
  <2>4. /\ OnlyCall(w) /\ call'[w] \in Call /\ InStep(call[w])' /\ call'[w].pc \notin Locking
        /\ Sound(call'[w].loaded, lastId) /\ Sound(call'[w].previous, lastId)
    BY <2>1, Finished
  <2> QED
    BY <2>1, <2>2, <2>3, <2>4, RevertKeeps
<1> QED
  BY <1>1, <1>2, <1>3, <1>4

-----------------------------------------------------------------------------
LEMMA InitWhole == Init => Whole
<1> SUFFICES ASSUME Init PROVE Whole
  OBVIOUS
<1> USE DEF Init
<1>1. work = [journal |-> <<>>, project |-> 0] /\ work \in Tree /\ index = work
  BY DEF Tree
<1>2. /\ commits \in Seq(Commit) /\ Len(commits) = 1 /\ DOMAIN commits = {1}
      /\ commits[1].tree = work /\ commits[1].event = NoEvent
  BY <1>1 DEF Commit, NoEvent
<1>3. NoCall \in Call /\ \A w \in Window : call[w] = NoCall
  BY DEF NoCall, Call, PC, NoDraft, Draft, EventType, Compensation
<1>4. TypeOK
  BY <1>1, <1>2, <1>3 DEF TypeOK, Commit, Tree
<1>5. AllSound
  <2>1. Sound(<<>>, lastId)
    BY DEF Sound, Intact
  <2> QED
    BY <1>1, <1>2, <1>3, <2>1 DEF AllSound, NoCall
<1>6. Numbered
  BY <1>2, <1>3 DEF Numbered, InStep, NoCall, NoEvent
<1>7. Owned /\ Kept /\ OneCommitEach
  <2>1. acknowledged = {} /\ \A w \in Window : InHand(call[w]) /\ call[w].pc \notin Locking
    BY <1>3 DEF InHand, NoCall, Locking
  <2> QED
    BY <2>1 DEF Owned, Kept, OneCommitEach
<1> QED
  BY <1>4, <1>5, <1>6, <1>7 DEF Whole

LEMMA NextKeeps == Whole /\ [Next]_vars => Whole'
<1> SUFFICES ASSUME Whole, [Next]_vars PROVE Whole'
  OBVIOUS
<1>1. CASE UNCHANGED vars
  <2>1. /\ UNCHANGED <<work, index, commits, lock, call, acknowledged, lost, lastId>>
        /\ UNCHANGED <<calls, saves, reverts, faults, crashes>>
    BY <1>1 DEF vars, gitVars, bounds
  <2>2. TypeOK'
    BY <2>1 DEF Whole, TypeOK
  <2>3. AllSound' /\ Owned' /\ OneCommitEach'
    BY <2>1 DEF Whole, AllSound, Owned, OneCommitEach
  <2>4. Numbered'
    BY <2>1 DEF Whole, Numbered, InStep
  <2>5. Kept'
    BY <2>1 DEF Whole, Kept, InHand, HEAD, Backed
  <2> QED
    BY <2>2, <2>3, <2>4, <2>5 DEF Whole
<1>2. CASE Next
  BY <1>2, Drafts, Locks, ProjectSteps, WriteKeeps, StageKeeps, CommitKeeps, FailKeeps, RollbackKeeps,
     Reverts DEF Next
<1> QED
  BY <1>1, <1>2

-----------------------------------------------------------------------------
(* What a loss takes: the bytes could not be read, and then Git failed.     *)

Costs ==
  /\ \A w \in Window : call[w].unread =>
       faults >= 1 /\ (call[w].pc = "rollback" => faults >= 2)
  /\ lost # {} => faults >= 2

\* A step that loses nothing, reads what it reads and rolls nothing back.
LEMMA CostsStep ==
  ASSUME Whole, Costs, NEW w \in Window, OnlyCall(w), faults' \in {faults, faults + 1},
         UNCHANGED lost, call'[w].unread => call[w].unread, call'[w].pc # "rollback"
  PROVE  Costs'
<1>1. faults \in Nat
  BY Known DEF CountersOK
<1>2. ASSUME NEW u \in Window, call'[u].unread
      PROVE  call[u].unread /\ (call'[u].pc = "rollback" => call[u].pc = "rollback")
  BY <1>2 DEF OnlyCall
<1> QED
  BY <1>1, <1>2 DEF Costs

LEMMA CostsFinish ==
  ASSUME Whole, Costs, NEW w \in Window, finish(w), faults' \in {faults, faults + 1},
         UNCHANGED lost
  PROVE  Costs'
<1>1. OnlyCall(w) /\ call'[w] = NoCall
  BY Finished
<1> QED
  BY <1>1, CostsStep DEF NoCall

LEMMA CostsGoto ==
  ASSUME Whole, Costs, NEW w \in Window, NEW step \in PC \ {"rollback"}, goto(w, step),
         faults' \in {faults, faults + 1}, UNCHANGED lost
  PROVE  Costs'
BY GotoStep, CostsStep

LEMMA CostsDraft ==
  ASSUME Whole, Costs, NEW w \in Window, NEW event, NEW step \in {"toggle", "append"},
         call' = [call EXCEPT ![w].pc = step, ![w].draft = event], UNCHANGED <<faults, lost>>
  PROVE  Costs'
<1>1. OnlyCall(w) /\ call'[w] = [call[w] EXCEPT !.pc = step, !.draft = event]
  BY Known DEF OnlyCall
<1>2. call[w] \in Call
  BY Known
<1>3. call'[w].pc = step /\ call'[w].unread = call[w].unread
  BY <1>1, <1>2 DEF Call
<1> QED
  BY <1>1, <1>3, CostsStep

LEMMA NextCosts == Whole /\ Costs /\ [Next]_vars => Costs'
<1> SUFFICES ASSUME Whole, Costs, [Next]_vars PROVE Costs'
  OBVIOUS
<1>0. faults \in Nat
  BY Known DEF CountersOK
<1>1. CASE UNCHANGED vars
  BY <1>1 DEF vars, bounds, Costs
<1>2. ASSUME NEW w \in Window, NEW event, begin(w, event) PROVE Costs'
  <2>1. /\ call' = [call EXCEPT ![w].pc = "append", ![w].draft = event]
        /\ UNCHANGED <<faults, lost>>
    BY <1>2 DEF begin
  <2> QED
    BY <2>1, CostsDraft
<1>3. ASSUME NEW w \in Window,
             \/ record(w) \/ toggle(w) \/ createBookmark(w) \/ createBranch(w) \/ switchBranch(w)
      PROVE  Costs'
  <2>1. \E event : begin(w, event)
    BY <1>3, Zenon DEF record, toggle, createBookmark, createBranch, switchBranch
  <2> QED
    BY <1>2, <2>1
<1>4. ASSUME NEW w \in Window, compensateEvent(w) PROVE Costs'
  <2>1. /\ \E event : call' = [call EXCEPT ![w].pc = "toggle", ![w].draft = event]
        /\ UNCHANGED <<faults, lost>>
    BY <1>4 DEF compensateEvent
  <2> QED
    BY <2>1, CostsDraft
<1>5. ASSUME NEW w \in Window, compensateToggle(w) PROVE Costs'
  <2>1. /\ finish(w) \/ \E event : call' = [call EXCEPT ![w].pc = "append", ![w].draft = event]
        /\ UNCHANGED <<faults, lost>>
    BY <1>5 DEF compensateToggle, bounds
  <2> QED
    BY <2>1, CostsDraft, CostsFinish
<1>6. ASSUME NEW w \in Window,
             \/ refuse(w) \/ loadFails(w) \/ writeFails(w) \/ commitJournal(w) \/ commitProject(w)
             \/ saveFails(w) \/ revertRefused(w) \/ commitRevert(w) \/ crash(w)
      PROVE  Costs'
  <2>1. finish(w)
    BY <1>6, Zenon DEF refuse, loadFails, writeFails, commitJournal, commitProject, saveFails,
       revertRefused, commitRevert, crash
  <2>2. faults' \in {faults, faults + 1} /\ UNCHANGED lost
    BY <1>6 DEF refuse, loadFails, writeFails, commitJournal, commitProject, saveFails,
       revertRefused, commitRevert, crash, fault, bounds
  <2> QED
    BY <2>1, <2>2, CostsFinish
<1>7. ASSUME NEW w \in Window,
             \/ takeLock(w) \/ stageJournal(w) \/ saveProject(w) \/ stageProject(w)
             \/ revertLatest(w) \/ revertApply(w)
      PROVE  Costs'
  <2>1. \E step \in PC \ {"rollback"} : goto(w, step)
    BY <1>7, Zenon DEF takeLock, stageJournal, saveProject, stageProject, revertLatest, revertApply, PC
  <2>2. UNCHANGED <<faults, lost>>
    BY <1>7 DEF takeLock, stageJournal, saveProject, stageProject, revertLatest, revertApply, bounds
  <2> QED
    BY <2>1, <2>2, CostsGoto
<1>8. ASSUME NEW w \in Window, load(w) PROVE Costs'
  <2>1. /\ call' = [call EXCEPT ![w].pc = "write", ![w].loaded = journal]
        /\ UNCHANGED <<faults, lost>>
    BY <1>8 DEF load, bounds
  <2>2. OnlyCall(w) /\ call'[w] = [call[w] EXCEPT !.pc = "write", !.loaded = journal]
    BY <2>1, Known DEF OnlyCall
  <2>3. call[w] \in Call
    BY Known
  <2>4. call'[w].pc = "write" /\ call'[w].unread = call[w].unread
    BY <2>2, <2>3 DEF Call
  <2> QED
    BY <2>1, <2>2, <2>4, CostsStep
<1>9. ASSUME NEW w \in Window, write(w) PROVE Costs'
  <2>1. PICK unread \in BOOLEAN :
          /\ call' = [call EXCEPT ![w].pc = "stage", ![w].previous = previousBytes(unread),
                                  ![w].unread = unread, ![w].built = lastId + 1]
          /\ IF unread THEN fault ELSE UNCHANGED bounds
    BY <1>9 DEF write
  <2>2. UNCHANGED lost
    BY <1>9 DEF write
  <2>3. faults' = IF unread THEN faults + 1 ELSE faults
    BY <2>1 DEF fault, bounds
  <2>4. /\ OnlyCall(w)
        /\ call'[w] = [call[w] EXCEPT !.pc = "stage", !.previous = previousBytes(unread),
                                      !.unread = unread, !.built = lastId + 1]
    BY <2>1, Known DEF OnlyCall
  <2>5. call[w] \in Call
    BY Known
  <2>6. call'[w].pc = "stage" /\ call'[w].unread = unread
    BY <2>4, <2>5 DEF Call
  <2>7. ASSUME NEW u \in Window, call'[u].unread
        PROVE  faults' >= 1 /\ (call'[u].pc = "rollback" => faults' >= 2)
    <3>1. CASE u = w
      BY <1>0, <2>3, <2>6, <2>7, <3>1
    <3>2. CASE u # w
      BY <1>0, <2>3, <2>4, <2>7, <3>2 DEF OnlyCall, Costs
    <3> QED
      BY <3>1, <3>2
  <2> QED
    BY <1>0, <2>2, <2>3, <2>7 DEF Costs
<1>10. ASSUME NEW w \in Window, gitFails(w) PROVE Costs'
  <2>1. goto(w, "rollback") /\ faults' = faults + 1 /\ UNCHANGED lost
    BY <1>10, Zenon DEF gitFails, fault
  <2>2. OnlyCall(w) /\ call'[w].unread = call[w].unread
    BY <2>1, GotoStep DEF PC
  <2>3. ASSUME NEW u \in Window, call'[u].unread
        PROVE  faults' >= 1 /\ (call'[u].pc = "rollback" => faults' >= 2)
    <3>1. call[u].unread
      BY <2>2, <2>3 DEF OnlyCall
    <3>2. faults >= 1
      BY <3>1 DEF Costs
    <3> QED
      BY <1>0, <2>1, <3>2
  <2> QED
    BY <1>0, <2>1, <2>3 DEF Costs
<1>11. ASSUME NEW w \in Window, rollback(w) PROVE Costs'
  <2>1. finish(w) /\ call[w].pc = "rollback" /\ faults' \in {faults, faults + 1}
    BY <1>11 DEF rollback, fault, bounds
  <2>2. CASE UNCHANGED lost
    BY <2>1, <2>2, CostsFinish
  <2>3. CASE call[w].unread
    <3>1. faults >= 2
      BY <2>1, <2>3 DEF Costs
    <3> QED
      BY <1>0, <2>1, <3>1 DEF Costs
  <2> QED
    BY <1>11, <2>2, <2>3 DEF rollback
<1> QED
  BY <1>1, <1>3, <1>4, <1>5, <1>6, <1>7, <1>8, <1>9, <1>10, <1>11 DEF Next

\* What append() promises, whatever the windows do together and whatever of its
\* reads, writes, commits and rollbacks fails: the journal can always be read, each
\* acknowledged event has a commit of its own, and it is in the journal and in the
\* latest commit, unless a rollback lost it that had not been able to read it; and
\* no single failure does that.
THEOREM WholeJournal == Spec => []JournalIsWhole
<1>1. Whole /\ Costs => JournalIsWhole
  <2> SUFFICES ASSUME Whole, Costs PROVE JournalIsWhole
    OBVIOUS
  <2>1. faults < 2 => lost = {}
    BY Known DEF Costs, CountersOK
  <2> QED
    BY <2>1 DEF Whole, AllSound, Sound, Kept, JournalIsWhole, HistoryReadable, AcknowledgedStays, journal
<1>2. Init => Costs
  BY DEF Init, Costs, NoCall
<1> QED
  BY <1>1, <1>2, InitWhole, NextKeeps, NextCosts, PTL DEF Spec

-----------------------------------------------------------------------------
(* One call after the other.  What a mutation decided before append() still  *)
(* suits the journal when it is written, so every copy of the journal, also  *)
(* those that failures, crashes and reverts put back, is a proper one.       *)

Tails(s) ==
  \A i \in DOMAIN s :
    LET earlier == {j \in chainFor(s, s[i].root) : j < i}
    IN  s[i].type \in Compensation =>
          /\ earlier # {}
          /\ s[i].target = s[lastOf(earlier)].id
          /\ s[i].type = IF Cardinality(earlier) % 2 = 1 THEN "undo" ELSE "redo"

OnPurpose(s) ==
  \A i \in DOMAIN s :
    s[i].type \in Compensation \union {"bookmark"} =>
      s[i].lane = IF i = 1 THEN Main ELSE s[i - 1].lane

CreatedOnce(s) ==
  \A i, j \in DOMAIN s :
    s[i].type = "create" /\ s[j].type = "create" /\ s[i].lane = s[j].lane => i = j

Proper(s) == Tails(s) /\ OnPurpose(s) /\ CreatedOnce(s)

\* A draft that was made for this journal.
Suits(s, d) ==
  /\ d.type \in Compensation =>
       /\ chainFor(s, d.root) # {}
       /\ d.target = s[lastOf(chainFor(s, d.root))].id
       /\ d.type = IF Cardinality(chainFor(s, d.root)) % 2 = 1 THEN "undo" ELSE "redo"
  /\ d.type \in Compensation \union {"bookmark"} => d.lane = currentBranch(s)
  /\ d.type = "create" => d.lane \in Lane \ branchNames(s)

AllProper ==
  /\ Proper(work.journal) /\ Proper(index.journal)
  /\ \A i \in DOMAIN commits : Proper(commits[i].tree.journal)
  /\ \A w \in Window : Proper(call[w].loaded) /\ Proper(call[w].previous)

AllStay ==
  /\ Held \subseteq Ids(work.journal)
  /\ Held \subseteq Ids(index.journal)
  /\ Held \subseteq Ids(HEAD.journal)

\* What the only call under way knows.
Ready(c) ==
  /\ c.pc = "toggle" => c.draft.type \in Compensation
  /\ c.pc \in {"append", "load"} => Suits(work.journal, c.draft)
  /\ c.pc = "write" => Suits(c.loaded, c.draft) /\ Held \subseteq Ids(c.loaded)
  /\ c.pc \in {"stage", "commit", "rollback"} => Held \subseteq Backed(c)
  /\ c.pc \in {"stage", "commit"} => c.built \in Ids(work.journal)
  /\ c.pc = "commit" => c.built \in Ids(index.journal)
  /\ c.pc = "revert" => HEAD.journal = HEADparent.journal

InTurn == Alone /\ AllProper /\ AllStay /\ \A w \in Window : Ready(call[w])

LEMMA EmptyIsProper == Proper(<<>>)
BY DEF Proper, Tails, OnPurpose, CreatedOnce

\* An event that suits a proper journal makes a proper one.
LEMMA AppendIsProper ==
  ASSUME NEW s \in Seq(Event), Proper(s), NEW d \in Draft, Suits(s, d), NEW e \in Event,
         e.type = d.type, e.lane = laneFor(s, d.lane), e.target = d.target, e.root = d.root
  PROVE  Proper(Append(s, e))
<1> DEFINE t == Append(s, e)
           n == Len(s) + 1
<1>1. /\ Len(s) \in Nat /\ DOMAIN t = 1..n /\ DOMAIN s = 1..Len(s) /\ t[n] = e
      /\ \A i \in 1..Len(s) : t[i] = s[i]
  OBVIOUS
<1> HIDE DEF t
<1>2. ASSUME NEW i \in 1..n, NEW root
      PROVE  {j \in chainFor(t, root) : j < i} = {j \in chainFor(s, root) : j < i}
  <2>1. \A j : j \in DOMAIN t /\ j < i <=> j \in DOMAIN s /\ j < i
    BY <1>1
  <2>2. \A j \in DOMAIN s : t[j] = s[j]
    BY <1>1
  <2>3. ASSUME NEW j
        PROVE  j \in {k \in chainFor(t, root) : k < i} <=> j \in {k \in chainFor(s, root) : k < i}
    BY <2>1, <2>2, Zenon DEF chainFor
  <2> QED
    BY <2>3
<1>3. \A root : {j \in chainFor(t, root) : j < n} = chainFor(s, root)
  <2> SUFFICES ASSUME NEW root PROVE {j \in chainFor(t, root) : j < n} = chainFor(s, root)
    OBVIOUS
  <2>1. {j \in chainFor(t, root) : j < n} = {j \in chainFor(s, root) : j < n}
    BY <1>1, <1>2
  <2>2. \A j \in chainFor(s, root) : j < n
    BY <1>1 DEF chainFor
  <2> QED
    BY <2>1, <2>2
<1>4. e.type \in Compensation \union {"bookmark"} => e.lane = currentBranch(s)
  <2>1. currentBranch(s) \in Lane
    BY LaneType
  <2> QED
    BY <2>1, MainAssumption DEF Suits, laneFor
<1>5. Tails(t)
  <2> SUFFICES ASSUME NEW i \in 1..n, t[i].type \in Compensation,
                      NEW earlier, earlier = {j \in chainFor(t, t[i].root) : j < i}
               PROVE  /\ earlier # {}
                      /\ t[i].target = t[lastOf(earlier)].id
                      /\ t[i].type = IF Cardinality(earlier) % 2 = 1 THEN "undo" ELSE "redo"
    BY <1>1 DEF Tails
  <2>1. CASE i = n
    <3>1. earlier = chainFor(s, d.root) /\ t[i] = e
      BY <1>1, <1>3, <2>1
    <3>2. /\ earlier # {} /\ e.target = s[lastOf(earlier)].id
          /\ e.type = IF Cardinality(earlier) % 2 = 1 THEN "undo" ELSE "redo"
      BY <3>1 DEF Suits
    <3>3. lastOf(earlier) \in 1..Len(s)
      BY <1>1, <3>1, <3>2, LastIsInChain DEF chainFor
    <3> QED
      BY <1>1, <3>1, <3>2, <3>3
  <2>2. CASE i \in 1..Len(s)
    <3>1. t[i] = s[i] /\ i \in DOMAIN s
      BY <1>1, <2>2
    <3>2. earlier = {j \in chainFor(s, s[i].root) : j < i}
      BY <1>2, <3>1
    <3>3. /\ earlier # {} /\ s[i].target = s[lastOf(earlier)].id
          /\ s[i].type = IF Cardinality(earlier) % 2 = 1 THEN "undo" ELSE "redo"
      BY <3>1, <3>2 DEF Proper, Tails
    <3>4. lastOf(earlier) \in 1..Len(s)
      <4>1. earlier \subseteq 1..Len(s) /\ earlier # {}
        BY <1>1, <3>2, <3>3 DEF chainFor
      <4> QED
        BY <1>1, <4>1, LastOfSome
    <3> QED
      BY <1>1, <3>1, <3>3, <3>4
  <2> QED
    BY <1>1, <2>1, <2>2
<1>6. OnPurpose(t)
  <2> SUFFICES ASSUME NEW i \in 1..n, t[i].type \in Compensation \union {"bookmark"}
               PROVE  t[i].lane = IF i = 1 THEN Main ELSE t[i - 1].lane
    BY <1>1 DEF OnPurpose
  <2>1. CASE i = n
    <3>1. e.lane = currentBranch(s) /\ t[i] = e
      BY <1>1, <1>4, <2>1
    <3>2. CASE s = <<>>
      BY <1>1, <2>1, <3>1, <3>2 DEF currentBranch
    <3>3. CASE s # <<>>
      <4>1. i # 1 /\ i - 1 = Len(s) /\ t[i - 1] = s[Len(s)]
        BY <1>1, <2>1, <3>3
      <4> QED
        BY <3>1, <3>3, <4>1 DEF currentBranch
    <3> QED
      BY <3>2, <3>3
  <2>2. CASE i \in 1..Len(s)
    <3>1. t[i] = s[i] /\ i \in DOMAIN s /\ (i # 1 => t[i - 1] = s[i - 1])
      BY <1>1, <2>2
    <3> QED
      BY <3>1 DEF Proper, OnPurpose
  <2> QED
    BY <1>1, <2>1, <2>2
<1>7. CreatedOnce(t)
  <2>1. ASSUME e.type = "create", NEW j \in 1..Len(s) PROVE e.lane # s[j].lane
    <3>1. d.lane \in Lane /\ d.lane \notin branchNames(s)
      BY <2>1 DEF Suits
    <3>2. e.lane = d.lane
      BY <3>1, MainAssumption DEF laneFor
    <3> QED
      BY <1>1, <3>1, <3>2 DEF branchNames
  <2> QED
    BY <1>1, <2>1 DEF Proper, CreatedOnce
<1> QED
  BY <1>5, <1>6, <1>7 DEF Proper, t

\* What a step of one call keeps, if no other is under way.
LEMMA TurnStep ==
  ASSUME Whole, InTurn, Alone', NEW w \in Window, OnlyCall(w),
         call[w].pc # "idle" \/ call'[w].pc # "idle",
         Proper(work'.journal), Proper(index'.journal),
         UNCHANGED commits \/ \E event \in Nat : Committed(event),
         Proper(call'[w].loaded), Proper(call'[w].previous),
         Held' \subseteq Ids(work'.journal), Held' \subseteq Ids(index'.journal),
         Held' \subseteq Ids(HEAD'.journal),
         Ready(call[w])'
  PROVE  InTurn'
<1>1. \A i \in DOMAIN commits' : Proper(commits'[i].tree.journal)
  <2>1. CASE UNCHANGED commits
    BY <2>1 DEF InTurn, AllProper
  <2>2. ASSUME NEW event \in Nat, Committed(event)
        PROVE  \A i \in DOMAIN commits' : Proper(commits'[i].tree.journal)
    <3>1. /\ DOMAIN commits' = DOMAIN commits \cup {Len(commits')}
          /\ commits'[Len(commits')].tree = index
          /\ \A i \in DOMAIN commits : commits'[i] = commits[i]
      BY <2>2, CommitAppended DEF Whole
    <3> QED
      BY <3>1 DEF InTurn, AllProper
  <2> QED
    BY <2>1, <2>2
<1>2. ASSUME NEW u \in Window, u # w PROVE call'[u] = call[u] /\ call[u].pc = "idle"
  <2>1. call'[u] = call[u]
    BY <1>2 DEF OnlyCall
  <2>2. CASE call[w].pc # "idle"
    BY <1>2, <2>1, <2>2 DEF InTurn, Alone, idle
  <2>3. CASE call'[w].pc # "idle"
    BY <1>2, <2>1, <2>3 DEF Alone, idle
  <2> QED
    BY <2>1, <2>2, <2>3
<1>3. AllProper'
  <2>1. \A u \in Window : Proper(call'[u].loaded) /\ Proper(call'[u].previous)
    BY <1>2 DEF InTurn, AllProper
  <2> QED
    BY <1>1, <2>1 DEF AllProper
<1>4. \A u \in Window : Ready(call[u])'
  BY <1>2 DEF Ready
<1>5. AllStay'
  BY DEF AllStay
<1> QED
  BY <1>3, <1>4, <1>5 DEF InTurn

\* A step that leaves the journal where it is.
LEMMA TurnQuiet ==
  ASSUME Whole, InTurn, Alone', NEW w \in Window, OnlyCall(w),
         call[w].pc # "idle" \/ call'[w].pc # "idle",
         work'.journal = work.journal, index'.journal = index.journal,
         UNCHANGED commits \/ Committed(NoEvent), UNCHANGED <<acknowledged, lost>>,
         Proper(call'[w].loaded), Proper(call'[w].previous), Ready(call[w])'
  PROVE  InTurn'
<1>1. Proper(work.journal) /\ Proper(index.journal) /\ AllStay
  BY DEF InTurn, AllProper
<1>2. HEAD' = HEAD \/ HEAD' = index
  <2>1. NoEvent \in Nat
    BY DEF NoEvent
  <2> QED
    BY <2>1, CommitAppended DEF HEAD, Whole
<1>3. /\ Held' \subseteq Ids(work'.journal) /\ Held' \subseteq Ids(index'.journal)
      /\ Held' \subseteq Ids(HEAD'.journal)
  BY <1>1, <1>2 DEF AllStay
<1>4. UNCHANGED commits \/ \E event \in Nat : Committed(event)
  BY DEF NoEvent
<1>5. Proper(work'.journal) /\ Proper(index'.journal)
  BY <1>1
<1> QED
  BY <1>3, <1>4, <1>5, TurnStep

\* A call ends, and the journal stays where it is.
LEMMA TurnEnds ==
  ASSUME Whole, InTurn, Alone', NEW w \in Window, finish(w), call[w].pc # "idle",
         work'.journal = work.journal, index'.journal = index.journal,
         UNCHANGED commits \/ Committed(NoEvent), UNCHANGED <<acknowledged, lost>>
  PROVE  InTurn'
<1>1. OnlyCall(w) /\ call'[w] = NoCall
  BY Finished
<1>2. Proper(NoCall.loaded) /\ Proper(NoCall.previous)
  BY EmptyIsProper DEF NoCall
<1>3. Ready(call[w])'
  BY <1>1 DEF Ready, NoCall
<1> QED
  BY <1>1, <1>2, <1>3, TurnQuiet

\* A call goes on, with what it has read and the draft it has made.
LEMMA TurnGoes ==
  ASSUME Whole, NEW w \in Window, NEW step \in PC, goto(w, step)
  PROVE  /\ OnlyCall(w) /\ call'[w].pc = step /\ call'[w].draft = call[w].draft
         /\ call'[w].loaded = call[w].loaded /\ call'[w].previous = call[w].previous
         /\ call'[w].built = call[w].built /\ call'[w].unread = call[w].unread
<1>1. OnlyCall(w) /\ call'[w] = [call[w] EXCEPT !.pc = step]
  BY Known DEF OnlyCall, goto
<1>2. call[w] \in Call
  BY Known
<1> QED
  BY <1>1, <1>2 DEF Call

\* A draft suits the journal it was made from.
LEMMA TurnDraft ==
  ASSUME Whole, InTurn, Alone', NEW w \in Window, NEW event, NEW step \in {"toggle", "append"},
         call' = [call EXCEPT ![w].pc = step, ![w].draft = event],
         UNCHANGED <<gitVars, acknowledged, lost>>,
         step = "toggle" => event.type \in Compensation,
         step = "append" => Suits(work.journal, event)
  PROVE  InTurn'
<1>1. OnlyCall(w) /\ call'[w] = [call[w] EXCEPT !.pc = step, !.draft = event]
  BY Known DEF OnlyCall
<1>2. call[w] \in Call
  BY Known
<1>3. /\ call'[w].pc = step /\ call'[w].draft = event /\ call'[w].loaded = call[w].loaded
      /\ call'[w].previous = call[w].previous
  BY <1>1, <1>2 DEF Call
<1>4. UNCHANGED <<work, index, commits, acknowledged, lost>>
  BY DEF gitVars
<1>5. Ready(call[w])'
  BY <1>3, <1>4 DEF Ready
<1>6. Proper(call'[w].loaded) /\ Proper(call'[w].previous)
  BY <1>3 DEF InTurn, AllProper
<1>7. call'[w].pc # "idle"
  BY <1>3
<1> QED
  BY <1>1, <1>4, <1>5, <1>6, <1>7, TurnQuiet

LEMMA CompensationSuits ==
  ASSUME NEW s, NEW root, NEW verb \in Compensation, chainFor(s, root) # {},
         mayToggle(isEffective(s, root), verb)
  PROVE  Suits(s, compensation(s, root, verb))
<1> DEFINE d == compensation(s, root, verb)
<1>1. /\ d.type = verb /\ d.lane = currentBranch(s) /\ d.root = root
      /\ d.target = s[lastOf(chainFor(s, root))].id
  BY DEF compensation
<1>2. verb = IF Cardinality(chainFor(s, root)) % 2 = 1 THEN "undo" ELSE "redo"
  BY DEF mayToggle, isEffective, Compensation
<1> HIDE DEF d
<1> QED
  BY <1>1, <1>2 DEF Suits, Compensation, d

LEMMA TurnDrafts ==
  ASSUME Whole, InTurn, Alone', NEW w \in Window,
         \/ record(w) \/ toggle(w) \/ compensateEvent(w) \/ compensateToggle(w)
         \/ createBookmark(w) \/ createBranch(w) \/ switchBranch(w)
  PROVE  InTurn'
<1> USE DEF journal
<1> DEFINE s == work.journal
<1>0. ASSUME NEW event, Suits(s, event), begin(w, event) PROVE InTurn'
  <2>1. /\ call' = [call EXCEPT ![w].pc = "append", ![w].draft = event]
        /\ UNCHANGED <<gitVars, acknowledged, lost>>
    BY <1>0 DEF begin
  <2> QED
    BY <1>0, <2>1, TurnDraft
<1>1. CASE record(w)
  <2>1. PICK lane : begin(w, [NoDraft EXCEPT !.lane = lane])
    BY <1>1 DEF record
  <2>2. Suits(s, [NoDraft EXCEPT !.lane = lane])
    BY DEF Suits, NoDraft, Compensation
  <2> QED
    BY <1>0, <2>1, <2>2
<1>2. CASE toggle(w)
  <2>1. PICK root \in {rootIdFor(s[i]) : i \in DOMAIN s}, verb \in Compensation :
          /\ chainFor(s, root) # {} /\ mayToggle(isEffective(s, root), verb)
          /\ begin(w, compensation(s, root, verb))
    BY <1>2, Zenon DEF toggle
  <2>2. Suits(s, compensation(s, root, verb))
    BY <2>1, CompensationSuits
  <2> QED
    BY <1>0, <2>1, <2>2
<1>3. CASE compensateEvent(w)
  <2>1. PICK root :
          call' = [call EXCEPT ![w].pc = "toggle", ![w].draft =
                     compensation(s, root, IF isEffective(s, root) THEN "undo" ELSE "redo")]
    BY <1>3 DEF compensateEvent
  <2> DEFINE event == compensation(s, root, IF isEffective(s, root) THEN "undo" ELSE "redo")
  <2>2. event.type \in Compensation
    BY DEF compensation, Compensation
  <2>3. UNCHANGED <<gitVars, acknowledged, lost>>
    BY <1>3 DEF compensateEvent
  <2>4. call' = [call EXCEPT ![w].pc = "toggle", ![w].draft = event]
    BY <2>1
  <2> HIDE DEF event
  <2> QED
    BY <2>2, <2>3, <2>4, TurnDraft
<1>4. CASE compensateToggle(w)
  <2> DEFINE d == call[w].draft
             event == compensation(s, d.root, d.type)
  <2>1. /\ call[w].pc = "toggle" /\ UNCHANGED <<gitVars, acknowledged, lost>>
        /\ \/ finish(w)
           \/ /\ chainFor(s, d.root) # {} /\ mayToggle(isEffective(s, d.root), d.type)
              /\ call' = [call EXCEPT ![w].pc = "append", ![w].draft = event]
    BY <1>4, Zenon DEF compensateToggle
  <2>2. d.type \in Compensation
    BY <2>1 DEF InTurn, Ready
  <2>3. CASE finish(w)
    BY <2>1, <2>3, TurnEnds DEF gitVars
  <2>4. CASE /\ chainFor(s, d.root) # {} /\ mayToggle(isEffective(s, d.root), d.type)
             /\ call' = [call EXCEPT ![w].pc = "append", ![w].draft = event]
    <3>1. Suits(s, event)
      BY <2>2, <2>4, CompensationSuits
    <3> HIDE DEF event
    <3> QED
      BY <2>1, <2>4, <3>1, TurnDraft
  <2> QED
    BY <2>1, <2>3, <2>4
<1>5. CASE createBookmark(w)
  <2>1. PICK target : begin(w, [type |-> "bookmark", lane |-> currentBranch(s),
                               target |-> target, root |-> 0])
    BY <1>5 DEF createBookmark
  <2>2. Suits(s, [type |-> "bookmark", lane |-> currentBranch(s), target |-> target, root |-> 0])
    BY DEF Suits, Compensation
  <2> QED
    BY <1>0, <2>1, <2>2
<1>6. CASE createBranch(w)
  <2>0. PICK name \in Lane \ branchNames(s) :
          \E target : begin(w, [type |-> "create", lane |-> name, target |-> target, root |-> 0])
    BY <1>6 DEF createBranch
  <2>1. PICK target : begin(w, [type |-> "create", lane |-> name, target |-> target, root |-> 0])
    BY <2>0
  <2>2. Suits(s, [type |-> "create", lane |-> name, target |-> target, root |-> 0])
    BY DEF Suits, Compensation
  <2> QED
    BY <1>0, <2>1, <2>2
<1>7. CASE switchBranch(w)
  <2>1. PICK name : begin(w, [type |-> "switch", lane |-> name, target |-> 0, root |-> 0])
    BY <1>7 DEF switchBranch
  <2>2. Suits(s, [type |-> "switch", lane |-> name, target |-> 0, root |-> 0])
    BY DEF Suits, Compensation
  <2> QED
    BY <1>0, <2>1, <2>2
<1> QED
  BY <1>1, <1>2, <1>3, <1>4, <1>5, <1>6, <1>7

LEMMA TurnLocks ==
  ASSUME Whole, InTurn, Alone', NEW w \in Window,
         takeLock(w) \/ refuse(w) \/ load(w) \/ loadFails(w) \/ writeFails(w)
  PROVE  InTurn'
<1>1. CASE takeLock(w)
  <2>1. /\ call[w].pc = "append" /\ goto(w, "load") /\ UNCHANGED <<gitVars, acknowledged, lost>>
    BY <1>1, Zenon DEF takeLock
  <2>2. /\ OnlyCall(w) /\ call'[w].pc = "load" /\ call'[w].draft = call[w].draft
        /\ call'[w].loaded = call[w].loaded /\ call'[w].previous = call[w].previous
    BY <2>1, TurnGoes DEF PC
  <2>3. UNCHANGED <<work, index, commits, acknowledged, lost>>
    BY <2>1 DEF gitVars
  <2>4. Ready(call[w])
    BY DEF InTurn
  <2>5. Ready(call[w])'
    BY <2>1, <2>2, <2>3, <2>4 DEF Ready
  <2>6. Proper(call'[w].loaded) /\ Proper(call'[w].previous)
    BY <2>2 DEF InTurn, AllProper
  <2> QED
    BY <2>1, <2>2, <2>3, <2>5, <2>6, TurnQuiet
<1>2. CASE refuse(w) \/ loadFails(w) \/ writeFails(w)
  <2>1. call[w].pc # "idle" /\ finish(w) /\ UNCHANGED <<gitVars, acknowledged, lost>>
    BY <1>2 DEF refuse, loadFails, writeFails
  <2> QED
    BY <2>1, TurnEnds DEF gitVars
<1>3. CASE load(w)
  <2>1. /\ call[w].pc = "load" /\ UNCHANGED <<work, index, commits, acknowledged, lost>>
        /\ call' = [call EXCEPT ![w].pc = "write", ![w].loaded = journal]
    BY <1>3 DEF load, gitVars
  <2>2. OnlyCall(w) /\ call'[w] = [call[w] EXCEPT !.pc = "write", !.loaded = work.journal]
    BY <2>1, Known DEF OnlyCall, journal
  <2>3. call[w] \in Call
    BY Known
  <2>4. /\ call'[w].pc = "write" /\ call'[w].loaded = work.journal
        /\ call'[w].previous = call[w].previous /\ call'[w].draft = call[w].draft
    BY <2>2, <2>3 DEF Call
  <2>5. Ready(call[w]) /\ Held \subseteq Ids(work.journal)
    BY DEF InTurn, AllStay
  <2>6. Ready(call[w])'
    BY <2>1, <2>4, <2>5 DEF Ready
  <2>7. Proper(call'[w].loaded) /\ Proper(call'[w].previous)
    BY <2>4 DEF InTurn, AllProper
  <2> QED
    BY <2>1, <2>2, <2>6, <2>7, TurnQuiet
<1> QED
  BY <1>1, <1>2, <1>3

LEMMA TurnWrites ==
  ASSUME Whole, InTurn, Alone', NEW w \in Window, write(w)
  PROVE  InTurn'
<1> DEFINE s == call[w].loaded
           d == call[w].draft
           e == newEvent(w)
<1>1. /\ call[w].pc = "write" /\ work' = [work EXCEPT !.journal = Append(s, e)]
      /\ UNCHANGED <<index, commits, acknowledged, lost>>
  BY DEF write
<1>u. PICK unread \in BOOLEAN :
        call' = [call EXCEPT ![w].pc = "stage", ![w].previous = previousBytes(unread),
                             ![w].unread = unread, ![w].built = lastId + 1]
  BY DEF write
<1> DEFINE old == previousBytes(unread)
<1>o. Proper(old) /\ (~unread => old = work.journal)
  BY EmptyIsProper DEF InTurn, AllProper, previousBytes, journal
<1>2. s \in Seq(Event) /\ Sound(s, lastId) /\ lastId \in Nat /\ d \in Draft
  BY Known DEF Call
<1>3. /\ e \in Event /\ e.id = lastId + 1 /\ e.seq = nextSequence(s)
      /\ e.type = d.type /\ e.lane = laneFor(s, d.lane) /\ e.target = d.target /\ e.root = d.root
      /\ e.prev = IF s = <<>> THEN 0 ELSE s[Len(s)].id
  <2>1. e \in Event
    BY <1>2, NewEventType
  <2>2. e.id = lastId + 1 /\ e.seq = nextSequence(s)
    BY DEF newEvent
  <2>3. e.prev = IF s = <<>> THEN 0 ELSE s[Len(s)].id
    BY DEF newEvent
  <2>4. e.type = d.type /\ e.lane = laneFor(s, d.lane) /\ e.target = d.target /\ e.root = d.root
    BY DEF newEvent
  <2> QED
    BY <2>1, <2>2, <2>3, <2>4
<1>4. Proper(s) /\ Suits(s, d) /\ Held \subseteq Ids(s) /\ AllStay /\ AllProper
  <2>1. AllProper /\ AllStay /\ Ready(call[w])
    BY DEF InTurn
  <2>2. Proper(s)
    BY <2>1 DEF AllProper
  <2>3. Suits(s, d) /\ Held \subseteq Ids(s)
    BY <1>1, <2>1 DEF Ready
  <2> QED
    BY <2>1, <2>2, <2>3
<1> HIDE DEF e, s, d, old
<1>5. Proper(Append(s, e)) /\ Ids(Append(s, e)) = Ids(s) \cup {lastId + 1}
  <2>1. Proper(Append(s, e))
    BY <1>2, <1>3, <1>4, AppendIsProper
  <2>2. Ids(Append(s, e)) = Ids(s) \cup {lastId + 1}
    BY <1>2, <1>3, AppendIsSound
  <2> QED
    BY <2>1, <2>2
<1>6. work'.journal = Append(s, e)
  BY <1>1, Known DEF Tree
<1>7. /\ OnlyCall(w)
      /\ call'[w] = [call[w] EXCEPT !.pc = "stage", !.previous = old, !.unread = unread,
                                    !.built = lastId + 1]
  BY <1>u, Known DEF OnlyCall, old
<1>8. /\ call'[w].pc = "stage" /\ call'[w].loaded = s
      /\ call'[w].previous = old /\ call'[w].unread = unread /\ call'[w].built = lastId + 1
  <2>1. call[w] \in Call
    BY Known
  <2> QED
    BY <1>7, <2>1 DEF Call, s
<1>9. Ready(call[w])'
  BY <1>1, <1>o, <1>4, <1>5, <1>6, <1>8 DEF Ready, AllStay, Backed
<1>10. HEAD' = HEAD
  BY <1>1 DEF HEAD
<1>11. /\ Held' \subseteq Ids(work'.journal) /\ Held' \subseteq Ids(index'.journal)
       /\ Held' \subseteq Ids(HEAD'.journal)
  BY <1>1, <1>4, <1>5, <1>6, <1>10 DEF AllStay
<1>12. /\ Proper(work'.journal) /\ Proper(index'.journal)
       /\ Proper(call'[w].loaded) /\ Proper(call'[w].previous)
  BY <1>1, <1>o, <1>4, <1>5, <1>6, <1>8 DEF AllProper
<1> QED
  BY <1>1, <1>7, <1>8, <1>9, <1>11, <1>12, TurnStep

LEMMA TurnStages ==
  ASSUME Whole, InTurn, Alone', NEW w \in Window, stageJournal(w)
  PROVE  InTurn'
<1>1. /\ call[w].pc = "stage" /\ goto(w, "commit") /\ index' = staged({"journal"})
      /\ UNCHANGED <<work, commits, acknowledged, lost>>
  BY Zenon DEF stageJournal, stage
<1>2. /\ OnlyCall(w) /\ call'[w].pc = "commit" /\ call'[w].built = call[w].built /\ call'[w].unread = call[w].unread
      /\ call'[w].loaded = call[w].loaded /\ call'[w].previous = call[w].previous
  BY <1>1, TurnGoes DEF PC
<1>3. index'.journal = work.journal /\ HEAD' = HEAD
  BY <1>1 DEF staged, Path, HEAD
<1>4. AllProper /\ AllStay /\ Ready(call[w])
  BY DEF InTurn
<1>5. Ready(call[w])'
  BY <1>1, <1>2, <1>3, <1>4 DEF Ready, Backed
<1>6. /\ Held' \subseteq Ids(work'.journal) /\ Held' \subseteq Ids(index'.journal)
      /\ Held' \subseteq Ids(HEAD'.journal)
  BY <1>1, <1>3, <1>4 DEF AllStay
<1>7. /\ Proper(work'.journal) /\ Proper(index'.journal)
      /\ Proper(call'[w].loaded) /\ Proper(call'[w].previous)
  BY <1>1, <1>2, <1>3, <1>4 DEF AllProper
<1> QED
  BY <1>1, <1>2, <1>5, <1>6, <1>7, TurnStep

LEMMA TurnCommits ==
  ASSUME Whole, InTurn, Alone', NEW w \in Window,
         commitJournal(w) \/ gitFails(w) \/ rollback(w)
  PROVE  InTurn'
<1>0. AllProper /\ AllStay /\ Ready(call[w])
  BY DEF InTurn
<1>a. ASSUME call[w].pc = "commit", commitIndex(call[w].built)
      PROVE  /\ \E event \in Nat : Committed(event)
             /\ UNCHANGED <<work, index>> /\ HEAD' = index
  <2>1. call[w].built \in Nat /\ Committed(call[w].built) /\ UNCHANGED <<work, index>>
    BY <1>a, Known DEF Call, commitIndex, Committed
  <2> QED
    BY <2>1, CommitAppended DEF HEAD, Whole
<1>1. CASE commitJournal(w)
  <2>1. /\ call[w].pc = "commit" /\ finish(w) /\ commitIndex(call[w].built)
        /\ acknowledged' = acknowledged \cup {call[w].built} /\ lost' = lost
    BY <1>1, Zenon DEF commitJournal
  <2>2. OnlyCall(w) /\ call'[w] = NoCall
    BY <2>1, Finished
  <2>3. /\ Proper(call'[w].loaded) /\ Proper(call'[w].previous) /\ Ready(call[w])'
    BY <2>2, EmptyIsProper DEF NoCall, Ready
  <2>4. call[w].built \in Ids(work.journal) /\ call[w].built \in Ids(index.journal)
    BY <1>0, <2>1 DEF Ready
  <2>5. /\ Held' \subseteq Ids(work'.journal) /\ Held' \subseteq Ids(index'.journal)
        /\ Held' \subseteq Ids(HEAD'.journal)
    BY <1>0, <1>a, <2>1, <2>4 DEF AllStay
  <2>6. Proper(work'.journal) /\ Proper(index'.journal)
    BY <1>0, <1>a, <2>1 DEF AllProper
  <2> QED
    BY <1>a, <2>1, <2>2, <2>3, <2>5, <2>6, TurnStep
<1>2. CASE gitFails(w)
  <2>1. /\ call[w].pc \in {"stage", "commit"} /\ goto(w, "rollback") /\ UNCHANGED <<acknowledged, lost>>
        /\ UNCHANGED gitVars \/ (call[w].pc = "commit" /\ commitIndex(call[w].built))
    BY <1>2, Zenon DEF gitFails
  <2>2. /\ OnlyCall(w) /\ call'[w].pc = "rollback" /\ call'[w].unread = call[w].unread
        /\ call'[w].loaded = call[w].loaded /\ call'[w].previous = call[w].previous
    BY <2>1, TurnGoes DEF PC
  <2>3. Ready(call[w])'
    BY <1>0, <2>1, <2>2 DEF Ready, Backed
  <2>4. Proper(call'[w].loaded) /\ Proper(call'[w].previous)
    BY <1>0, <2>2 DEF AllProper
  <2>5. /\ UNCHANGED commits \/ \E event \in Nat : Committed(event)
        /\ UNCHANGED <<work, index>> /\ (HEAD' = HEAD \/ HEAD' = index)
    BY <1>a, <2>1 DEF gitVars, HEAD
  <2>6. /\ Held' \subseteq Ids(work'.journal) /\ Held' \subseteq Ids(index'.journal)
        /\ Held' \subseteq Ids(HEAD'.journal)
    BY <1>0, <2>1, <2>5 DEF AllStay
  <2>7. Proper(work'.journal) /\ Proper(index'.journal)
    BY <1>0, <2>5 DEF AllProper
  <2> QED
    BY <2>1, <2>2, <2>3, <2>4, <2>5, <2>6, <2>7, TurnStep
<1>3. CASE rollback(w)
  <2>1. /\ call[w].pc = "rollback" /\ finish(w) /\ UNCHANGED <<index, commits, acknowledged>>
        /\ \/ UNCHANGED <<work, lost>>
           \/ /\ work' = [work EXCEPT !.journal = call[w].previous]
              /\ lost' = IF call[w].unread THEN lost \union Ids(call[w].loaded) ELSE lost
    BY <1>3, Zenon DEF rollback
  <2>2. OnlyCall(w) /\ call'[w] = NoCall
    BY <2>1, Finished
  <2>3. /\ Proper(call'[w].loaded) /\ Proper(call'[w].previous) /\ Ready(call[w])'
    BY <2>2, EmptyIsProper DEF NoCall, Ready
  <2>4. /\ \/ work'.journal = work.journal /\ lost' = lost
           \/ /\ work'.journal = call[w].previous
              /\ lost' = IF call[w].unread THEN lost \union Ids(call[w].loaded) ELSE lost
        /\ HEAD' = HEAD
    BY <2>1, Known DEF Tree, HEAD
  <2>5. Held \subseteq Backed(call[w])
    BY <1>0, <2>1 DEF Ready
  <2>6. /\ Held' \subseteq Ids(work'.journal) /\ Held' \subseteq Ids(index'.journal)
        /\ Held' \subseteq Ids(HEAD'.journal)
    BY <1>0, <2>1, <2>4, <2>5 DEF AllStay, Backed
  <2>7. Proper(work'.journal) /\ Proper(index'.journal)
    BY <1>0, <2>1, <2>4 DEF AllProper
  <2> QED
    BY <2>1, <2>2, <2>3, <2>6, <2>7, TurnStep
<1> QED
  BY <1>1, <1>2, <1>3

LEMMA TurnProjects ==
  ASSUME Whole, InTurn, Alone', NEW w \in Window,
         saveProject(w) \/ stageProject(w) \/ commitProject(w) \/ saveFails(w) \/ crash(w)
  PROVE  InTurn'
<1>0. AllProper
  BY DEF InTurn
<1>1. ASSUME NEW step \in {"stageProject", "commitProject"}, goto(w, step),
             work'.journal = work.journal, index'.journal = index.journal,
             UNCHANGED <<commits, acknowledged, lost>>
      PROVE  InTurn'
  <2>1. /\ OnlyCall(w) /\ call'[w].pc = step
        /\ call'[w].loaded = call[w].loaded /\ call'[w].previous = call[w].previous
    BY <1>1, TurnGoes DEF PC
  <2>2. Ready(call[w])' /\ call'[w].pc # "idle"
    BY <2>1 DEF Ready
  <2>3. Proper(call'[w].loaded) /\ Proper(call'[w].previous)
    BY <1>0, <2>1 DEF AllProper
  <2> QED
    BY <1>1, <2>1, <2>2, <2>3, TurnQuiet
<1>2. CASE saveProject(w)
  <2>1. /\ goto(w, "stageProject") /\ work' = [work EXCEPT !.project = saves + 1]
        /\ UNCHANGED <<index, commits, acknowledged, lost>>
    BY <1>2, Zenon DEF saveProject
  <2>2. work'.journal = work.journal
    BY <2>1, Known DEF Tree
  <2> QED
    BY <1>1, <2>1, <2>2
<1>3. CASE stageProject(w)
  <2>1. /\ goto(w, "commitProject") /\ index' = staged({"project"})
        /\ UNCHANGED <<work, commits, acknowledged, lost>>
    BY <1>3, Zenon DEF stageProject, stage
  <2>2. index'.journal = index.journal
    BY <2>1 DEF staged, Path
  <2> QED
    BY <1>1, <2>1, <2>2
<1>4. CASE commitProject(w)
  <2>1. /\ call[w].pc # "idle" /\ finish(w) /\ Committed(NoEvent)
        /\ UNCHANGED <<work, index, acknowledged, lost>>
    BY <1>4, Zenon DEF commitProject, commitIndex, Committed
  <2> QED
    BY <2>1, TurnEnds
<1>5. CASE saveFails(w) \/ crash(w)
  <2>1. call[w].pc # "idle" /\ finish(w) /\ UNCHANGED <<gitVars, acknowledged, lost>>
    BY <1>5 DEF saveFails, crash, idle
  <2> QED
    BY <2>1, TurnEnds DEF gitVars
<1> QED
  BY <1>2, <1>3, <1>4, <1>5

\* A commit that is reverted has changed project.json only, and what is aborted goes
\* back to the latest commit, which holds what was acknowledged.
LEMMA TurnReverts ==
  ASSUME Whole, InTurn, Alone', NEW w \in Window,
         revertLatest(w) \/ revertApply(w) \/ revertRefused(w) \/ commitRevert(w)
  PROVE  InTurn'
<1>0. AllProper /\ AllStay /\ Ready(call[w])
  BY DEF InTurn
<1>a. Proper(HEAD.journal)
  <2>1. Len(commits) \in DOMAIN commits
    BY CommitTypes
  <2> QED
    BY <1>0, <2>1 DEF AllProper, HEAD
<1>b. ASSUME revertAbort, finish(w), call[w].pc # "idle", UNCHANGED <<acknowledged, lost>>
      PROVE  InTurn'
  <2> DEFINE P == {p \in Path : index[p] # HEAD[p]}
  <2>1. /\ UNCHANGED commits
        /\ \/ index' = index /\ work' = work
           \/ index' = HEAD /\ work' = [p \in Path |-> IF p \in P THEN HEAD[p] ELSE work[p]]
    BY <1>b DEF revertAbort
  <2> HIDE DEF P
  <2>2. /\ index'.journal \in {index.journal, HEAD.journal}
        /\ work'.journal \in {work.journal, HEAD.journal} /\ HEAD' = HEAD
    BY <2>1 DEF Path, HEAD
  <2>3. OnlyCall(w) /\ call'[w] = NoCall
    BY <1>b, Finished
  <2>4. /\ Proper(call'[w].loaded) /\ Proper(call'[w].previous) /\ Ready(call[w])'
    BY <2>3, EmptyIsProper DEF NoCall, Ready
  <2>5. /\ Held' \subseteq Ids(work'.journal) /\ Held' \subseteq Ids(index'.journal)
        /\ Held' \subseteq Ids(HEAD'.journal)
    BY <1>0, <1>b, <2>2 DEF AllStay
  <2>6. Proper(work'.journal) /\ Proper(index'.journal)
    BY <1>0, <1>a, <2>2 DEF AllProper
  <2> QED
    BY <1>b, <2>1, <2>3, <2>4, <2>5, <2>6, TurnStep
<1>1. CASE revertLatest(w)
  <2>1. /\ goto(w, "revert") /\ revertable({"project"}) /\ UNCHANGED <<gitVars, acknowledged, lost>>
    BY <1>1, Zenon DEF revertLatest
  <2>2. HEAD.journal = HEADparent.journal
    BY <2>1 DEF revertable, touchesOnly, Path
  <2>3. /\ OnlyCall(w) /\ call'[w].pc = "revert"
        /\ call'[w].loaded = call[w].loaded /\ call'[w].previous = call[w].previous
    BY <2>1, TurnGoes DEF PC
  <2>4. UNCHANGED <<work, index, commits, acknowledged, lost>> /\ HEAD' = HEAD /\ HEADparent' = HEADparent
    BY <2>1 DEF gitVars, HEAD, HEADparent
  <2>5. Ready(call[w])'
    BY <2>2, <2>3, <2>4 DEF Ready
  <2>6. Proper(call'[w].loaded) /\ Proper(call'[w].previous) /\ call'[w].pc # "idle"
    BY <1>0, <2>3 DEF AllProper
  <2> QED
    BY <2>3, <2>4, <2>5, <2>6, TurnQuiet
<1>2. CASE revertApply(w)
  <2>1. /\ call[w].pc = "revert" /\ revertNoCommit /\ goto(w, "commitRevert") /\ UNCHANGED <<acknowledged, lost>>
    BY <1>2, Zenon DEF revertApply
  <2>2. "journal" \notin undone
    BY <1>0, <2>1 DEF Ready, undone
  <2>3. index'.journal = index.journal /\ work'.journal = work.journal /\ UNCHANGED commits
    BY <2>1, <2>2 DEF revertNoCommit, Path
  <2>4. /\ OnlyCall(w) /\ call'[w].pc = "commitRevert"
        /\ call'[w].loaded = call[w].loaded /\ call'[w].previous = call[w].previous
    BY <2>1, TurnGoes DEF PC
  <2>5. Ready(call[w])' /\ call'[w].pc # "idle"
    BY <2>4 DEF Ready
  <2>6. Proper(call'[w].loaded) /\ Proper(call'[w].previous)
    BY <1>0, <2>4 DEF AllProper
  <2> QED
    BY <2>1, <2>3, <2>4, <2>5, <2>6, TurnQuiet
<1>3. CASE revertRefused(w)
  <2>1. /\ call[w].pc # "idle" /\ finish(w) /\ UNCHANGED <<acknowledged, lost>>
        /\ UNCHANGED gitVars \/ revertAbort
    BY <1>3, Zenon DEF revertRefused
  <2>2. CASE UNCHANGED gitVars
    BY <2>1, <2>2, TurnEnds DEF gitVars
  <2> QED
    BY <1>b, <2>1, <2>2
<1>4. CASE commitRevert(w)
  <2>1. /\ call[w].pc # "idle" /\ finish(w) /\ UNCHANGED <<acknowledged, lost>>
        /\ commitIndex(NoEvent) \/ revertAbort
    BY <1>4, Zenon DEF commitRevert
  <2>2. CASE commitIndex(NoEvent)
    <3>1. Committed(NoEvent) /\ UNCHANGED <<work, index>>
      BY <2>2 DEF commitIndex, Committed
    <3> QED
      BY <2>1, <3>1, TurnEnds
  <2> QED
    BY <1>b, <2>1, <2>2
<1> QED
  BY <1>1, <1>2, <1>3, <1>4

-----------------------------------------------------------------------------
Turns == Whole /\ (~overlapped => InTurn)

LEMMA InitTurns == MCInit => Turns
<1> SUFFICES ASSUME MCInit PROVE Turns
  OBVIOUS
<1>1. Init /\ Whole
  BY InitWhole DEF MCInit
<1>2. \A w \in Window : call[w] = NoCall
  BY <1>1 DEF Init
<1>3. /\ work.journal = <<>> /\ index.journal = <<>> /\ acknowledged = {} /\ lost = {}
      /\ DOMAIN commits = {1} /\ commits[1].tree.journal = <<>>
  BY <1>1 DEF Init
<1>4. AllProper /\ AllStay
  BY <1>2, <1>3, EmptyIsProper DEF AllProper, AllStay, NoCall
<1>5. Alone /\ \A w \in Window : Ready(call[w])
  BY <1>2 DEF Alone, idle, Ready, NoCall
<1> QED
  BY <1>1, <1>4, <1>5 DEF Turns, InTurn

LEMMA NextTurns == Turns /\ [MCNext]_<<vars, overlapped>> => Turns'
<1> SUFFICES ASSUME Turns, [MCNext]_<<vars, overlapped>> PROVE Turns'
  OBVIOUS
<1>1. CASE UNCHANGED <<vars, overlapped>>
  <2>1. Whole'
    BY <1>1, NextKeeps DEF Turns
  <2>2. UNCHANGED <<work, index, commits, call, acknowledged, lost, overlapped>>
    BY <1>1 DEF vars, gitVars
  <2>3. InTurn => InTurn'
    BY <2>2 DEF InTurn, Alone, idle, AllProper, AllStay, Ready, Backed, HEAD, HEADparent
  <2> QED
    BY <2>1, <2>2, <2>3 DEF Turns
<1>2. CASE MCNext
  <2>1. Whole'
    BY <1>2, NextKeeps DEF Turns, MCNext
  <2>2. ASSUME ~overlapped' PROVE InTurn'
    <3>1. ~overlapped /\ Alone' /\ Next
      BY <1>2, <2>2, Zenon DEF MCNext
    <3>2. Whole /\ InTurn
      BY <3>1 DEF Turns
    <3> QED
      BY <3>1, <3>2, TurnDrafts, TurnLocks, TurnWrites, TurnStages, TurnCommits, TurnProjects,
         TurnReverts DEF Next
  <2> QED
    BY <2>1, <2>2 DEF Turns
<1> QED
  BY <1>1, <1>2

\* As long as calls do not overlap, over failures, crashes and reverts: undo and redo
\* alternate along every chain of the journal,
THEOREM Alternating == MCSpec => []AlternatesInTurn
<1>1. Turns => AlternatesInTurn
  BY DEF Turns, InTurn, AllProper, Proper, Tails, AlternatesInTurn, CompensationTargetsTail, journal
<1> QED
  BY <1>1, InitTurns, NextTurns, PTL DEF MCSpec

\* lanes are created once and change only on purpose,
THEOREM LanesKept == MCSpec => []LanesInTurn
<1>1. Turns => LanesInTurn
  BY DEF Turns, InTurn, AllProper, Proper, OnPurpose, CreatedOnce, LanesInTurn,
         LaneChangesOnPurpose, LaneCreatedOnce, journal
<1> QED
  BY <1>1, InitTurns, NextTurns, PTL DEF MCSpec

\* and stepping back through the saves of project.json discards no acknowledged event.
THEOREM OlderActionsKept == MCSpec => []OlderActionsStayInTurn
<1>1. Turns => OlderActionsStayInTurn
  BY DEF Turns, InTurn, AllStay, OlderActionsStayInTurn, OlderActionsStay, journal
<1> QED
  BY <1>1, InitTurns, NextTurns, PTL DEF MCSpec

=============================================================================
