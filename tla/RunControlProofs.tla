--------------------------- MODULE RunControlProofs ---------------------------
(***************************************************************************)
(* What the window keeps in step with the project and the journal, for any *)
(* number of projects, drivers, runs, edits and crashes; that an exported  *)
(* script keeps the order of the plan, whatever has been moved or skipped; *)
(* and that the plan of any project is ordered.                            *)
(*                                                                         *)
(* The recovery state and the closing of a journal are inductive once the  *)
(* records have their fields.  That a stale plan is being refreshed is     *)
(* not: a refresh that ends must not leave a plan of an older project, so  *)
(* RefreshIsDue says that a build in progress which is no longer of the    *)
(* current project has another refresh coming after it.                    *)
(***************************************************************************)
EXTENDS MCRunControl, SequenceTheorems, FiniteSetTheorems, TLAPS

JournalEntry == [run : Nat, status : {none, "running", "finished", "recovered"}]

Typed ==
  /\ dir \in Dirs
  /\ loading \in Dirs \cup {none}
  /\ pending \in BOOLEAN
  /\ timers \in Nat
  /\ engine = [running |-> engine.running, run |-> engine.run, dir |-> engine.dir,
               operations |-> engine.operations, of |-> engine.of]
  /\ engine.running \in BOOLEAN /\ engine.run \in Nat /\ engine.dir \in Dirs
  /\ journal \in [Dirs -> JournalEntry]

RunsAreNumbered == engine.running => engine.run > 0

\* A build under way is of the current project, or a further refresh is due.
RefreshIsDue ==
  build # NoProject => build = Snapshot \/ pending \/ timers > 0 \/ loading # none

IInv ==
  /\ Typed /\ RunsAreNumbered /\ RefreshIsDue
  /\ StalePlanIsRefreshed /\ RecoveryStateIsCurrent /\ RecoveryClosesOwnRun

LEMMA InitIInv == Init => IInv
<1> SUFFICES ASSUME Init PROVE IInv
  OBVIOUS
<1>1. Typed
  BY DEF Init, Typed, JournalEntry
<1>2. RunsAreNumbered /\ RefreshIsDue /\ StalePlanIsRefreshed
  BY DEF Init, RunsAreNumbered, RefreshIsDue, StalePlanIsRefreshed
<1>3. RecoveryStateIsCurrent /\ RecoveryClosesOwnRun
  BY <1>1 DEF Init, Typed, RecoveryStateIsCurrent, RecoveryClosesOwnRun, none
<1> QED
  BY <1>1, <1>2, <1>3 DEF IInv

\* What mutateProject does to the parts the invariant speaks of, whoever calls it.
LEMMA MutationKeepsIInv ==
  ASSUME IInv, NEW c, mutateProject(c),
         \/ build = NoProject /\ planOf' = NoProject
         \/ build # NoProject /\ planOf' = planOf
  PROVE  IInv'
<1>1. Typed'
  BY DEF IInv, Typed, mutateProject, runVars, postponed
<1>2. RunsAreNumbered' /\ RecoveryClosesOwnRun'
  BY DEF IInv, RunsAreNumbered, RecoveryClosesOwnRun, mutateProject, runVars
<1>3. RecoveryStateIsCurrent'
  BY DEF IInv, RecoveryStateIsCurrent, mutateProject, runVars, recoveryOf
<1>4. RefreshIsDue' /\ StalePlanIsRefreshed'
  <2>1. CASE build = NoProject
    BY <2>1 DEF RefreshIsDue, StalePlanIsRefreshed, mutateProject, Snapshot
  <2>2. CASE build # NoProject
    <3>1. pending'
      BY <2>2 DEF mutateProject, postponed, IInv, Typed
    <3> QED
      BY <3>1 DEF RefreshIsDue, StalePlanIsRefreshed
  <2> QED
    BY <2>1, <2>2
<1> QED
  BY <1>1, <1>2, <1>3, <1>4 DEF IInv

LEMMA EditKeepsIInv ==
  ASSUME IInv, edit
  PROVE  IInv'
<1>1. ASSUME NEW i \in Items, addDriver(i) PROVE IInv'
  BY <1>1, MutationKeepsIInv DEF addDriver
<1>2. ASSUME NEW i \in Items, removeDriver(i) PROVE IInv'
  BY <1>2, MutationKeepsIInv DEF removeDriver
<1>3. ASSUME NEW k \in DOMAIN plan, skipOperation(k) PROVE IInv'
  BY <1>3, MutationKeepsIInv DEF skipOperation
<1>4. ASSUME NEW k \in DOMAIN plan, NEW l \in neighbours(k), moveOperation(k, l) PROVE IInv'
  BY <1>4, MutationKeepsIInv DEF moveOperation
<1> QED
  BY <1>1, <1>2, <1>3, <1>4 DEF edit

\* A refresh of the current project makes one due, at once or after the one under way.
LEMMA RefreshMakesDue ==
  ASSUME refreshPlan(Snapshot'), Typed
  PROVE  RefreshIsDue' /\ StalePlanIsRefreshed' /\ (pending' \in BOOLEAN)
BY DEF refreshPlan, postponed, RefreshIsDue, StalePlanIsRefreshed, Typed

LEMMA PlanStepKeepsIInv ==
  ASSUME IInv, requestRefresh \/ refreshTimer \/ deliverPlan
  PROVE  IInv'
<1>1. UNCHANGED <<projectVars, runVars, recovery>> /\ timers' \in Nat /\ pending' \in BOOLEAN
  <2>1. UNCHANGED <<projectVars, runVars, recovery>>
    BY DEF requestRefresh, refreshTimer, deliverPlan
  <2>2. timers' \in Nat
    BY DEF requestRefresh, refreshTimer, deliverPlan, IInv, Typed
  <2>3. pending' \in BOOLEAN
    <3>1. CASE requestRefresh
      BY <3>1 DEF requestRefresh, refreshPlan, postponed, IInv, Typed
    <3>2. CASE refreshTimer
      BY <3>2 DEF refreshTimer, refreshPlan, postponed, IInv, Typed
    <3>3. CASE deliverPlan
      BY <3>3 DEF deliverPlan
    <3> QED
      BY <3>1, <3>2, <3>3
  <2> QED
    BY <2>1, <2>2, <2>3
<1>2. Typed' /\ RunsAreNumbered' /\ RecoveryStateIsCurrent' /\ RecoveryClosesOwnRun'
  BY <1>1 DEF IInv, Typed, RunsAreNumbered, RecoveryStateIsCurrent, RecoveryClosesOwnRun,
              projectVars, runVars
<1>3. RefreshIsDue' /\ StalePlanIsRefreshed'
  <2>1. CASE requestRefresh \/ refreshTimer
    <3>1. Snapshot' = Snapshot
      BY <1>1 DEF Snapshot, projectVars
    <3>2. refreshPlan(Snapshot)
      BY <2>1 DEF requestRefresh, refreshTimer
    <3> QED
      BY <3>1, <3>2, RefreshMakesDue DEF IInv
  <2>2. CASE deliverPlan
    BY <2>2, <1>1 DEF deliverPlan, IInv, Typed, RefreshIsDue, StalePlanIsRefreshed, Snapshot,
                 projectVars, runVars
  <2> QED
    BY <2>1, <2>2
<1> QED
  BY <1>2, <1>3 DEF IInv

LEMMA ProjectStepKeepsIInv ==
  ASSUME IInv, saved \/ (\E d \in Dirs : openProject(d)) \/ projectOpened \/ crash
  PROVE  IInv'
<1>1. CASE saved
  <2>1. UNCHANGED <<dir, config, loading, planVars, runVars, recovery>>
    BY <1>1 DEF saved
  <2> QED
    BY <2>1 DEF IInv, Typed, RunsAreNumbered, RefreshIsDue, StalePlanIsRefreshed,
                RecoveryStateIsCurrent, RecoveryClosesOwnRun, planVars, runVars, Snapshot
<1>2. ASSUME NEW d \in Dirs, openProject(d) PROVE IInv'
  <2>1. loading' \in Dirs /\ loading' # none
    BY <1>2, NoneAssumption DEF openProject
  <2>2. UNCHANGED <<dir, config, planVars, runVars, recovery>>
    BY <1>2 DEF openProject
  <2> QED
    BY <2>1, <2>2 DEF IInv, Typed, RunsAreNumbered, RefreshIsDue, StalePlanIsRefreshed,
                RecoveryStateIsCurrent, RecoveryClosesOwnRun, planVars, runVars
<1>3. CASE projectOpened
  <2>1. /\ dir' \in Dirs /\ loading' = none /\ refreshPlan(Snapshot')
        /\ recovery' = recoveryOf(dir', journal') /\ UNCHANGED <<timers, runVars>>
    BY <1>3 DEF projectOpened, Snapshot, runVars, IInv, Typed
  <2>2. RefreshIsDue' /\ StalePlanIsRefreshed' /\ pending' \in BOOLEAN
    BY <2>1, RefreshMakesDue DEF IInv
  <2>3. Typed' /\ RunsAreNumbered' /\ RecoveryClosesOwnRun'
    BY <2>1, <2>2 DEF IInv, Typed, RunsAreNumbered, RecoveryClosesOwnRun, runVars
  <2>4. RecoveryStateIsCurrent'
    BY <2>1 DEF RecoveryStateIsCurrent, recoveryOf
  <2> QED
    BY <2>2, <2>3, <2>4 DEF IInv
<1>4. CASE crash
  <2>1. /\ UNCHANGED <<dir, journal, discarded>> /\ build' = Snapshot' /\ loading' = none
        /\ engine' = [engine EXCEPT !.running = FALSE]
        /\ pending' = FALSE /\ timers' = 0 /\ recovery' = recoveryOf(dir, journal)
    BY <1>4 DEF crash, Snapshot
  <2>2. Typed' /\ RunsAreNumbered'
    BY <2>1 DEF IInv, Typed, RunsAreNumbered
  <2>3. RefreshIsDue' /\ StalePlanIsRefreshed'
    BY <2>1 DEF RefreshIsDue, StalePlanIsRefreshed
  <2>4. RecoveryStateIsCurrent' /\ RecoveryClosesOwnRun'
    BY <2>1 DEF IInv, RecoveryStateIsCurrent, RecoveryClosesOwnRun, recoveryOf
  <2> QED
    BY <2>2, <2>3, <2>4 DEF IInv
<1> QED
  BY <1>1, <1>2, <1>3, <1>4

LEMMA RunStepKeepsIInv ==
  ASSUME IInv, runPlan \/ engineSignals \/ runFinished
  PROVE  IInv'
<1>1. UNCHANGED <<projectVars, build, pending, timers, discarded>>
  BY DEF runPlan, engineSignals, runFinished, planVars, runVars
<1>2. CASE runPlan
  <2>1. /\ engine' = [running |-> TRUE, run |-> engine.run + 1, dir |-> dir,
                      operations |-> plan, of |-> planOf]
        /\ journal' = [journal EXCEPT ![dir] = [run |-> engine.run + 1, status |-> "running"]]
        /\ UNCHANGED planOf
    BY <1>2 DEF runPlan, planVars
  <2>2. Typed' /\ RunsAreNumbered'
    BY <2>1, <1>1 DEF IInv, Typed, RunsAreNumbered, projectVars, JournalEntry
  <2>3. RefreshIsDue' /\ StalePlanIsRefreshed'
    BY <2>1, <1>1 DEF IInv, Typed, RefreshIsDue, StalePlanIsRefreshed, Snapshot, projectVars
  <2>4. RecoveryStateIsCurrent'
    BY <2>1, <1>1 DEF RecoveryStateIsCurrent, projectVars
  <2>5. RecoveryClosesOwnRun'
    BY <2>1, <1>1 DEF IInv, Typed, RecoveryClosesOwnRun
  <2> QED
    BY <2>2, <2>3, <2>4, <2>5 DEF IInv
<1>3. CASE engineSignals
  <2>1. planOf' = engine.of /\ engine.running /\ UNCHANGED <<runVars, recovery>>
    BY <1>3 DEF engineSignals
  <2> QED
    BY <2>1, <1>1 DEF IInv, Typed, RunsAreNumbered, RefreshIsDue, StalePlanIsRefreshed,
                RecoveryStateIsCurrent, RecoveryClosesOwnRun, Snapshot, projectVars, runVars
<1>4. CASE runFinished
  <2>1. /\ planOf' = engine.of /\ engine.running
        /\ engine' = [engine EXCEPT !.running = FALSE]
        /\ \/ journal' = [journal EXCEPT ![engine.dir] = [run |-> engine.run, status |-> "finished"]]
           \/ UNCHANGED journal
        /\ recovery' = recoveryOf(dir, journal')
    BY <1>4 DEF runFinished
  <2>2. Typed' /\ RunsAreNumbered'
    <3>1. journal' \in [Dirs -> JournalEntry]
      BY <2>1 DEF IInv, Typed, JournalEntry
    <3> QED
      BY <2>1, <3>1, <1>1 DEF IInv, Typed, RunsAreNumbered, projectVars
  <2>3. RefreshIsDue' /\ StalePlanIsRefreshed'
    BY <2>1, <1>1 DEF IInv, Typed, RunsAreNumbered, RefreshIsDue, StalePlanIsRefreshed, Snapshot,
                 projectVars
  <2>4. RecoveryStateIsCurrent'
    BY <2>1, <1>1 DEF RecoveryStateIsCurrent, recoveryOf, projectVars
  <2>5. RecoveryClosesOwnRun'
    BY <2>1, <1>1 DEF IInv, Typed, RecoveryClosesOwnRun
  <2> QED
    BY <2>2, <2>3, <2>4, <2>5 DEF IInv
<1> QED
  BY <1>2, <1>3, <1>4

\* The journal is closed by the unmount of the very run it is of, or not at all.
LEMMA UnmountStepKeepsIInv ==
  ASSUME IInv, safeUnmountRecovery \/ unmountFinished
  PROVE  IInv'
<1>1. UNCHANGED <<projectVars, planVars, engine>>
  BY DEF safeUnmountRecovery, unmountFinished
<1>2. RunsAreNumbered' /\ RefreshIsDue' /\ StalePlanIsRefreshed'
  BY <1>1 DEF IInv, RunsAreNumbered, RefreshIsDue, StalePlanIsRefreshed, Snapshot, projectVars,
              planVars
<1>3. CASE UNCHANGED <<journal, discarded, recovery>>
  BY <1>1, <1>2, <1>3 DEF IInv, Typed, RecoveryStateIsCurrent, RecoveryClosesOwnRun, projectVars,
              planVars
<1>4. CASE /\ discarded' = discarded \cup {unmount.run}
           /\ journal' = closed(journal, unmount.dir, unmount.run) \/ UNCHANGED journal
           /\ recovery' = recoveryOf(dir, journal')
  <2>1. journal' \in [Dirs -> JournalEntry]
    BY <1>4 DEF IInv, Typed, closed, JournalEntry
  <2>2. Typed'
    BY <2>1, <1>1 DEF IInv, Typed, projectVars, planVars
  <2>3. RecoveryStateIsCurrent'
    BY <1>1, <1>4 DEF RecoveryStateIsCurrent, recoveryOf, projectVars
  <2>4. RecoveryClosesOwnRun'
    BY <1>4, <2>1 DEF IInv, Typed, RecoveryClosesOwnRun, closed, JournalEntry
  <2> QED
    BY <1>2, <2>2, <2>3, <2>4 DEF IInv
<1> QED
  BY <1>3, <1>4 DEF safeUnmountRecovery, unmountFinished

LEMMA StepIInv == IInv /\ [Next]_vars => IInv'
<1> SUFFICES ASSUME IInv, [Next]_vars PROVE IInv'
  OBVIOUS
<1>1. CASE edit
  BY <1>1, EditKeepsIInv
<1>2. CASE requestRefresh \/ refreshTimer \/ deliverPlan
  BY <1>2, PlanStepKeepsIInv
<1>3. CASE saved \/ (\E d \in Dirs : openProject(d)) \/ projectOpened \/ crash
  BY <1>3, ProjectStepKeepsIInv
<1>4. CASE runPlan \/ engineSignals \/ runFinished
  BY <1>4, RunStepKeepsIInv
<1>5. CASE safeUnmountRecovery \/ unmountFinished
  BY <1>5, UnmountStepKeepsIInv
<1>6. CASE UNCHANGED vars
  BY <1>6 DEF vars, IInv, Typed, RunsAreNumbered, RefreshIsDue, StalePlanIsRefreshed, Snapshot,
              RecoveryStateIsCurrent, RecoveryClosesOwnRun, projectVars, planVars, runVars
<1> QED
  BY <1>1, <1>2, <1>3, <1>4, <1>5, <1>6 DEF Next

LEMMA IInvHolds == Spec => []IInv
  BY InitIInv, StepIInv, PTL DEF Spec

\* Whatever is opened, run, closed or lost in a crash, what the window offers to recover
\* is what the journal of the open project says (reloadRecoveryState).
THEOREM RecoveryIsCurrent == Spec => []RecoveryStateIsCurrent
<1>1. IInv => RecoveryStateIsCurrent
  BY DEF IInv
<1> QED
  BY <1>1, IInvHolds, PTL

\* No journal of a run is closed by the unmount of another one (safeUnmountRecovery).
THEOREM RecoveryClosesItsRun == Spec => []RecoveryClosesOwnRun
<1>1. IInv => RecoveryClosesOwnRun
  BY DEF IInv
<1> QED
  BY <1>1, IInvHolds, PTL

\* A plan of an older project never stays: a rebuild is under way or due, or a run has
\* put its own operations there (refreshPlan).
THEOREM StalePlansAreRefreshed == Spec => []StalePlanIsRefreshed
<1>1. IInv => StalePlanIsRefreshed
  BY DEF IInv
<1> QED
  BY <1>1, IInvHolds, PTL

-----------------------------------------------------------------------------
(***************************************************************************)
(* The exported script.  stableTopologicalOrder and the rearrangement of a *)
(* plan are recursive or count places, so the library's facts about finite *)
(* sets carry the induction: a set of naturals has a least member, for     *)
(* otherwise stepping down would be an injection of a finite set into      *)
(* itself that is not onto (Least), and what holds of 0 and of the         *)
(* successor of whatever it holds of holds of every natural (Climb).       *)
(*                                                                         *)
(* Sound is what every list of operations keeps: its ids are its own and   *)
(* each operation depends on operations of the list with smaller numbers.  *)
(* The builder's list is sound, and neither planOrder, a move nor skips    *)
(* change that; in a sound list something is always ready, so the order    *)
(* takes every operation, each after those it depends on.                  *)
(***************************************************************************)
\* A set of natural numbers has a least member.
LEMMA Least ==
  ASSUME NEW S \in SUBSET Nat, S # {}
  PROVE  \E m \in S : \A k \in S : m <= k
<1>1. SUFFICES ASSUME \A m \in S : \E k \in S : k < m
               PROVE  FALSE
  OBVIOUS
<1>2. PICK n \in S : TRUE
  OBVIOUS
<1> DEFINE above == {m \in 0 .. n : \E k \in S : k <= m}
           down == [m \in above |-> m - 1]
<1>3. IsFiniteSet(above) /\ n \in above
  <2>1. n \in Int /\ 0 \in Int /\ above \in SUBSET (0 .. n) /\ n \in above
    BY <1>2
  <2> HIDE DEF above
  <2>2. IsFiniteSet(0 .. n)
    BY <2>1, FS_Interval
  <2> QED
    BY <2>1, <2>2, FS_Subset
<1>4. down \in Injection(above, above)
  <2>1. ASSUME NEW m \in above PROVE m - 1 \in above
    BY <1>1
  <2> QED
    BY <2>1 DEF Injection, IsInjective
<1>5. down \in Surjection(above, above)
  <2> HIDE DEF down, above
  <2> QED
    BY <1>3, <1>4, FS_Injection
<1>6. PICK m \in above : down[m] = n
  BY <1>3, <1>5 DEF Surjection
<1> QED
  BY <1>6

\* Induction, for the predicate that a set stands for.
LEMMA Climb ==
  ASSUME NEW S, 0 \in S, \A n \in Nat : n \in S => n + 1 \in S
  PROVE  Nat \subseteq S
<1> SUFFICES ASSUME Nat \ S # {} PROVE FALSE
  OBVIOUS
<1>1. PICK m \in Nat \ S : \A k \in Nat \ S : m <= k
  BY Least, Nat \ S \in SUBSET Nat
<1>2. m - 1 \in Nat /\ m - 1 \in S
  BY <1>1
<1> QED
  BY <1>1, <1>2

\* kept lists the entries at the places in ascending order, each once: its k-th entry is
\* the one at a place f[k], where f climbs through all of them.
Climbs(f, places) ==
  /\ f \in [1..Cardinality(places) -> places]
  /\ \A p \in places : \E k \in 1..Cardinality(places) : f[k] = p
  /\ \A k, l \in 1..Cardinality(places) : k < l <=> f[k] < f[l]

Picks(f, list, places) ==
  Climbs(f, places) /\ kept(list, places) = [k \in 1..Cardinality(places) |-> list[f[k]]]

LEMMA KeptPlaces ==
  ASSUME NEW n \in Nat, NEW places \in SUBSET (1..n), NEW list
  PROVE  Cardinality(places) \in Nat /\ \E f : Picks(f, list, places)
<1> DEFINE N == Cardinality(places)
           upTo(p) == {q \in places : q <= p}
           rank == [p \in places |-> Cardinality(upTo(p))]
           f == [k \in 1..N |-> CHOOSE p \in places : Cardinality(upTo(p)) = k]
<1>1. \A p \in places : p \in Int
  OBVIOUS
<1>2. IsFiniteSet(1..n) /\ IsFiniteSet(places) /\ N \in Nat
  <2>1. IsFiniteSet(1..n)
    BY 1 \in Int, n \in Int, FS_Interval
  <2>2. IsFiniteSet(places)
    BY <2>1, FS_Subset, Zenon
  <2> QED
    BY <2>1, <2>2, FS_CardinalityType
<1>3. IsFiniteSet(1..N) /\ Cardinality(1..N) = N
  BY <1>2, FS_Interval
<1>4. ASSUME NEW p \in places
      PROVE  IsFiniteSet(upTo(p)) /\ rank[p] \in 1..N
  <2>1. upTo(p) \in SUBSET places
    OBVIOUS
  <2>2. p \in upTo(p)
    OBVIOUS
  <2> HIDE DEF upTo
  <2>3. IsFiniteSet(upTo(p)) /\ Cardinality(upTo(p)) <= N /\ Cardinality(upTo(p)) \in Nat
    BY <1>2, <2>1, FS_Subset, FS_CardinalityType
  <2>4. Cardinality(upTo(p)) # 0
    BY <2>2, <2>3, FS_EmptySet
  <2> QED
    BY <2>3, <2>4
<1>5. \A p \in places : rank[p] \in Nat
  <2> SUFFICES ASSUME NEW p \in places PROVE rank[p] \in Nat
    OBVIOUS
  <2>1. rank[p] \in 1..N /\ N \in Nat
    BY <1>4, <1>2
  <2> HIDE DEF rank, N
  <2> QED
    BY <2>1
<1>6. ASSUME NEW p \in places, NEW q \in places, p < q
      PROVE  rank[p] < rank[q]
  <2>1. upTo(p) \in SUBSET upTo(q)
    <3>1. ASSUME NEW x \in places, x <= p PROVE x <= q
      <4>1. x \in Int /\ p \in Int /\ q \in Int
        BY <1>1
      <4> QED
        BY <3>1, <4>1, <1>6
    <3> QED
      BY <3>1
  <2>2. q \in upTo(q) /\ q \notin upTo(p)
    BY <1>6
  <2>3. IsFiniteSet(upTo(q)) /\ rank[p] \in Nat /\ rank[q] \in Nat
    BY <1>4, <1>2
  <2>4. rank[p] = Cardinality(upTo(p)) /\ rank[q] = Cardinality(upTo(q))
    OBVIOUS
  <2> HIDE DEF upTo, rank
  <2>5. Cardinality(upTo(p)) <= Cardinality(upTo(q)) /\ Cardinality(upTo(p)) # Cardinality(upTo(q))
    BY <2>1, <2>2, <2>3, FS_Subset, Zenon
  <2> QED
    BY <2>3, <2>4, <2>5
<1>7. rank \in Surjection(places, 1..N)
  <2>1. rank \in [places -> 1..N]
    BY <1>4
  <2>2. \A p, q \in places : rank[p] = rank[q] => p = q
    <3> SUFFICES ASSUME NEW p \in places, NEW q \in places, p # q
                 PROVE  rank[p] # rank[q]
      OBVIOUS
    <3>1. p < q \/ q < p
      BY <1>1
    <3>2. rank[p] \in Nat /\ rank[q] \in Nat
      BY <1>5
    <3> HIDE DEF rank
    <3> QED
      BY <3>1, <3>2, <1>6
  <2> HIDE DEF rank, N
  <2>3. rank \in Injection(places, 1..N)
    BY <2>1, <2>2 DEF Injection, IsInjective
  <2> QED
    BY <1>2, <1>3, <2>3, FS_Injection DEF N
<1>8. ASSUME NEW k \in 1..N
      PROVE  f[k] \in places /\ rank[f[k]] = k
  <2>1. PICK p \in places : rank[p] = k
    <3> HIDE DEF rank, N
    <3> QED
      BY <1>7 DEF Surjection
  <2>2. Cardinality(upTo(p)) = k
    BY <2>1
  <2>3. \A q \in places : rank[q] = Cardinality(upTo(q))
    OBVIOUS
  <2>4. f[k] = CHOOSE q \in places : Cardinality(upTo(q)) = k
    OBVIOUS
  <2> HIDE DEF rank, upTo, f
  <2> QED
    BY <2>2, <2>3, <2>4
<1>9. Climbs(f, places)
  <2>1. f \in [1..N -> places]
    BY <1>8
  <2>2. ASSUME NEW p \in places PROVE \E k \in 1..N : f[k] = p
    <3>1. rank[p] \in 1..N
      BY <1>4
    <3>2. f[rank[p]] \in places /\ rank[f[rank[p]]] = rank[p]
      BY <1>8, <3>1
    <3> HIDE DEF rank, f
    <3>3. f[rank[p]] = p
      <4>1. f[rank[p]] < p \/ p < f[rank[p]] \/ f[rank[p]] = p
        <5>1. f[rank[p]] \in Int /\ p \in Int
          BY <1>1, <3>2
        <5> HIDE DEF N
        <5> QED
          BY <5>1
      <4>2. rank[p] \in Nat
        BY <3>2, <1>5
      <4>3. rank[p] < rank[p] <=> FALSE
        BY <4>2
      <4> QED
        BY <3>2, <4>1, <4>3, <1>6
    <3> QED
      BY <3>1, <3>3
  <2>3. ASSUME NEW k \in 1..N, NEW l \in 1..N PROVE k < l <=> f[k] < f[l]
    <3>1. f[k] \in places /\ f[l] \in places /\ rank[f[k]] = k /\ rank[f[l]] = l
      BY <1>8
    <3> HIDE DEF rank, f
    <3>2. f[k] < f[l] => k < l
      BY <3>1, <1>6
    <3>3. f[l] < f[k] => l < k
      BY <3>1, <1>6
    <3>4. f[k] = f[l] => k = l
      BY <3>1
    <3>5. f[k] \in Int /\ f[l] \in Int /\ k \in Int /\ l \in Int
      <4>1. f[k] \in Int /\ f[l] \in Int
        BY <3>1, <1>1
      <4>2. k \in 1..N /\ l \in 1..N /\ N \in Nat
        BY <1>2
      <4> HIDE DEF N
      <4>3. k \in Int /\ l \in Int
        BY <4>2
      <4> QED
        BY <4>1, <4>3
    <3> QED
      BY <3>2, <3>3, <3>4, <3>5
  <2> HIDE DEF f
  <2> QED
    BY <2>1, <2>2, <2>3 DEF Climbs
<1>10. kept(list, places) = [k \in 1..N |-> list[f[k]]]
  BY DEF kept
<1>11. Picks(f, list, places)
  BY <1>9, <1>10 DEF Picks
<1> QED
  BY <1>2, <1>11

-----------------------------------------------------------------------------
\* The ids of operations: a kind, and how many operations were created before.
Id == {"hash", "inspect", "mount", "driver", "validate", "unmount"} \X Nat
PlannedOperation == [id : Id, item : Items \cup {none}, deps : SUBSET Id, skipped : BOOLEAN]

\* A list the builder may have returned, in any order: ids are not shared, and what an
\* operation depends on is in the list and was created before it.
Sound(p) ==
  /\ p \in Seq(PlannedOperation)
  /\ \A i, j \in DOMAIN p : p[i].id = p[j].id => i = j
  /\ \A i \in DOMAIN p : \A d \in p[i].deps :
       d[2] < p[i].id[2] /\ \E j \in DOMAIN p : p[j].id = d

\* stableTopologicalOrder, one operation at a time: order(n) are the first n places.
Ready(list, taken) == {k \in DOMAIN list : /\ k \notin taken
                                           /\ \A d \in list[k].deps : \E t \in taken : list[t].id = d}
First(S) == CHOOSE k \in S : \A l \in S : k <= l
OrderUpTo(f, list, m) ==
  f = [n \in 0..m |-> IF n = 0 THEN <<>>
                      ELSE LET taken == f[n - 1] IN Append(taken, First(Ready(list, ToSet(taken))))]

LEMMA OrderExists ==
  ASSUME NEW list, NEW L \in Nat
  PROVE  \E f : OrderUpTo(f, list, L)
<1> DEFINE step(taken) == Append(taken, First(Ready(list, ToSet(taken))))
           Upto(f, m) == f = [n \in 0..m |-> IF n = 0 THEN <<>> ELSE step(f[n - 1])]
           S == {m \in Nat : \E f : Upto(f, m)}
<1> HIDE DEF step
<1>1. 0 \in S
  <2>1. Upto([n \in 0..0 |-> <<>>], 0)
    OBVIOUS
  <2> QED
    BY <2>1
<1>2. ASSUME NEW m \in Nat, m \in S PROVE m + 1 \in S
  <2>1. PICK f : f = [n \in 0..m |-> IF n = 0 THEN <<>> ELSE step(f[n - 1])]
    BY <1>2
  <2> DEFINE g == [n \in 0..(m + 1) |-> IF n <= m THEN f[n] ELSE step(f[m])]
             h == [n \in 0..(m + 1) |-> IF n = 0 THEN <<>> ELSE step(g[n - 1])]
  <2>2. ASSUME NEW n \in 0..(m + 1) PROVE g[n] = h[n]
    <3>1. CASE n = 0
      <4>1. g[n] = f[n] /\ f[n] = <<>> /\ h[n] = <<>>
        BY <3>1, <2>1
      <4> QED
        BY <4>1
    <3>2. CASE n \in 1..m
      <4>1. g[n] = f[n] /\ n \in 0..m /\ n # 0 /\ n - 1 \in 0..(m + 1) /\ g[n - 1] = f[n - 1] /\ h[n] = step(g[n - 1])
        BY <3>2
      <4>2. f[n] = step(f[n - 1])
        BY <2>1, <4>1
      <4> QED
        BY <4>1, <4>2
    <3>3. CASE n = m + 1
      <4>1. g[n] = step(f[m]) /\ n # 0 /\ n - 1 = m /\ m \in 0..(m + 1) /\ g[m] = f[m] /\ h[n] = step(g[n - 1])
        BY <3>3
      <4> QED
        BY <4>1
    <3> QED
      BY <3>1, <3>2, <3>3
  <2>3. g = h
    BY <2>2
  <2>4. Upto(g, m + 1)
    BY <2>3
  <2> HIDE DEF g, Upto
  <2> QED
    BY <2>4
<1>3. L \in S
  <2> HIDE DEF S
  <2> QED
    BY <1>1, <1>2, Climb
<1> QED
  BY <1>3 DEF OrderUpTo, step

LEMMA StableOrder ==
  ASSUME NEW list, NEW L \in Nat, Len(list) = L
  PROVE  \E f : OrderUpTo(f, list, L) /\ stableTopologicalOrder(list) = f[L]
<1> DEFINE f == CHOOSE f : OrderUpTo(f, list, L)
<1>1. OrderUpTo(f, list, L)
  <2>1. \E x : OrderUpTo(x, list, L)
    BY OrderExists
  <2> QED
    BY <2>1, Zenon
<1>2. stableTopologicalOrder(list) = f[L]
  BY DEF stableTopologicalOrder, OrderUpTo, Ready, First
<1> QED
  BY <1>1, <1>2, Zenon

\* The first n places: distinct, and each after the places it depends on.
Respects(o, list, n) ==
  /\ o \in Seq(DOMAIN list) /\ Len(o) = n
  /\ \A i, j \in 1..n : o[i] = o[j] => i = j
  /\ \A k \in 1..n : \A d \in list[o[k]].deps : \E t \in 1..n : t < k /\ list[o[t]].id = d

\* Something is always ready: what was created first of those not yet taken.
LEMMA SomeReady ==
  ASSUME NEW list, Sound(list), NEW o, NEW n \in Nat, n < Len(list), Respects(o, list, n)
  PROVE  /\ First(Ready(list, ToSet(o))) \in DOMAIN list
         /\ \A i \in 1..n : o[i] # First(Ready(list, ToSet(o)))
         /\ \A d \in list[First(Ready(list, ToSet(o)))].deps : \E t \in 1..n : list[o[t]].id = d
<1> DEFINE D == DOMAIN list
           taken == ToSet(o)
           left == D \ taken
           R == Ready(list, taken)
<1>1. D = 1..Len(list) /\ Len(list) \in Nat /\ DOMAIN o = 1..n
  BY DEF Sound, Respects
<1>2. \A k \in D : list[k].id \in Id /\ list[k].id[2] \in Nat
  <2>1. ASSUME NEW k \in D PROVE list[k].id \in Id
    <3>1. list[k] \in PlannedOperation
      BY DEF Sound
    <3> QED
      BY <3>1 DEF PlannedOperation
  <2>2. \A d \in Id : d[2] \in Nat
    BY DEF Id
  <2> QED
    BY <2>1, <2>2
<1>3. left # {}
  <2> SUFFICES ASSUME left = {} PROVE FALSE
    OBVIOUS
  <2>1. o \in [1..n -> D]
    BY <1>1 DEF Respects
  <2>2. \A d \in D : \E i \in 1..n : o[i] = d
    BY <1>1 DEF ToSet
  <2>3. o \in Surjection(1..n, D)
    BY <2>1, <2>2 DEF Surjection
  <2>4. IsFiniteSet(1..n) /\ Cardinality(1..n) = n
    BY 1 \in Int, n \in Int, FS_Interval
  <2>5. Cardinality(D) = Len(list)
    BY <1>1, 1 \in Int, FS_Interval
  <2> HIDE DEF D
  <2>6. Cardinality(D) <= Cardinality(1..n)
    BY <2>3, <2>4, FS_Surjection, Zenon
  <2> QED
    BY <2>4, <2>5, <2>6, <1>1
<1>4. PICK m \in left : \A k \in left : list[m].id[2] <= list[k].id[2]
  <2> DEFINE T == {list[k].id[2] : k \in left}
  <2>1. T \in SUBSET Nat /\ T # {}
    BY <1>2, <1>3
  <2> HIDE DEF T
  <2>2. PICK x \in T : \A y \in T : x <= y
    BY <2>1, Least
  <2> QED
    BY <2>2 DEF T
<1>5. m \in R
  <2>1. ASSUME NEW d \in list[m].deps PROVE \E t \in taken : list[t].id = d
    <3>1. d[2] < list[m].id[2] /\ \E j \in D : list[j].id = d
      BY <2>1 DEF Sound
    <3>2. PICK j \in D : list[j].id = d
      BY <3>1
    <3>3. j \notin left
      <4>1. list[m].id[2] \in Nat /\ list[j].id[2] \in Nat /\ list[j].id[2] < list[m].id[2]
        BY <1>2, <3>1, <3>2
      <4> QED
        BY <4>1, <1>4
    <3> QED
      BY <3>2, <3>3
  <2> QED
    BY <2>1 DEF Ready
<1>6. PICK x \in R : \A y \in R : x <= y
  <2>1. R \in SUBSET Nat /\ R # {}
    BY <1>1, <1>5 DEF Ready
  <2> HIDE DEF R
  <2> QED
    BY <2>1, Least
<1>7. First(R) \in R
  <2> HIDE DEF R
  <2> QED
    BY <1>6 DEF First
<1>8. /\ First(R) \in D /\ First(R) \notin taken
      /\ \A d \in list[First(R)].deps : \E t \in taken : list[t].id = d
  BY <1>7 DEF Ready
<1>9. taken = {o[i] : i \in 1..n}
  BY <1>1 DEF ToSet
<1> HIDE DEF R, taken
<1>10. /\ \A i \in 1..n : o[i] # First(R)
       /\ \A d \in list[First(R)].deps : \E t \in 1..n : list[o[t]].id = d
  BY <1>8, <1>9
<1> QED
  BY <1>8, <1>10 DEF R, taken

LEMMA OrderRespects ==
  ASSUME NEW list, Sound(list)
  PROVE  Respects(stableTopologicalOrder(list), list, Len(list))
<1> DEFINE L == Len(list)
<1>1. L \in Nat
  BY DEF Sound
<1>2. PICK f : OrderUpTo(f, list, L) /\ stableTopologicalOrder(list) = f[L]
  BY <1>1, StableOrder
<1> DEFINE next(taken) == First(Ready(list, ToSet(taken)))
           S == {n \in Nat : n <= L => Respects(f[n], list, n)}
<1>3. f = [n \in 0..L |-> IF n = 0 THEN <<>> ELSE Append(f[n - 1], next(f[n - 1]))]
  BY <1>2 DEF OrderUpTo
<1>4. 0 \in S
  <2>1. f[0] = <<>>
    BY <1>1, <1>3
  <2>2. Respects(<<>>, list, 0)
    BY DEF Respects
  <2> QED
    BY <2>1, <2>2
<1>5. ASSUME NEW n \in Nat, n \in S PROVE n + 1 \in S
  <2> SUFFICES ASSUME n + 1 <= L PROVE Respects(f[n + 1], list, n + 1)
    OBVIOUS
  <2>1. n < L /\ Respects(f[n], list, n)
    BY <1>1, <1>5
  <2> DEFINE o == f[n]  x == next(o)
  <2>2. f[n + 1] = Append(o, x)
    <3>1. n + 1 \in 0..L /\ n + 1 # 0 /\ (n + 1) - 1 = n
      BY <1>1, <2>1
    <3> HIDE DEF next
    <3> QED
      BY <1>3, <3>1
  <2>3. /\ x \in DOMAIN list /\ \A i \in 1..n : o[i] # x
        /\ \A d \in list[x].deps : \E t \in 1..n : list[o[t]].id = d
    BY <2>1, SomeReady
  <2>4. /\ o \in Seq(DOMAIN list) /\ Len(o) = n
        /\ \A i, j \in 1..n : o[i] = o[j] => i = j
        /\ \A k \in 1..n : \A d \in list[o[k]].deps : \E t \in 1..n : t < k /\ list[o[t]].id = d
    BY <2>1 DEF Respects
  <2> DEFINE p == Append(o, x)
  <2> HIDE DEF o, x
  <2>5. p \in Seq(DOMAIN list) /\ Len(p) = n + 1 /\ p[n + 1] = x /\ \A i \in 1..n : p[i] = o[i]
    BY <2>3, <2>4
  <2> HIDE DEF p
  <2>6. ASSUME NEW i \in 1..(n + 1), NEW j \in 1..(n + 1), p[i] = p[j] PROVE i = j
    <3>1. (i \in 1..n \/ i = n + 1) /\ (j \in 1..n \/ j = n + 1)
      OBVIOUS
    <3> QED
      BY <3>1, <2>3, <2>4, <2>5, <2>6
  <2>7. ASSUME NEW k \in 1..(n + 1), NEW d \in list[p[k]].deps
        PROVE  \E t \in 1..(n + 1) : t < k /\ list[p[t]].id = d
    <3>1. CASE k \in 1..n
      <4>1. d \in list[o[k]].deps
        BY <3>1, <2>5
      <4>2. PICK t \in 1..n : t < k /\ list[o[t]].id = d
        BY <3>1, <4>1, <2>4
      <4>3. t \in 1..(n + 1) /\ p[t] = o[t]
        BY <2>5
      <4> QED
        BY <4>2, <4>3
    <3>2. CASE k = n + 1
      <4>1. PICK t \in 1..n : list[o[t]].id = d
        BY <3>2, <2>3, <2>5
      <4>2. t \in 1..(n + 1) /\ p[t] = o[t] /\ t < k
        BY <3>2, <2>5
      <4> QED
        BY <4>1, <4>2
    <3>3. k \in 1..n \/ k = n + 1
      OBVIOUS
    <3> QED
      BY <3>1, <3>2, <3>3
  <2>8. Respects(p, list, n + 1)
    BY <2>5, <2>6, <2>7 DEF Respects
  <2> QED
    BY <2>2, <2>8 DEF p
<1>6. L \in S
  <2> HIDE DEF S
  <2> QED
    BY <1>1, <1>4, <1>5, Climb
<1> QED
  BY <1>1, <1>2, <1>6

\* All places are taken.
LEMMA OrderIsWhole ==
  ASSUME NEW list, Sound(list), NEW o, Respects(o, list, Len(list))
  PROVE  \A j \in DOMAIN list : \E k \in 1..Len(list) : o[k] = j
<1> DEFINE D == DOMAIN list
<1>1. D = 1..Len(list) /\ Len(list) \in Nat /\ IsFiniteSet(D)
  <2>1. D = 1..Len(list) /\ Len(list) \in Nat
    BY DEF Sound
  <2>2. IsFiniteSet(1..Len(list))
    BY <2>1, 1 \in Int, FS_Interval
  <2> QED
    BY <2>1, <2>2
<1>2. o \in [D -> D]
  BY <1>1 DEF Respects
<1>3. \A i, j \in D : o[i] = o[j] => i = j
  BY <1>1 DEF Respects
<1> HIDE DEF D
<1>4. o \in Injection(D, D)
  BY <1>2, <1>3 DEF Injection, IsInjective
<1>5. o \in Surjection(D, D)
  BY <1>1, <1>4, FS_Injection, Zenon
<1> QED
  BY <1>1, <1>5 DEF Surjection, D

\* The exported script of such a list.
LEMMA ScriptInOrder ==
  ASSUME Sound(plan)
  PROVE  ScriptRespectsDependencies
<1> DEFINE L == Len(plan)
           o == stableTopologicalOrder(plan)
           all == [k \in DOMAIN o |-> plan[o[k]]]
           places == {k \in DOMAIN o : ~plan[o[k]].skipped}
           C == Cardinality(places)
           script == exportScript
<1>1. L \in Nat /\ DOMAIN plan = 1..L /\ DOMAIN o = 1..L /\ Respects(o, plan, L)
  <2>1. Respects(o, plan, L)
    BY OrderRespects
  <2> QED
    BY <2>1 DEF Respects, Sound
<1>2. \A j \in DOMAIN plan : \E k \in 1..L : o[k] = j
  BY <1>1, OrderIsWhole
<1>3. places \in SUBSET (1..L)
  BY <1>1
<1>4. script = kept(all, places)
  BY DEF exportScript
<1> HIDE DEF o, script, all
<1>5. PICK f : Climbs(f, places) /\ script = [k \in 1..C |-> all[f[k]]]
  <2>1. L \in Nat
    BY <1>1
  <2> HIDE DEF places, L
  <2>2. \E f : Picks(f, all, places)
    BY <2>1, <1>3, KeptPlaces
  <2> QED
    BY <1>4, <2>2 DEF Picks
<1>6. /\ DOMAIN script = 1..C
      /\ \A k \in 1..C : f[k] \in places /\ f[k] \in 1..L /\ script[k] = plan[o[f[k]]]
  <2>1. \A k \in 1..C : f[k] \in places
    <3> HIDE DEF places
    <3> QED
      BY <1>5 DEF Climbs
  <2> QED
    BY <1>1, <1>3, <1>5, <2>1 DEF all
<1>7. {script[k].id : k \in DOMAIN script} = {plan[k].id : k \in {j \in DOMAIN plan : ~plan[j].skipped}}
  <2>1. ASSUME NEW k \in 1..C
        PROVE  \E j \in DOMAIN plan : ~plan[j].skipped /\ script[k].id = plan[j].id
    <3>1. o[f[k]] \in DOMAIN plan
      BY <1>1, <1>6 DEF Respects
    <3> QED
      BY <3>1, <1>6
  <2>2. ASSUME NEW j \in DOMAIN plan, ~plan[j].skipped
        PROVE  \E k \in 1..C : script[k].id = plan[j].id
    <3>1. PICK m \in 1..L : o[m] = j
      BY <1>2
    <3>2. m \in places
      BY <3>1, <2>2, <1>1
    <3>3. PICK k \in 1..C : f[k] = m
      <4> HIDE DEF places
      <4> QED
        BY <3>2, <1>5 DEF Climbs
    <3> QED
      BY <3>1, <3>3, <1>6
  <2> HIDE DEF C
  <2> QED
    BY <1>6, <2>1, <2>2
<1>8. ASSUME NEW k \in 1..C, NEW j \in 1..C, script[j].id \in script[k].deps
      PROVE  j < k
  <2>1. f[k] \in 1..L /\ f[j] \in 1..L /\ script[k] = plan[o[f[k]]] /\ script[j] = plan[o[f[j]]]
    BY <1>6
  <2>2. plan[o[f[j]]].id \in plan[o[f[k]]].deps
    BY <1>8, <2>1
  <2>3. \A x \in 1..L : \A d \in plan[o[x]].deps : \E t \in 1..L : t < x /\ plan[o[t]].id = d
    BY <1>1 DEF Respects
  <2>4. \A x \in 1..L : o[x] \in DOMAIN plan
    BY <1>1 DEF Respects
  <2>5. PICK t \in 1..L : t < f[k] /\ plan[o[t]].id = plan[o[f[j]]].id
    <3> HIDE DEF L
    <3> QED
      BY <2>1, <2>2, <2>3
  <2>6. o[t] \in DOMAIN plan /\ o[f[j]] \in DOMAIN plan
    <3> HIDE DEF L
    <3> QED
      BY <2>1, <2>4
  <2>7. o[t] = o[f[j]]
    BY <2>5, <2>6 DEF Sound
  <2>8. t = f[j]
    BY <1>1, <2>1, <2>7 DEF Respects
  <2> HIDE DEF places
  <2> QED
    BY <1>5, <2>5, <2>8 DEF Climbs
<1> HIDE DEF C
<1>9. ScriptRespectsDependencies <=>
        /\ {script[k].id : k \in DOMAIN script} = {plan[k].id : k \in {j \in DOMAIN plan : ~plan[j].skipped}}
        /\ \A k, j \in DOMAIN script : script[j].id \in script[k].deps => j < k
  BY DEF ScriptRespectsDependencies, script
<1> QED
  BY <1>6, <1>7, <1>8, <1>9

\* A list of the same operations in another order is as sound.
LEMMA SoundSame ==
  ASSUME NEW p \in Seq(PlannedOperation), NEW q, Sound(q),
         \A i \in DOMAIN p : \E j \in DOMAIN q : p[i] = q[j],
         \A j \in DOMAIN q : \E i \in DOMAIN p : p[i] = q[j],
         \A i, j \in DOMAIN p : p[i].id = p[j].id => i = j
  PROVE  Sound(p)
<1>1. ASSUME NEW i \in DOMAIN p, NEW d \in p[i].deps
      PROVE  d[2] < p[i].id[2] /\ \E j \in DOMAIN p : p[j].id = d
  <2>1. PICK k \in DOMAIN q : p[i] = q[k]
    OBVIOUS
  <2>2. d[2] < q[k].id[2] /\ \E j \in DOMAIN q : q[j].id = d
    BY <1>1, <2>1 DEF Sound
  <2>3. PICK j \in DOMAIN q : q[j].id = d
    BY <2>2
  <2>4. PICK m \in DOMAIN p : p[m] = q[j]
    OBVIOUS
  <2> QED
    BY <2>1, <2>2, <2>3, <2>4
<1> QED
  BY <1>1 DEF Sound

\* What the concatenation of two lists is made of.
LEMMA Joined ==
  ASSUME NEW S, NEW s \in Seq(S), NEW t \in Seq(S)
  PROVE  /\ s \o t \in Seq(S) /\ Len(s) \in Nat /\ Len(t) \in Nat /\ Len(s \o t) = Len(s) + Len(t)
         /\ \A i \in 1 .. Len(s) : i \in 1 .. Len(s \o t) /\ (s \o t)[i] = s[i]
         /\ \A i \in 1 .. Len(t) : Len(s) + i \in 1 .. Len(s \o t) /\ (s \o t)[Len(s) + i] = t[i]
         /\ \A i \in 1 .. Len(s \o t) : i \in 1 .. Len(s) \/ \E k \in 1 .. Len(t) : i = Len(s) + k
<1> DEFINE u == s \o t
<1>1. /\ u \in Seq(S) /\ Len(u) = Len(s) + Len(t) /\ Len(s) \in Nat /\ Len(t) \in Nat
      /\ \A i \in 1 .. Len(u) : u[i] = IF i <= Len(s) THEN s[i] ELSE t[i - Len(s)]
  BY ConcatProperties
<1> HIDE DEF u
<1>2. ASSUME NEW i \in 1 .. Len(s)
      PROVE  i \in 1 .. Len(u) /\ u[i] = s[i]
  BY <1>1
<1>3. ASSUME NEW i \in 1 .. Len(t)
      PROVE  Len(s) + i \in 1 .. Len(u) /\ u[Len(s) + i] = t[i]
  <2>1. Len(s) + i \in 1 .. Len(u) /\ ~(Len(s) + i <= Len(s)) /\ (Len(s) + i) - Len(s) = i
    BY <1>1
  <2> QED
    BY <1>1, <2>1
<1>4. ASSUME NEW i \in 1 .. Len(u)
      PROVE  i \in 1 .. Len(s) \/ \E k \in 1 .. Len(t) : i = Len(s) + k
  <2>1. i \in 1 .. Len(s) \/ (i - Len(s) \in 1 .. Len(t) /\ i = Len(s) + (i - Len(s)))
    BY <1>1
  <2> QED
    BY <2>1
<1> QED
  BY <1>1, <1>2, <1>3, <1>4 DEF u

\* u is s followed by t.
JoinOf(u, s, t) ==
  /\ Len(u) = Len(s) + Len(t)
  /\ \A i \in 1 .. Len(s) : u[i] = s[i]
  /\ \A i \in 1 .. Len(t) : u[Len(s) + i] = t[i]

LEMMA Joins ==
  ASSUME NEW S, NEW s \in Seq(S), NEW t \in Seq(S)
  PROVE  s \o t \in Seq(S) /\ JoinOf(s \o t, s, t)
<1>1. /\ s \o t \in Seq(S) /\ Len(s) \in Nat /\ Len(t) \in Nat /\ Len(s \o t) = Len(s) + Len(t)
      /\ \A i \in 1 .. Len(s) : i \in 1 .. Len(s \o t) /\ (s \o t)[i] = s[i]
      /\ \A i \in 1 .. Len(t) : Len(s) + i \in 1 .. Len(s \o t) /\ (s \o t)[Len(s) + i] = t[i]
      /\ \A i \in 1 .. Len(s \o t) : i \in 1 .. Len(s) \/ \E k \in 1 .. Len(t) : i = Len(s) + k
  BY Joined
<1> QED
  BY <1>1, Zenon DEF JoinOf

\* ServicingPlan::build numbers the operations as it creates them.
LEMMA OperationsSound ==
  ASSUME NEW drivers \in Seq(Items)
  PROVE  Sound(operations(drivers))
<1> DEFINE n == Len(drivers)
           hash(k) == <<"hash", k>>
           change(k) == <<"driver", n + 2 + k>>
           Op(id, item, deps) == [id |-> id, item |-> item, deps |-> deps, skipped |-> FALSE]
           hashes == {hash(k) : k \in 1..n}
           mount == <<"mount", n + 2>>
           last == IF n = 0 THEN mount ELSE change(n)
           inspect == <<"inspect", n + 1>>
           validate == <<"validate", 2 * n + 3>>
           unmounted == <<"unmount", 2 * n + 4>>
           before(k) == IF k = 1 THEN mount ELSE change(k - 1)
           A == [k \in 1..n |-> Op(hash(k), drivers[k], {})]
           B == <<Op(inspect, none, hashes), Op(mount, none, hashes \cup {inspect})>>
           C == [k \in 1..n |-> Op(change(k), drivers[k], {before(k)})]
           E == <<Op(validate, none, {last}), Op(unmounted, none, {validate})>>
           p == operations(drivers)
<1>1. n \in Nat /\ DOMAIN drivers = 1..n /\ \A k \in 1..n : drivers[k] \in Items
  OBVIOUS
<1>2. p = A \o B \o C \o E
  BY DEF operations
<1> HIDE DEF n, p
<1>3. /\ \A k \in 1..n : hash(k) \in Id /\ change(k) \in Id
      /\ inspect \in Id /\ mount \in Id /\ validate \in Id /\ unmounted \in Id
  BY <1>1 DEF Id
<1>4. /\ hashes \in SUBSET Id /\ last \in Id
      /\ \A k \in 1..n : before(k) \in Id
  <2>1. \A k \in 1..n : k # 1 => k - 1 \in 1..n
    BY <1>1
  <2>2. n # 0 => n \in 1..n
    BY <1>1
  <2> HIDE DEF hash, change, mount
  <2> QED
    BY <1>3, <2>1, <2>2
<1>5. ASSUME NEW id \in Id, NEW item \in Items \cup {none}, NEW deps \in SUBSET Id
      PROVE  Op(id, item, deps) \in PlannedOperation
  BY DEF PlannedOperation
<1> HIDE DEF Op
<1>6. A \in Seq(PlannedOperation) /\ Len(A) = n
  <2>1. \A k \in 1..n : Op(hash(k), drivers[k], {}) \in PlannedOperation
    BY <1>1, <1>3, <1>5
  <2> HIDE DEF hash
  <2> QED
    BY <1>1, <2>1
<1>7. C \in Seq(PlannedOperation) /\ Len(C) = n
  <2>1. \A k \in 1..n : Op(change(k), drivers[k], {before(k)}) \in PlannedOperation
    <3> HIDE DEF change, before
    <3> QED
      BY <1>1, <1>3, <1>4, <1>5
  <2> HIDE DEF change, before
  <2> QED
    BY <1>1, <2>1
<1>8. B \in Seq(PlannedOperation) /\ Len(B) = 2 /\ E \in Seq(PlannedOperation) /\ Len(E) = 2
  <2>1. Op(inspect, none, hashes) \in PlannedOperation /\ Op(mount, none, hashes \cup {inspect}) \in PlannedOperation
    <3> HIDE DEF inspect, hashes, mount
    <3> QED
      BY <1>3, <1>4, <1>5
  <2>2. Op(validate, none, {last}) \in PlannedOperation /\ Op(unmounted, none, {validate}) \in PlannedOperation
    <3> HIDE DEF last, validate, unmounted
    <3> QED
      BY <1>3, <1>4, <1>5
  <2> HIDE DEF inspect, hashes, mount, last, validate, unmounted
  <2> QED
    BY <2>1, <2>2
<1>9. /\ p \in Seq(PlannedOperation) /\ Len(p) = 2 * n + 4
      /\ \A k \in 1..n : p[k] = A[k] /\ p[n + 2 + k] = C[k]
      /\ p[n + 1] = B[1] /\ p[n + 2] = B[2] /\ p[2 * n + 3] = E[1] /\ p[2 * n + 4] = E[2]
  <2> DEFINE AB == A \o B
             ABC == AB \o C
  <2>1. p = ABC \o E
    BY <1>2
  <2> HIDE DEF A, B, C, E
  <2>2. /\ AB \in Seq(PlannedOperation) /\ Len(AB) = n + 2
        /\ \A k \in 1..n : AB[k] = A[k]
        /\ \A k \in 1..2 : AB[n + k] = B[k]
    <3>1. A \in Seq(PlannedOperation) /\ B \in Seq(PlannedOperation) /\ Len(A) = n /\ Len(B) = 2
      BY <1>6, <1>8
    <3> DEFINE u == A \o B
    <3>2. u \in Seq(PlannedOperation) /\ JoinOf(u, A, B)
      BY <3>1, Joins
    <3>3. AB = u
      OBVIOUS
    <3> HIDE DEF u, AB
    <3> QED
      BY <1>1, <3>1, <3>2, <3>3 DEF JoinOf
  <2> HIDE DEF AB
  <2>3. /\ ABC \in Seq(PlannedOperation) /\ Len(ABC) = n + 2 + n
        /\ \A k \in 1..(n + 2) : ABC[k] = AB[k]
        /\ \A k \in 1..n : ABC[n + 2 + k] = C[k]
    <3>1. AB \in Seq(PlannedOperation) /\ C \in Seq(PlannedOperation) /\ Len(AB) = (n + 2) /\ Len(C) = n
      BY <1>7, <2>2
    <3> DEFINE u == AB \o C
    <3>2. u \in Seq(PlannedOperation) /\ JoinOf(u, AB, C)
      BY <3>1, Joins
    <3>3. ABC = u
      OBVIOUS
    <3> HIDE DEF u, ABC
    <3> QED
      BY <1>1, <3>1, <3>2, <3>3 DEF JoinOf
  <2> HIDE DEF ABC
  <2>4. /\ p \in Seq(PlannedOperation) /\ Len(p) = n + 2 + n + 2
        /\ \A k \in 1..(n + 2 + n) : p[k] = ABC[k]
        /\ \A k \in 1..2 : p[n + 2 + n + k] = E[k]
    <3>1. ABC \in Seq(PlannedOperation) /\ E \in Seq(PlannedOperation) /\ Len(ABC) = (n + 2 + n) /\ Len(E) = 2
      BY <1>8, <2>3
    <3> DEFINE u == ABC \o E
    <3>2. u \in Seq(PlannedOperation) /\ JoinOf(u, ABC, E)
      BY <3>1, Joins
    <3>3. p = u
      BY <2>1
    <3> HIDE DEF u, p
    <3> QED
      BY <1>1, <3>1, <3>2, <3>3 DEF JoinOf
  <2> HIDE DEF p
  <2>5. ASSUME NEW k \in 1..n PROVE p[k] = A[k] /\ p[n + 2 + k] = C[k]
    <3>1. k \in 1..(n + 2) /\ k \in 1..(n + 2 + n) /\ n + 2 + k \in 1..(n + 2 + n)
      BY <1>1
    <3> QED
      BY <3>1, <2>2, <2>3, <2>4
  <2>6. ASSUME NEW k \in 1..2 PROVE p[n + k] = B[k] /\ p[n + 2 + n + k] = E[k]
    <3>1. n + k \in 1..(n + 2) /\ n + k \in 1..(n + 2 + n)
      BY <1>1
    <3> QED
      BY <3>1, <2>2, <2>3, <2>4
  <2>7. 1 \in 1..2 /\ 2 \in 1..2 /\ n + 2 + n + 1 = 2 * n + 3 /\ n + 2 + n + 2 = 2 * n + 4
    BY <1>1
  <2> QED
    BY <2>4, <2>5, <2>6, <2>7
<1> DEFINE Is(i, id, deps) == p[i].id = id /\ p[i].deps = deps
<1>10. /\ \A k \in 1..n : Is(k, hash(k), {}) /\ Is(n + 2 + k, change(k), {before(k)})
       /\ Is(n + 1, inspect, hashes) /\ Is(n + 2, mount, hashes \cup {inspect})
       /\ Is(2 * n + 3, validate, {last}) /\ Is(2 * n + 4, unmounted, {validate})
  <2>1. \A id, item, deps : Op(id, item, deps).id = id /\ Op(id, item, deps).deps = deps
    BY DEF Op
  <2>2. /\ \A k \in 1..n : A[k] = Op(hash(k), drivers[k], {}) /\ C[k] = Op(change(k), drivers[k], {before(k)})
        /\ B[1] = Op(inspect, none, hashes) /\ B[2] = Op(mount, none, hashes \cup {inspect})
        /\ E[1] = Op(validate, none, {last}) /\ E[2] = Op(unmounted, none, {validate})
    OBVIOUS
  <2> HIDE DEF A, B, C, E, Is, hash, change, before, inspect, hashes, mount, last, validate, unmounted
  <2>3. ASSUME NEW i, NEW id, NEW item, NEW deps, p[i] = Op(id, item, deps) PROVE Is(i, id, deps)
    BY <2>1, <2>3 DEF Is
  <2>4. ASSUME NEW k \in 1..n PROVE Is(k, hash(k), {}) /\ Is(n + 2 + k, change(k), {before(k)})
    <3>1. p[k] = Op(hash(k), drivers[k], {}) /\ p[n + 2 + k] = Op(change(k), drivers[k], {before(k)})
      BY <1>9, <2>2
    <3> QED
      BY <3>1, <2>3
  <2>5. Is(n + 1, inspect, hashes) /\ Is(n + 2, mount, hashes \cup {inspect})
    BY <1>9, <2>2, <2>3
  <2>6. Is(2 * n + 3, validate, {last}) /\ Is(2 * n + 4, unmounted, {validate})
    BY <1>9, <2>2, <2>3
  <2> QED
    BY <2>4, <2>5, <2>6
<1>11. DOMAIN p = 1..(2 * n + 4)
  BY <1>1, <1>9
<1>12. \A i \in 1..(2 * n + 4) :
         \/ i \in 1..n
         \/ i = n + 1 \/ i = n + 2
         \/ \E k \in 1..n : i = n + 2 + k
         \/ i = 2 * n + 3 \/ i = 2 * n + 4
  <2> SUFFICES ASSUME NEW i \in 1..(2 * n + 4), i > n + 2, i < 2 * n + 3
               PROVE  \E k \in 1..n : i = n + 2 + k
    BY <1>1
  <2>1. i - (n + 2) \in 1..n /\ i = n + 2 + (i - (n + 2))
    BY <1>1
  <2> QED
    BY <2>1
<1>13. ASSUME NEW i \in DOMAIN p PROVE p[i].id[2] = i
  <2>1. /\ \A k \in 1..n : hash(k)[2] = k /\ change(k)[2] = n + 2 + k
        /\ inspect[2] = n + 1 /\ mount[2] = n + 2 /\ validate[2] = 2 * n + 3 /\ unmounted[2] = 2 * n + 4
    OBVIOUS
  <2>2. /\ \A k \in 1..n : p[k].id = hash(k) /\ p[n + 2 + k].id = change(k)
        /\ p[n + 1].id = inspect /\ p[n + 2].id = mount
        /\ p[2 * n + 3].id = validate /\ p[2 * n + 4].id = unmounted
    BY <1>10
  <2> HIDE DEF hash, change, inspect, mount, validate, unmounted
  <2>3. /\ i \in 1..n => p[i].id[2] = i
        /\ i = n + 1 \/ i = n + 2 \/ i = 2 * n + 3 \/ i = 2 * n + 4 => p[i].id[2] = i
    BY <2>1, <2>2
  <2>4. ASSUME NEW k \in 1..n, i = n + 2 + k PROVE p[i].id[2] = i
    BY <2>1, <2>2, <2>4
  <2> QED
    BY <1>11, <1>12, <2>3, <2>4
<1> DEFINE Known(d, i) == d[2] < i /\ \E j \in DOMAIN p : p[j].id = d
<1>14. ASSUME NEW i \in DOMAIN p PROVE \A d \in p[i].deps : Known(d, i)
  <2>1. ASSUME NEW k \in 1..n PROVE k \in DOMAIN p /\ n + 2 + k \in DOMAIN p /\ hash(k)[2] = k /\ change(k)[2] = n + 2 + k
    BY <1>1, <1>11
  <2>2. /\ n + 1 \in DOMAIN p /\ n + 2 \in DOMAIN p /\ 2 * n + 3 \in DOMAIN p /\ 2 * n + 4 \in DOMAIN p
        /\ inspect[2] = n + 1 /\ mount[2] = n + 2 /\ validate[2] = 2 * n + 3
    BY <1>1, <1>11
  <2>3. \A k \in 1..n : k < n + 1 /\ k < n + 2
    BY <1>1
  <2>4. \A d \in hashes : Known(d, n + 1) /\ Known(d, n + 2)
    <3> SUFFICES ASSUME NEW k \in 1..n PROVE Known(hash(k), n + 1) /\ Known(hash(k), n + 2)
      OBVIOUS
    <3> HIDE DEF hash
    <3> QED
      BY <2>1, <2>3, <1>10
  <2>5. Known(inspect, n + 2) /\ Known(validate, 2 * n + 4)
    <3> HIDE DEF inspect, validate
    <3> QED
      BY <2>2, <1>10, <1>1
  <2>6. Known(last, 2 * n + 3)
    <3>1. CASE n = 0
      <4>1. last = mount
        BY <3>1
      <4> HIDE DEF mount, last
      <4> QED
        BY <3>1, <4>1, <2>2, <1>10
    <3>2. CASE n # 0
      <4>1. last = change(n) /\ n \in 1..n
        BY <3>2, <1>1
      <4> HIDE DEF change, last
      <4> QED
        BY <4>1, <2>1, <1>10, <1>1
    <3> QED
      BY <3>1, <3>2
  <2>7. ASSUME NEW k \in 1..n PROVE Known(before(k), n + 2 + k)
    <3>1. CASE k = 1
      <4>1. before(k) = mount /\ n + 2 < n + 2 + k
        BY <3>1, <1>1
      <4> HIDE DEF mount, before
      <4> QED
        BY <4>1, <2>2, <1>10
    <3>2. CASE k # 1
      <4>1. before(k) = change(k - 1) /\ k - 1 \in 1..n /\ n + 2 + (k - 1) < n + 2 + k
        BY <3>2, <1>1
      <4> HIDE DEF change, before
      <4>2. /\ n + 2 + (k - 1) \in DOMAIN p /\ change(k - 1)[2] = n + 2 + (k - 1)
            /\ p[n + 2 + (k - 1)].id = change(k - 1)
        BY <4>1, <2>1, <1>10
      <4> QED
        BY <4>1, <4>2
    <3> QED
      BY <3>1, <3>2
  <2> HIDE DEF Known, hash, change, before, inspect, hashes, mount, last, validate, unmounted
  <2>8. CASE i \in 1..n
    BY <2>8, <1>10
  <2>9. CASE i = n + 1 \/ i = n + 2
    BY <2>9, <2>4, <2>5, <1>10
  <2>10. ASSUME NEW k \in 1..n, i = n + 2 + k PROVE \A d \in p[i].deps : Known(d, i)
    BY <2>10, <2>7, <1>10
  <2>11. CASE i = 2 * n + 3 \/ i = 2 * n + 4
    BY <2>11, <2>5, <2>6, <1>10
  <2> QED
    BY <1>11, <1>12, <2>8, <2>9, <2>10, <2>11
<1>15. /\ \A i, j \in DOMAIN p : p[i].id = p[j].id => i = j
       /\ \A i \in DOMAIN p : \A d \in p[i].deps : d[2] < p[i].id[2] /\ \E j \in DOMAIN p : p[j].id = d
  BY <1>13, <1>14
<1> QED
  BY <1>9, <1>15 DEF Sound, p

LEMMA SkipsSound ==
  ASSUME NEW p, Sound(p), NEW skipped
  PROVE  Sound(withSkips(p, skipped))
<1> DEFINE q == withSkips(p, skipped)
<1>1. /\ p \in Seq(PlannedOperation)
      /\ \A i, j \in DOMAIN p : p[i].id = p[j].id => i = j
      /\ \A i \in DOMAIN p : \A d \in p[i].deps : d[2] < p[i].id[2] /\ \E j \in DOMAIN p : p[j].id = d
  BY DEF Sound
<1>2. DOMAIN q = DOMAIN p /\ \A i \in DOMAIN p : q[i] = [p[i] EXCEPT !.skipped = (p[i].id \in skipped)]
  BY DEF withSkips
<1>3. \A i \in DOMAIN p : q[i] \in PlannedOperation /\ q[i].id = p[i].id /\ q[i].deps = p[i].deps
  <2> SUFFICES ASSUME NEW i \in DOMAIN p, NEW b \in BOOLEAN, q[i] = [p[i] EXCEPT !.skipped = b]
               PROVE  q[i] \in PlannedOperation /\ q[i].id = p[i].id /\ q[i].deps = p[i].deps
    <3> SUFFICES ASSUME NEW i \in DOMAIN p
                 PROVE  \E b \in BOOLEAN : q[i] = [p[i] EXCEPT !.skipped = b]
      OBVIOUS
    <3>1. CASE p[i].id \in skipped
      <4>1. (p[i].id \in skipped) = TRUE
        BY <3>1
      <4>2. q[i] = [p[i] EXCEPT !.skipped = TRUE]
        BY <1>2, <4>1
      <4> QED
        BY <4>2
    <3>2. CASE p[i].id \notin skipped
      <4>1. (p[i].id \in skipped) = FALSE
        BY <3>2
      <4>2. q[i] = [p[i] EXCEPT !.skipped = FALSE]
        BY <1>2, <4>1
      <4> QED
        BY <4>2
    <3> QED
      BY <3>1, <3>2
  <2>1. p[i] \in PlannedOperation
    BY <1>1
  <2> HIDE DEF q
  <2> QED
    BY <2>1 DEF PlannedOperation
<1>4. q \in Seq(PlannedOperation)
  <2>1. q = [i \in 1..Len(p) |-> q[i]] /\ Len(p) \in Nat /\ DOMAIN p = 1..Len(p)
    BY <1>1 DEF withSkips
  <2> HIDE DEF q
  <2> QED
    BY <2>1, <1>3
<1> HIDE DEF q
<1>5. Sound(q)
  BY <1>1, <1>2, <1>3, <1>4 DEF Sound
<1> QED
  BY <1>5 DEF q

LEMMA IdNamesOne ==
  ASSUME NEW p, Sound(p), NEW n \in DOMAIN p
  PROVE  WithId(p, p[n].id) = p[n]
<1>1. p[n] \in ToSet(p)
  BY DEF ToSet
<1>2. \A x \in ToSet(p) : x.id = p[n].id => x = p[n]
  BY DEF ToSet, Sound
<1> QED
  BY <1>1, <1>2 DEF WithId

\* planOrder names operations in any order, some of them no longer planned.
Orders == {o \in Seq(Id) : \A i, j \in DOMAIN o : o[i] = o[j] => i = j}

LEMMA ReorderedSound ==
  ASSUME NEW p, Sound(p), NEW order \in Orders
  PROVE  Sound(reordered(p, order))
<1> DEFINE known == {k \in DOMAIN order : \E n \in DOMAIN p : p[n].id = order[k]}
           rest  == {n \in DOMAIN p : p[n].id \notin ToSet(order)}
           first == kept(order, known)
           A == [k \in DOMAIN first |-> WithId(p, first[k])]
           B == kept(p, rest)
           r == reordered(p, order)
           K == Cardinality(known)
           R == Cardinality(rest)
<1>1. r = A \o B
  BY DEF reordered
<1>2. /\ p \in Seq(PlannedOperation) /\ DOMAIN p = 1..Len(p) /\ Len(p) \in Nat
      /\ \A i, j \in DOMAIN p : p[i].id = p[j].id => i = j
  BY DEF Sound
<1>3. /\ DOMAIN order = 1..Len(order) /\ Len(order) \in Nat
      /\ \A i, j \in DOMAIN order : order[i] = order[j] => i = j
      /\ ToSet(order) = {order[k] : k \in DOMAIN order}
  BY DEF Orders, ToSet
<1>4. known \in SUBSET (1..Len(order)) /\ rest \in SUBSET (1..Len(p))
  BY <1>2, <1>3
<1>5. K \in Nat /\ R \in Nat /\ (\E f : Picks(f, order, known)) /\ (\E g : Picks(g, p, rest))
  <2>1. Len(order) \in Nat /\ Len(p) \in Nat
    BY <1>2, <1>3
  <2> HIDE DEF known, rest
  <2> QED
    BY <2>1, <1>4, KeptPlaces
<1>6. PICK f : Picks(f, order, known)
  <2> HIDE DEF known
  <2> QED
    BY <1>5
<1>7. PICK g : Picks(g, p, rest)
  <2> HIDE DEF rest
  <2> QED
    BY <1>5
<1>8. /\ first = [k \in 1..K |-> order[f[k]]]
      /\ \A k \in 1..K : f[k] \in known
      /\ \A n \in known : \E k \in 1..K : f[k] = n
      /\ \A k, l \in 1..K : f[k] = f[l] => k = l
  <2>1. Climbs(f, known) /\ kept(order, known) = [k \in 1..K |-> order[f[k]]]
    <3> HIDE DEF known
    <3> QED
      BY <1>6 DEF Picks
  <2>2. \A k \in 1..K : f[k] \in known
    <3> HIDE DEF known
    <3> QED
      BY <2>1 DEF Climbs
  <2>3. \A k \in 1..K : f[k] \in Int
    BY <2>2, <1>3
  <2> HIDE DEF known
  <2>4. \A k, l \in 1..K : f[k] = f[l] => k = l
    <3> SUFFICES ASSUME NEW k \in 1..K, NEW l \in 1..K, f[k] = f[l] PROVE k = l
      OBVIOUS
    <3>1. ~(f[k] < f[l]) /\ ~(f[l] < f[k])
      BY <2>3
    <3>2. ~(k < l) /\ ~(l < k)
      BY <3>1, <2>1 DEF Climbs
    <3>3. k \in Int /\ l \in Int
      BY <1>5
    <3> QED
      BY <3>2, <3>3
  <2> QED
    BY <2>1, <2>2, <2>4 DEF Climbs
<1>9. /\ B = [k \in 1..R |-> p[g[k]]]
      /\ \A k \in 1..R : g[k] \in rest
      /\ \A n \in rest : \E k \in 1..R : g[k] = n
      /\ \A k, l \in 1..R : g[k] = g[l] => k = l
  <2>1. Climbs(g, rest) /\ kept(p, rest) = [k \in 1..R |-> p[g[k]]]
    <3> HIDE DEF rest
    <3> QED
      BY <1>7 DEF Picks
  <2>2. \A k \in 1..R : g[k] \in rest
    <3> HIDE DEF rest
    <3> QED
      BY <2>1 DEF Climbs
  <2>3. \A k \in 1..R : g[k] \in Int
    BY <2>2, <1>2
  <2> HIDE DEF rest
  <2>4. \A k, l \in 1..R : g[k] = g[l] => k = l
    <3> SUFFICES ASSUME NEW k \in 1..R, NEW l \in 1..R, g[k] = g[l] PROVE k = l
      OBVIOUS
    <3>1. ~(g[k] < g[l]) /\ ~(g[l] < g[k])
      BY <2>3
    <3>2. ~(k < l) /\ ~(l < k)
      BY <3>1, <2>1 DEF Climbs
    <3>3. k \in Int /\ l \in Int
      BY <1>5
    <3> QED
      BY <3>2, <3>3
  <2> QED
    BY <2>1, <2>2, <2>4 DEF Climbs
<1>10. /\ DOMAIN A = 1..K
       /\ \A k \in 1..K : \E n \in DOMAIN p : A[k] = p[n] /\ p[n].id = order[f[k]]
  <2>1. DOMAIN first = 1..K /\ \A k \in 1..K : first[k] = order[f[k]]
    <3> HIDE DEF first, K
    <3> QED
      BY <1>8
  <2> HIDE DEF first
  <2>2. DOMAIN A = 1..K /\ \A k \in 1..K : A[k] = WithId(p, order[f[k]])
    <3> HIDE DEF K
    <3> QED
      BY <2>1
  <2>3. ASSUME NEW k \in 1..K PROVE \E n \in DOMAIN p : A[k] = p[n] /\ p[n].id = order[f[k]]
    <3>1. PICK n \in DOMAIN p : p[n].id = order[f[k]]
      BY <1>8
    <3>2. A[k] = WithId(p, p[n].id)
      BY <2>2, <3>1
    <3> HIDE DEF A
    <3> QED
      BY <3>1, <3>2, IdNamesOne
  <2> QED
    BY <2>2, <2>3
<1>11. DOMAIN B = 1..R /\ \A k \in 1..R : g[k] \in DOMAIN p /\ B[k] = p[g[k]] /\ p[g[k]].id \notin ToSet(order)
  <2>1. \A k \in 1..R : g[k] \in DOMAIN p /\ p[g[k]].id \notin ToSet(order)
    <3> HIDE DEF R
    <3> QED
      BY <1>9
  <2> HIDE DEF B, R, rest
  <2> QED
    BY <2>1, <1>9
<1>12. A \in Seq(PlannedOperation) /\ B \in Seq(PlannedOperation) /\ Len(A) = K /\ Len(B) = R
  <2>1. \A n \in DOMAIN p : p[n] \in PlannedOperation
    BY <1>2
  <2>2. \A k \in 1..K : A[k] \in PlannedOperation
    <3> HIDE DEF A, K
    <3> QED
      BY <2>1, <1>10
  <2>3. \A k \in 1..R : B[k] \in PlannedOperation
    <3> HIDE DEF B, R
    <3> QED
      BY <2>1, <1>11
  <2>4. A = [k \in 1..K |-> A[k]] /\ B = [k \in 1..R |-> B[k]]
    <3>1. A = [k \in DOMAIN A |-> A[k]]
      OBVIOUS
    <3>2. B = [k \in DOMAIN B |-> B[k]]
      <4> HIDE DEF A
      <4>1. B = [k \in 1..R |-> p[g[k]]]
        BY <1>9
      <4> HIDE DEF B
      <4> QED
        BY <4>1
    <3> HIDE DEF A, B, K, R
    <3> QED
      BY <3>1, <3>2, <1>10, <1>11
  <2> HIDE DEF A, B, K, R
  <2> QED
    BY <1>5, <2>2, <2>3, <2>4
<1> HIDE DEF A, B, K, R, known, rest, first
<1>13. /\ r \in Seq(PlannedOperation) /\ DOMAIN r = 1..(K + R)
       /\ \A k \in 1..K : r[k] = A[k]
       /\ \A k \in 1..R : r[K + k] = B[k]
  <2>1. A \o B \in Seq(PlannedOperation) /\ JoinOf(A \o B, A, B)
    BY <1>12, Joins
  <2>2. A \o B \in Seq(PlannedOperation) /\ Len(A \o B) = K + R
    BY <2>1, <1>12 DEF JoinOf
  <2>3. \A k \in 1..K : (A \o B)[k] = A[k]
    BY <2>1, <1>12 DEF JoinOf
  <2>4. \A k \in 1..R : (A \o B)[K + k] = B[k]
    BY <2>1, <1>12 DEF JoinOf
  <2> HIDE DEF r
  <2>5. DOMAIN r = 1..(K + R)
    BY <1>1, <2>2
  <2> QED
    BY <1>1, <2>2, <2>3, <2>4, <2>5
<1> HIDE DEF r
<1>14. \A i \in 1..(K + R) : i \in 1..K \/ \E k \in 1..R : i = K + k
  <2> SUFFICES ASSUME NEW i \in 1..(K + R), i > K PROVE \E k \in 1..R : i = K + k
    BY <1>5
  <2>1. i - K \in 1..R /\ i = K + (i - K)
    BY <1>5
  <2> QED
    BY <2>1
<1>15. ASSUME NEW i \in DOMAIN r PROVE \E j \in DOMAIN p : r[i] = p[j]
  BY <1>10, <1>11, <1>13, <1>14
<1>16. ASSUME NEW j \in DOMAIN p PROVE \E i \in DOMAIN r : r[i] = p[j]
  <2>1. CASE p[j].id \in ToSet(order)
    <3>1. PICK k \in DOMAIN order : order[k] = p[j].id
      BY <2>1, <1>3
    <3>2. k \in known
      BY <3>1 DEF known
    <3>3. PICK m \in 1..K : f[m] = k
      BY <3>2, <1>8
    <3>4. A[m] = p[j]
      BY <3>1, <3>3, <1>10, <1>2
    <3>5. m \in DOMAIN r
      BY <1>5, <1>13
    <3> QED
      BY <3>4, <3>5, <1>13
  <2>2. CASE p[j].id \notin ToSet(order)
    <3>1. j \in rest
      BY <2>2 DEF rest
    <3>2. PICK m \in 1..R : g[m] = j
      BY <3>1, <1>9
    <3>3. K + m \in DOMAIN r
      BY <1>5, <1>13
    <3> QED
      BY <3>2, <3>3, <1>11, <1>13
  <2> QED
    BY <2>1, <2>2
<1>17. ASSUME NEW i \in DOMAIN r, NEW j \in DOMAIN r, r[i].id = r[j].id PROVE i = j
  <2>1. ASSUME NEW k \in 1..K, NEW l \in 1..K, A[k].id = A[l].id PROVE k = l
    <3>1. order[f[k]] = order[f[l]]
      BY <2>1, <1>10
    <3>2. f[k] \in DOMAIN order /\ f[l] \in DOMAIN order
      BY <1>8 DEF known
    <3> QED
      BY <3>1, <3>2, <1>3, <1>8
  <2>2. ASSUME NEW k \in 1..R, NEW l \in 1..R, B[k].id = B[l].id PROVE k = l
    <3>1. g[k] = g[l]
      BY <2>2, <1>11, <1>2
    <3> QED
      BY <3>1, <1>9
  <2>3. ASSUME NEW k \in 1..K, NEW l \in 1..R PROVE A[k].id # B[l].id
    <3>1. A[k].id = order[f[k]]
      BY <1>10
    <3>2. f[k] \in DOMAIN order
      BY <1>8 DEF known
    <3>3. A[k].id \in ToSet(order)
      BY <3>1, <3>2, <1>3
    <3> QED
      BY <3>3, <1>11
  <2>4. CASE i \in 1..K /\ j \in 1..K
    BY <1>17, <2>4, <2>1, <1>13
  <2>5. ASSUME i \in 1..K, NEW l \in 1..R, j = K + l PROVE FALSE
    BY <1>17, <2>5, <2>3, <1>13
  <2>6. ASSUME j \in 1..K, NEW l \in 1..R, i = K + l PROVE FALSE
    BY <1>17, <2>6, <2>3, <1>13
  <2>7. ASSUME NEW k \in 1..R, NEW l \in 1..R, i = K + k, j = K + l PROVE i = j
    BY <1>17, <2>7, <2>2, <1>13
  <2> QED
    BY <1>13, <1>14, <2>4, <2>5, <2>6, <2>7
<1>18. Sound(r)
  BY <1>13, <1>15, <1>16, <1>17, SoundSame
<1> QED
  BY <1>18 DEF r

LEMMA SubSeqOf ==
  ASSUME NEW S, NEW s \in Seq(S), NEW a \in 1..(Len(s) + 1), NEW b \in (a - 1)..Len(s)
  PROVE  /\ SubSeq(s, a, b) \in Seq(S) /\ Len(SubSeq(s, a, b)) = b - (a - 1)
         /\ \A m \in 1..(b - (a - 1)) : SubSeq(s, a, b)[m] = s[(a - 1) + m]
<1>1. SubSeq(s, a, b) = [m \in 1..(b - (a - 1)) |-> s[(a - 1) + m]]
  OBVIOUS
<1>2. b - (a - 1) \in Nat /\ \A m \in 1..(b - (a - 1)) : (a - 1) + m \in 1..Len(s)
  OBVIOUS
<1>3. \A m \in 1..(b - (a - 1)) : s[(a - 1) + m] \in S
  BY <1>2
<1> QED
  BY <1>1, <1>2, <1>3

\* moveOperation takes one entry out and puts it in elsewhere.
LEMMA MovedSound ==
  ASSUME NEW p, Sound(p), NEW k \in DOMAIN p, NEW l \in DOMAIN p
  PROVE  Sound(InsertAt(RemoveAt(p, k), l, p[k]))
<1> DEFINE L == Len(p)
           c == RemoveAt(p, k)
           r == InsertAt(c, l, p[k])
           place(i) == IF i = l THEN k
                       ELSE LET m == IF i < l THEN i ELSE i - 1 IN IF m < k THEN m ELSE m + 1
<1>1. /\ p \in Seq(PlannedOperation) /\ DOMAIN p = 1..L /\ L \in Nat /\ k \in 1..L /\ l \in 1..L
      /\ \A i, j \in DOMAIN p : p[i].id = p[j].id => i = j
  BY DEF Sound
<1>2. /\ c \in Seq(PlannedOperation) /\ Len(c) = L - 1
      /\ \A m \in 1..(L - 1) : c[m] = IF m < k THEN p[m] ELSE p[m + 1]
  <2> DEFINE s == SubSeq(p, 1, k - 1)
             t == SubSeq(p, k + 1, L)
  <2>1. /\ s \in Seq(PlannedOperation) /\ Len(s) = k - 1 /\ \A m \in 1..(k - 1) : s[m] = p[m]
        /\ t \in Seq(PlannedOperation) /\ Len(t) = L - k /\ \A m \in 1..(L - k) : t[m] = p[k + m]
    <3>1. k \in 1..(L + 1) /\ k - 1 \in (1 - 1)..L /\ k + 1 \in 1..(L + 1) /\ L \in ((k + 1) - 1)..L /\ 1 \in 1..(L + 1)
      BY <1>1
    <3>2. /\ s \in Seq(PlannedOperation) /\ Len(s) = (k - 1) - (1 - 1)
          /\ \A m \in 1..((k - 1) - (1 - 1)) : s[m] = p[(1 - 1) + m]
      BY <1>1, <3>1, SubSeqOf
    <3>3. /\ t \in Seq(PlannedOperation) /\ Len(t) = L - ((k + 1) - 1)
          /\ \A m \in 1..(L - ((k + 1) - 1)) : t[m] = p[((k + 1) - 1) + m]
      <4> DEFINE a == k + 1
      <4>1. a \in 1..(L + 1) /\ L \in (a - 1)..L /\ t = SubSeq(p, a, L)
        BY <3>1
      <4> HIDE DEF a, t
      <4>2. /\ t \in Seq(PlannedOperation) /\ Len(t) = L - (a - 1)
            /\ \A m \in 1..(L - (a - 1)) : t[m] = p[(a - 1) + m]
        BY <1>1, <4>1, SubSeqOf
      <4> QED
        BY <4>2 DEF a
    <3>4. /\ (k - 1) - (1 - 1) = k - 1 /\ L - ((k + 1) - 1) = L - k /\ (k + 1) - 1 = k
          /\ \A m \in 1..(k - 1) : (1 - 1) + m = m
      BY <1>1
    <3> HIDE DEF s, t
    <3> QED
      BY <3>2, <3>3, <3>4
  <2>2. c = s \o t
    BY DEF RemoveAt
  <2> HIDE DEF s, t, c, L
  <2>3. k - 1 \in Nat /\ L - k \in Nat /\ (k - 1) + (L - k) = L - 1
    BY <1>1
  <2>4. s \o t \in Seq(PlannedOperation) /\ JoinOf(s \o t, s, t)
    BY <2>1, Joins
  <2>5. c \in Seq(PlannedOperation) /\ Len(c) = L - 1
    BY <2>1, <2>2, <2>3, <2>4 DEF JoinOf
  <2>6. ASSUME NEW m \in 1..(L - 1) PROVE c[m] = IF m < k THEN p[m] ELSE p[m + 1]
    <3>1. CASE m < k
      <4>1. m \in 1..(k - 1)
        BY <3>1, <1>1
      <4>2. c[m] = s[m]
        BY <4>1, <2>1, <2>2, <2>4 DEF JoinOf
      <4> QED
        BY <3>1, <4>1, <4>2, <2>1
    <3>2. CASE ~(m < k)
      <4>1. m - (k - 1) \in 1..(L - k) /\ k + (m - (k - 1)) = m + 1 /\ (k - 1) + (m - (k - 1)) = m
        BY <3>2, <1>1
      <4>2. c[m] = t[m - (k - 1)]
        <5>1. (s \o t)[Len(s) + (m - (k - 1))] = t[m - (k - 1)]
          BY <4>1, <2>1, <2>4 DEF JoinOf
        <5> QED
          BY <5>1, <4>1, <2>1, <2>2
      <4>3. t[m - (k - 1)] = p[k + (m - (k - 1))]
        BY <4>1, <2>1
      <4> QED
        BY <3>2, <4>1, <4>2, <4>3
    <3> QED
      BY <3>1, <3>2
  <2> QED
    BY <2>5, <2>6
<1> HIDE DEF c, L
<1>3. /\ r \in Seq(PlannedOperation) /\ Len(r) = L
      /\ \A i \in 1..L : r[i] = IF i = l THEN p[k] ELSE c[IF i < l THEN i ELSE i - 1]
  <2> DEFINE s == SubSeq(c, 1, l - 1)
             t == SubSeq(c, l, Len(c))
             e == <<p[k]>>
             se == s \o e
  <2>1. /\ s \in Seq(PlannedOperation) /\ Len(s) = l - 1 /\ \A m \in 1..(l - 1) : s[m] = c[m]
        /\ t \in Seq(PlannedOperation) /\ Len(t) = L - l /\ \A m \in 1..(L - l) : t[m] = c[(l - 1) + m]
    BY <1>1, <1>2, SubSeqOf
  <2>2. r = se \o t
    BY DEF InsertAt
  <2> HIDE DEF s, t, r
  <2>3. se \in Seq(PlannedOperation) /\ Len(se) = l /\ se[l] = p[k] /\ \A m \in 1..(l - 1) : se[m] = s[m]
    BY <1>1, <2>1
  <2> HIDE DEF se
  <2>4. l \in Nat /\ L - l \in Nat /\ l + (L - l) = L
    BY <1>1
  <2>5. se \o t \in Seq(PlannedOperation) /\ JoinOf(se \o t, se, t)
    BY <2>1, <2>3, Joins
  <2>6. r \in Seq(PlannedOperation) /\ Len(r) = L
    BY <2>1, <2>2, <2>3, <2>4, <2>5 DEF JoinOf
  <2>7. ASSUME NEW i \in 1..L PROVE r[i] = IF i = l THEN p[k] ELSE c[IF i < l THEN i ELSE i - 1]
    <3>1. CASE i \in 1..l
      <4>1. r[i] = se[i]
        BY <3>1, <2>2, <2>3, <2>5 DEF JoinOf
      <4>2. i = l \/ (i < l /\ i \in 1..(l - 1))
        BY <3>1, <1>1
      <4> QED
        BY <4>1, <4>2, <2>1, <2>3
    <3>2. CASE i > l
      <4>1. i - l \in 1..(L - l) /\ l + (i - l) = i /\ (l - 1) + (i - l) = i - 1 /\ i # l /\ ~(i < l)
        BY <3>2, <1>1
      <4>2. r[i] = t[i - l]
        <5>1. (se \o t)[Len(se) + (i - l)] = t[i - l]
          BY <4>1, <2>1, <2>5 DEF JoinOf
        <5> QED
          BY <5>1, <4>1, <2>2, <2>3
      <4>3. t[i - l] = c[(l - 1) + (i - l)]
        BY <4>1, <2>1
      <4> QED
        BY <4>1, <4>2, <4>3
    <3> QED
      BY <3>1, <3>2, <1>1
  <2> QED
    BY <2>6, <2>7
<1> HIDE DEF r
<1>4. DOMAIN r = 1..L /\ \A i \in 1..L : place(i) \in 1..L /\ r[i] = p[place(i)]
  BY <1>1, <1>2, <1>3
<1>5. \A i, j \in 1..L : place(i) = place(j) => i = j
  BY <1>1
<1>6. ASSUME NEW j \in 1..L PROVE \E i \in 1..L : place(i) = j
  <2> DEFINE m == IF j < k THEN j ELSE j - 1
             i == IF j = k THEN l ELSE IF m < l THEN m ELSE m + 1
  <2>1. i \in 1..L /\ place(i) = j
    BY <1>1
  <2> QED
    BY <2>1
<1> HIDE DEF place
<1>7. Sound(r)
  <2>1. \A i \in DOMAIN r : \E j \in DOMAIN p : r[i] = p[j]
    BY <1>1, <1>4
  <2>2. \A j \in DOMAIN p : \E i \in DOMAIN r : r[i] = p[j]
    BY <1>1, <1>4, <1>6
  <2>3. \A i, j \in DOMAIN r : r[i].id = r[j].id => i = j
    <3> SUFFICES ASSUME NEW i \in 1..L, NEW j \in 1..L, r[i].id = r[j].id PROVE i = j
      BY <1>4
    <3>1. place(i) \in 1..L /\ place(j) \in 1..L /\ p[place(i)].id = p[place(j)].id
      BY <1>4
    <3>2. place(i) = place(j)
      BY <1>1, <3>1
    <3> QED
      BY <3>2, <1>5
  <2> QED
    BY <1>3, <2>1, <2>2, <2>3, SoundSame
<1> QED
  BY <1>7 DEF r, c

-----------------------------------------------------------------------------
\* What project.json may hold of drivers, skipped ids and their order.
Configuration == [drivers : Seq(Items), skipped : SUBSET Id, order : Orders]

\* The plan the window shows and the one the engine runs are lists of the builder,
\* rearranged; what is edited, saved, loaded or being built is such a configuration.
PlansSound ==
  /\ config \in Configuration /\ disk \in [Dirs -> Configuration] /\ saves \in Seq(Configuration)
  /\ build \in [dir : Dirs \cup {none}, config : Configuration]
  /\ Sound(plan) /\ Sound(engine.operations)

LEMMA NothingPlanned == Sound(<<>>)
BY DEF Sound

LEMMA BuiltSound ==
  ASSUME NEW c \in Configuration
  PROVE  Sound(built(c))
<1>1. c.drivers \in Seq(Items) /\ c.order \in Orders
  BY DEF Configuration
<1> QED
  BY <1>1, OperationsSound, ReorderedSound, SkipsSound DEF built

LEMMA EmptyConfiguration ==
  ASSUME NEW drivers \in Seq(Items)
  PROVE  [Empty EXCEPT !.drivers = drivers] \in Configuration
<1>1. <<>> \in Orders
  BY DEF Orders
<1> QED
  BY <1>1 DEF Empty, Configuration

LEMMA InitPlansSound == Init => PlansSound
<1> SUFFICES ASSUME Init PROVE PlansSound
  OBVIOUS
<1>1. \A q \in Lists : q \in Seq(Items)
  BY DEF Lists, SeqOf
<1>2. disk \in [Dirs -> Configuration]
  BY <1>1, EmptyConfiguration DEF Init
<1>3. dir \in Dirs /\ config = disk[dir] /\ saves = <<>> /\ build = [dir |-> dir, config |-> config]
      /\ plan = <<>> /\ engine.operations = <<>>
  BY DEF Init, Snapshot
<1>4. config \in Configuration
  BY <1>2, <1>3
<1>5. saves \in Seq(Configuration)
  BY <1>3
<1>6. build \in [dir : Dirs \cup {none}, config : Configuration]
  BY <1>3, <1>4
<1> QED
  BY <1>2, <1>3, <1>4, <1>5, <1>6, NothingPlanned DEF PlansSound

\* An edit of the project, whatever it does to the plan shown.
LEMMA MutationKeepsPlans ==
  ASSUME Typed, PlansSound, NEW c \in Configuration, mutateProject(c), Sound(plan')
  PROVE  PlansSound'
<1>1. /\ config' = c /\ saves' = Append(saves, c) /\ UNCHANGED <<disk, engine>>
      /\ build' = build \/ build' = [dir |-> dir, config |-> c]
  BY DEF mutateProject, runVars
<1>2. build' \in [dir : Dirs \cup {none}, config : Configuration]
  BY <1>1 DEF Typed, PlansSound
<1>3. saves' \in Seq(Configuration)
  BY <1>1 DEF PlansSound
<1> QED
  BY <1>1, <1>2, <1>3 DEF PlansSound

LEMMA EditKeepsPlans ==
  ASSUME Typed, PlansSound, edit
  PROVE  PlansSound'
<1>1. config \in Configuration /\ Sound(plan) /\ Sound(<<>>)
  BY NothingPlanned DEF PlansSound
<1>2. ASSUME NEW i \in Items, addDriver(i) PROVE PlansSound'
  <2> DEFINE c == [config EXCEPT !.drivers = Append(@, i)]
  <2>1. c \in Configuration
    <3>1. config.drivers \in Seq(Items)
      BY <1>1 DEF Configuration
    <3>2. Append(config.drivers, i) \in Seq(Items)
      BY <3>1
    <3> QED
      BY <1>1, <3>2 DEF Configuration
  <2>2. mutateProject(c) /\ (plan' = <<>> \/ plan' = plan)
    BY <1>2 DEF addDriver
  <2> HIDE DEF c
  <2> QED
    BY <1>1, <2>1, <2>2, MutationKeepsPlans
<1>3. ASSUME NEW i \in Items, removeDriver(i) PROVE PlansSound'
  <2> DEFINE d == config.drivers
             places == {k \in DOMAIN d : d[k] # i}
             c == [config EXCEPT !.drivers = kept(d, places)]
  <2>1. d \in Seq(Items)
    BY <1>1 DEF Configuration
  <2>2. places \in SUBSET (1..Len(d)) /\ Len(d) \in Nat /\ DOMAIN d = 1..Len(d)
    BY <2>1
  <2>3. Cardinality(places) \in Nat /\ \E f : Picks(f, d, places)
    <3> HIDE DEF places, d
    <3> QED
      BY <2>2, KeptPlaces
  <2>4. PICK f : Picks(f, d, places)
    <3> HIDE DEF places, d
    <3> QED
      BY <2>3
  <2> DEFINE N == Cardinality(places)
  <2>5. kept(d, places) = [k \in 1..N |-> d[f[k]]] /\ \A k \in 1..N : f[k] \in places
    <3> HIDE DEF places, d
    <3> QED
      BY <2>4 DEF Picks, Climbs
  <2>6. \A k \in 1..N : d[f[k]] \in Items
    <3>1. \A k \in 1..N : f[k] \in DOMAIN d
      <4> HIDE DEF N
      <4> QED
        BY <2>5
    <3> HIDE DEF N, d
    <3> QED
      BY <3>1, <2>1
  <2>7. kept(d, places) \in Seq(Items)
    <3> HIDE DEF places, d
    <3> QED
      BY <2>3, <2>5, <2>6
  <2>8. c \in Configuration
    <3> HIDE DEF places
    <3> QED
      BY <1>1, <2>7 DEF Configuration
  <2>9. mutateProject(c) /\ (plan' = <<>> \/ plan' = plan)
    BY <1>3 DEF removeDriver
  <2> HIDE DEF c
  <2> QED
    BY <1>1, <2>8, <2>9, MutationKeepsPlans
<1>4. ASSUME NEW k \in DOMAIN plan, skipOperation(k) PROVE PlansSound'
  <2>1. plan[k].id \in Id
    <3>1. plan[k] \in PlannedOperation
      BY <1>1 DEF Sound
    <3> QED
      BY <3>1 DEF PlannedOperation
  <2> DEFINE c == [config EXCEPT !.skipped =
                     IF plan[k].skipped THEN @ \ {plan[k].id} ELSE @ \cup {plan[k].id}]
  <2>2. c \in Configuration
    BY <1>1, <2>1 DEF Configuration
  <2>3. mutateProject(c) /\ (plan' = <<>> \/ plan' = plan)
    BY <1>4 DEF skipOperation
  <2> HIDE DEF c
  <2> QED
    BY <1>1, <2>2, <2>3, MutationKeepsPlans
<1>5. ASSUME NEW k \in DOMAIN plan, NEW l \in neighbours(k), moveOperation(k, l) PROVE PlansSound'
  <2> DEFINE moved == InsertAt(RemoveAt(plan, k), l, plan[k])
             c == [config EXCEPT !.order = [n \in DOMAIN moved |-> moved[n].id]]
  <2>1. l \in DOMAIN plan
    BY DEF neighbours
  <2>2. Sound(moved)
    BY <1>1, <2>1, MovedSound
  <2>3. mutateProject(c) /\ (plan' = <<>> \/ plan' = moved)
    BY <1>5 DEF moveOperation
  <2> HIDE DEF moved
  <2>4. [n \in DOMAIN moved |-> moved[n].id] \in Orders
    <3>1. moved \in Seq(PlannedOperation) /\ \A i, j \in DOMAIN moved : moved[i].id = moved[j].id => i = j
      BY <2>2 DEF Sound
    <3>2. \A n \in DOMAIN moved : moved[n].id \in Id
      <4>1. \A n \in DOMAIN moved : moved[n] \in PlannedOperation
        BY <3>1
      <4> QED
        BY <4>1 DEF PlannedOperation
    <3>3. DOMAIN moved = 1..Len(moved) /\ Len(moved) \in Nat
      BY <3>1
    <3> DEFINE o == [n \in DOMAIN moved |-> moved[n].id]
    <3>4. o \in Seq(Id)
      BY <3>2, <3>3
    <3>5. \A i, j \in DOMAIN o : o[i] = o[j] => i = j
      BY <3>1
    <3> QED
      BY <3>4, <3>5 DEF Orders
  <2>5. c \in Configuration
    BY <1>1, <2>4 DEF Configuration
  <2> HIDE DEF c
  <2> QED
    BY <1>1, <2>2, <2>3, <2>5, MutationKeepsPlans
<1> QED
  BY <1>2, <1>3, <1>4, <1>5 DEF edit

LEMMA PlanStepKeepsPlans ==
  ASSUME Typed, PlansSound, requestRefresh \/ refreshTimer \/ deliverPlan
  PROVE  PlansSound'
<1>1. UNCHANGED <<config, disk, saves, engine>>
  BY DEF requestRefresh, refreshTimer, deliverPlan, projectVars, runVars
<1>2. Snapshot \in [dir : Dirs \cup {none}, config : Configuration]
  BY DEF Snapshot, Typed, PlansSound
<1>3. CASE requestRefresh \/ refreshTimer
  <2>1. (build' = build /\ plan' = plan) \/ (build' = Snapshot /\ plan' = <<>>)
    BY <1>3 DEF requestRefresh, refreshTimer, refreshPlan
  <2> QED
    BY <1>1, <1>2, <2>1, NothingPlanned DEF PlansSound
<1>4. CASE deliverPlan
  <2>1. build' = NoProject /\ (plan' = plan \/ plan' = built(build.config))
    BY <1>4 DEF deliverPlan
  <2>2. NoProject \in [dir : Dirs \cup {none}, config : Configuration]
    <3>1. Empty \in Configuration
      <4>1. <<>> \in Seq(Items) /\ <<>> \in Orders
        BY DEF Orders
      <4> QED
        BY <4>1 DEF Empty, Configuration
    <3> QED
      BY <3>1 DEF NoProject
  <2>3. build.config \in Configuration
    BY DEF PlansSound
  <2>4. Sound(plan')
    BY <2>1, <2>3, BuiltSound DEF PlansSound
  <2> QED
    BY <1>1, <2>1, <2>2, <2>4 DEF PlansSound
<1> QED
  BY <1>3, <1>4

LEMMA ProjectStepKeepsPlans ==
  ASSUME Typed, PlansSound, saved \/ (\E d \in Dirs : openProject(d)) \/ projectOpened \/ crash
  PROVE  PlansSound'
<1>1. CASE saved
  <2>1. /\ disk' = [disk EXCEPT ![dir] = Head(saves)] /\ saves' = Tail(saves) /\ saves # <<>>
        /\ UNCHANGED <<config, build, plan, engine>>
    BY <1>1 DEF saved, planVars, runVars
  <2>2. Head(saves) \in Configuration /\ Tail(saves) \in Seq(Configuration)
    BY <2>1 DEF PlansSound
  <2> QED
    BY <2>1, <2>2 DEF PlansSound
<1>2. CASE \E d \in Dirs : openProject(d)
  <2>1. UNCHANGED <<config, disk, saves, build, plan, engine>>
    BY <1>2 DEF openProject, planVars, runVars
  <2> QED
    BY <2>1 DEF PlansSound
<1>3. CASE projectOpened
  <2>1. /\ loading \in Dirs /\ config' = disk[loading] /\ UNCHANGED <<disk, saves, engine>>
        /\ \/ build' = build /\ plan' = plan
           \/ build' = [dir |-> loading, config |-> disk[loading]] /\ plan' = <<>>
    BY <1>3 DEF projectOpened, refreshPlan, runVars, Typed
  <2>2. config' \in Configuration
    BY <2>1 DEF PlansSound
  <2> QED
    BY <2>1, <2>2, NothingPlanned DEF PlansSound
<1>4. CASE crash
  <2>1. /\ dir \in Dirs /\ config' = disk[dir] /\ saves' = <<>> /\ plan' = <<>> /\ UNCHANGED disk
        /\ build' = [dir |-> dir, config |-> disk[dir]] /\ engine'.operations = engine.operations
    BY <1>4 DEF crash, Typed
  <2>2. config' \in Configuration /\ saves' \in Seq(Configuration)
    BY <2>1 DEF PlansSound
  <2> QED
    BY <2>1, <2>2, NothingPlanned DEF PlansSound
<1> QED
  BY <1>1, <1>2, <1>3, <1>4

LEMMA RunStepKeepsPlans ==
  ASSUME Typed, PlansSound,
         runPlan \/ engineSignals \/ runFinished \/ safeUnmountRecovery \/ unmountFinished
  PROVE  PlansSound'
<1>1. /\ UNCHANGED <<config, disk, saves, build>>
      /\ plan' = plan \/ plan' = engine.operations
      /\ engine'.operations = engine.operations \/ engine'.operations = plan
  BY DEF runPlan, engineSignals, runFinished, safeUnmountRecovery, unmountFinished, projectVars,
         planVars, runVars, Typed
<1> QED
  BY <1>1 DEF PlansSound

LEMMA StepPlansSound == Typed /\ PlansSound /\ [Next]_vars => PlansSound'
<1> SUFFICES ASSUME Typed, PlansSound, [Next]_vars PROVE PlansSound'
  OBVIOUS
<1>1. CASE edit
  BY <1>1, EditKeepsPlans
<1>2. CASE requestRefresh \/ refreshTimer \/ deliverPlan
  BY <1>2, PlanStepKeepsPlans
<1>3. CASE saved \/ (\E d \in Dirs : openProject(d)) \/ projectOpened \/ crash
  BY <1>3, ProjectStepKeepsPlans
<1>4. CASE runPlan \/ engineSignals \/ runFinished \/ safeUnmountRecovery \/ unmountFinished
  BY <1>4, RunStepKeepsPlans
<1>5. CASE UNCHANGED vars
  BY <1>5 DEF vars, projectVars, planVars, runVars, PlansSound
<1> QED
  BY <1>1, <1>2, <1>3, <1>4, <1>5 DEF Next

\* The script exported at any time runs everything that is not skipped, each operation
\* after the ones it depends on, whatever was moved, skipped, added or removed before
\* (moveOperation, refreshPlan, stableTopologicalOrder, exportPowerShell).
THEOREM ScriptsKeepOrder == Spec => []ScriptRespectsDependencies
<1>1. IInv => Typed
  BY DEF IInv
<1>2. PlansSound => ScriptRespectsDependencies
  BY ScriptInOrder DEF PlansSound
<1> QED
  BY <1>1, <1>2, IInvHolds, InitPlansSound, StepPlansSound, PTL DEF Spec

-----------------------------------------------------------------------------
(***************************************************************************)
(* ServicingPlan::build for any project, with lists of any length: writers *)
(* of one tree are ordered, what is published is final and no image is     *)
(* touched before every hash is verified.                                  *)
(*                                                                         *)
(* The steps of a program have ranks, the places of their kinds in the     *)
(* code; Shape says that a list of steps follows the ranks, which is shown *)
(* piece by piece for Program.  The invariant then says what the local     *)
(* variables of build stand for: lastMediaWrite is behind every writer of  *)
(* the media, lastImageWrite behind those of the mount and, from the mount *)
(* on, of the image and behind every hash (Chained, Mounted); before that  *)
(* imagePreparation is behind those of the image (Prepared).  Owed says    *)
(* what the last operation hands to the one that only follows it.          *)
(***************************************************************************)
\* What is asked of a project: its numbers are numbers and its lists are lists.
IsProject(p) ==
  /\ p.inputs \in Nat /\ p.changes \in Nat /\ p.removals \in Nat /\ p.tasks \in Nat
  /\ p.tweaks \in Nat /\ p.postSetup \in Nat
  /\ p.staged \in Seq({"image", "media"})
  /\ p.answers \in Seq({"apply", "removeImage", "removeMedia"})

\* The kinds of steps in the order of the code.  Those of rank 1 and 9 may occur more
\* than once, the latter in any order.
Edits == {"change", "hostEdit", "regload", "regedit", "regunload", "stageImage", "stageMedia",
          "apply", "removeImage", "removeMedia", "validate"}
Singles == {"media", "image", "convertClear", "convert", "convertPublish", "inspect", "mount",
            "unmount", "exportClear", "export", "exportPublish", "wimClear", "wimExport", "wimPublish",
            "splitClear", "split", "splitPublish", "esdClear", "esdExport", "esdPublish",
            "partsClear", "parts", "partsPublish", "isoClear", "iso", "isoPublish"}
Step == {"hash"} \cup Edits \cup Singles
rank(s) ==
  CASE s = "hash" -> 1 [] s = "media" -> 2 [] s = "image" -> 3
    [] s = "convertClear" -> 4 [] s = "convert" -> 5 [] s = "convertPublish" -> 6
    [] s = "inspect" -> 7 [] s = "mount" -> 8 [] s \in Edits -> 9 [] s = "unmount" -> 10
    [] s = "exportClear" -> 11 [] s = "export" -> 12 [] s = "exportPublish" -> 13
    [] s = "wimClear" -> 14 [] s = "wimExport" -> 15 [] s = "wimPublish" -> 16
    [] s = "splitClear" -> 17 [] s = "split" -> 18 [] s = "splitPublish" -> 19
    [] s = "esdClear" -> 20 [] s = "esdExport" -> 21 [] s = "esdPublish" -> 22
    [] s = "partsClear" -> 23 [] s = "parts" -> 24 [] s = "partsPublish" -> 25
    [] s = "isoClear" -> 26 [] s = "iso" -> 27 [] s = "isoPublish" -> 28

\* The ranks of the steps that come right after the one of the rank before.
Led(p) == {5, 6, 8, 12, 13, 15, 16, 18, 19, 21, 22, 24, 25, 27, 28} \cup IF p.workingIsWim THEN {} ELSE {17}

\* When a project has a step of rank r.
Fits(p, r) ==
  /\ r \in 2 .. 8 \cup {10} => ~p.online
  /\ r = 2 => SP!mediaSource(p)
  /\ r = 3 => ~SP!convertedInput(p)
  /\ r \in 4 .. 6 => SP!convertedInput(p)
  /\ r \in 11 .. 13 => p.format \in {"wim", "esd"}
  /\ r \in 17 .. 19 => p.format = "swm"

\* A piece of the program: its ranks lie between lo and hi and only grow.
Shape(s, p, lo, hi) ==
  /\ s \in Seq(Step)
  /\ \A i \in 1 .. Len(s) :
       /\ lo <= rank(s[i]) /\ rank(s[i]) <= hi /\ Fits(p, rank(s[i]))
       /\ rank(s[i]) \in Led(p) => \E j \in 1 .. Len(s) : j + 1 = i /\ rank(s[j]) + 1 = rank(s[i])
  /\ \A i, j \in 1 .. Len(s) :
       i < j => rank(s[i]) < rank(s[j]) \/ (rank(s[i]) = rank(s[j]) /\ rank(s[i]) \in {1, 9})

Has(s, x) == \E i \in 1 .. Len(s) : s[i] = x

\* The rank of every step.
LEMMA Ranks ==
  /\ rank("hash") = 1 /\ rank("media") = 2 /\ rank("image") = 3
  /\ rank("convertClear") = 4 /\ rank("convert") = 5 /\ rank("convertPublish") = 6
  /\ rank("inspect") = 7 /\ rank("mount") = 8 /\ rank("unmount") = 10
  /\ rank("exportClear") = 11 /\ rank("export") = 12 /\ rank("exportPublish") = 13
  /\ rank("wimClear") = 14 /\ rank("wimExport") = 15 /\ rank("wimPublish") = 16
  /\ rank("splitClear") = 17 /\ rank("split") = 18 /\ rank("splitPublish") = 19
  /\ rank("esdClear") = 20 /\ rank("esdExport") = 21 /\ rank("esdPublish") = 22
  /\ rank("partsClear") = 23 /\ rank("parts") = 24 /\ rank("partsPublish") = 25
  /\ rank("isoClear") = 26 /\ rank("iso") = 27 /\ rank("isoPublish") = 28
  /\ \A s \in Edits : rank(s) = 9
BY DEF rank, Edits

LEMMA RanksAreNumbers == \A s \in Step : rank(s) \in 1 .. 28 /\ rank(s) \in Nat
BY Ranks DEF Step, Singles

\* What the shape of a piece says of each step, and of two.
LEMMA ShapeOfEach ==
  ASSUME NEW s, NEW p, NEW lo, NEW hi, Shape(s, p, lo, hi), NEW i \in 1 .. Len(s)
  PROVE  /\ s[i] \in Step /\ rank(s[i]) \in 1 .. 28 /\ rank(s[i]) \in Nat
         /\ lo <= rank(s[i]) /\ rank(s[i]) <= hi /\ Fits(p, rank(s[i]))
         /\ rank(s[i]) \in Led(p) => \E j \in 1 .. Len(s) : j + 1 = i /\ rank(s[j]) + 1 = rank(s[i])
<1>1. s[i] \in Step
  BY DEF Shape
<1>2. rank(s[i]) \in 1 .. 28 /\ rank(s[i]) \in Nat
  BY <1>1, RanksAreNumbers, Zenon
<1> DEFINE Each(k) == /\ lo <= rank(s[k]) /\ rank(s[k]) <= hi /\ Fits(p, rank(s[k]))
                      /\ rank(s[k]) \in Led(p) => \E j \in 1 .. Len(s) : j + 1 = k /\ rank(s[j]) + 1 = rank(s[k])
<1>3. \A k \in 1 .. Len(s) : Each(k)
  BY Zenon DEF Shape
<1>4. Each(i)
  BY <1>3, Zenon
<1> QED
  BY <1>1, <1>2, <1>4, Zenon

LEMMA ShapeOfTwo ==
  ASSUME NEW s, NEW p, NEW lo, NEW hi, Shape(s, p, lo, hi), NEW i \in 1 .. Len(s), NEW j \in 1 .. Len(s), i < j
  PROVE  rank(s[i]) < rank(s[j]) \/ (rank(s[i]) = rank(s[j]) /\ rank(s[i]) \in {1, 9})
BY Zenon DEF Shape

\* A piece of higher ranks may follow one of lower ranks, and edits may follow edits.
LEMMA JoinedShape ==
  ASSUME NEW s, NEW t, NEW p, NEW a \in Nat, NEW b \in Nat, NEW c \in Nat, NEW d \in Nat,
         Shape(s, p, a, b), Shape(t, p, c, d), b < c \/ (b = 9 /\ c = 9), a <= c, b <= d
  PROVE  Shape(s \o t, p, a, d)
<1> DEFINE u == s \o t
<1>1. s \in Seq(Step) /\ t \in Seq(Step)
  BY DEF Shape
<1>2. /\ u \in Seq(Step) /\ Len(s) \in Nat /\ Len(t) \in Nat
      /\ \A i \in 1 .. Len(s) : i \in 1 .. Len(u) /\ u[i] = s[i]
      /\ \A i \in 1 .. Len(t) : Len(s) + i \in 1 .. Len(u) /\ u[Len(s) + i] = t[i]
      /\ \A i \in 1 .. Len(u) : i \in 1 .. Len(s) \/ \E k \in 1 .. Len(t) : i = Len(s) + k
  BY <1>1, Joined
<1> HIDE DEF u
<1>s. ASSUME NEW i \in 1 .. Len(s)
      PROVE  /\ rank(s[i]) \in Nat /\ a <= rank(s[i]) /\ rank(s[i]) <= b /\ Fits(p, rank(s[i]))
             /\ rank(s[i]) \in Led(p) => \E j \in 1 .. Len(s) : j + 1 = i /\ rank(s[j]) + 1 = rank(s[i])
  <2>1. Shape(s, p, a, b)
    OBVIOUS
  <2>2. /\ rank(s[i]) \in Nat /\ a <= rank(s[i]) /\ rank(s[i]) <= b /\ Fits(p, rank(s[i]))
        /\ rank(s[i]) \in Led(p) => \E j \in 1 .. Len(s) : j + 1 = i /\ rank(s[j]) + 1 = rank(s[i])
    BY <2>1, ShapeOfEach, Zenon
  <2> QED
    BY <2>2, Zenon
<1>t. ASSUME NEW i \in 1 .. Len(t)
      PROVE  /\ rank(t[i]) \in Nat /\ c <= rank(t[i]) /\ rank(t[i]) <= d /\ Fits(p, rank(t[i]))
             /\ rank(t[i]) \in Led(p) => \E j \in 1 .. Len(t) : j + 1 = i /\ rank(t[j]) + 1 = rank(t[i])
  <2>1. Shape(t, p, c, d)
    OBVIOUS
  <2>2. /\ rank(t[i]) \in Nat /\ c <= rank(t[i]) /\ rank(t[i]) <= d /\ Fits(p, rank(t[i]))
        /\ rank(t[i]) \in Led(p) => \E j \in 1 .. Len(t) : j + 1 = i /\ rank(t[j]) + 1 = rank(t[i])
    BY <2>1, ShapeOfEach, Zenon
  <2> QED
    BY <2>2, Zenon
<1>4. ASSUME NEW i \in 1 .. Len(u)
      PROVE  /\ a <= rank(u[i]) /\ rank(u[i]) <= d /\ Fits(p, rank(u[i]))
             /\ rank(u[i]) \in Led(p) => \E j \in 1 .. Len(u) : j + 1 = i /\ rank(u[j]) + 1 = rank(u[i])
  <2>1. CASE i \in 1 .. Len(s)
    <3>1. u[i] = s[i]
      BY <1>2, <2>1
    <3>2. ASSUME rank(u[i]) \in Led(p)
          PROVE  \E j \in 1 .. Len(u) : j + 1 = i /\ rank(u[j]) + 1 = rank(u[i])
      <4>1. PICK j \in 1 .. Len(s) : j + 1 = i /\ rank(s[j]) + 1 = rank(s[i])
        BY <1>s, <2>1, <3>1, <3>2
      <4>2. j \in 1 .. Len(u) /\ u[j] = s[j]
        BY <1>2
      <4> QED
        BY <3>1, <4>1, <4>2
    <3> QED
      BY <1>s, <2>1, <3>1, <3>2
  <2>2. ASSUME NEW k \in 1 .. Len(t), i = Len(s) + k
        PROVE  /\ a <= rank(u[i]) /\ rank(u[i]) <= d /\ Fits(p, rank(u[i]))
               /\ rank(u[i]) \in Led(p) => \E j \in 1 .. Len(u) : j + 1 = i /\ rank(u[j]) + 1 = rank(u[i])
    <3>1. u[i] = t[k]
      BY <1>2, <2>2
    <3>2. ASSUME rank(u[i]) \in Led(p)
          PROVE  \E j \in 1 .. Len(u) : j + 1 = i /\ rank(u[j]) + 1 = rank(u[i])
      <4>1. PICK j \in 1 .. Len(t) : j + 1 = k /\ rank(t[j]) + 1 = rank(t[k])
        BY <1>t, <2>2, <3>1, <3>2
      <4>2. Len(s) + j \in 1 .. Len(u) /\ u[Len(s) + j] = t[j]
        BY <1>2
      <4>3. (Len(s) + j) + 1 = i
        BY <1>2, <2>2, <4>1
      <4> QED
        BY <3>1, <4>1, <4>2, <4>3
    <3> QED
      BY <1>t, <2>2, <3>1, <3>2
  <2> QED
    BY <1>2, <2>1, <2>2
<1>5. ASSUME NEW i \in 1 .. Len(u), NEW j \in 1 .. Len(u), i < j
      PROVE  rank(u[i]) < rank(u[j]) \/ (rank(u[i]) = rank(u[j]) /\ rank(u[i]) \in {1, 9})
  <2>1. CASE i \in 1 .. Len(s) /\ j \in 1 .. Len(s)
    BY <1>2, <1>5, <2>1, ShapeOfTwo
  <2>2. ASSUME i \in 1 .. Len(s), NEW k \in 1 .. Len(t), j = Len(s) + k
        PROVE  rank(u[i]) < rank(u[j]) \/ (rank(u[i]) = rank(u[j]) /\ rank(u[i]) \in {1, 9})
    <3>1. u[i] = s[i] /\ u[j] = t[k]
      BY <1>2, <2>2
    <3> QED
      BY <1>s, <1>t, <2>2, <3>1
  <2>3. ASSUME NEW k \in 1 .. Len(t), i = Len(s) + k, NEW l \in 1 .. Len(t), j = Len(s) + l
        PROVE  rank(u[i]) < rank(u[j]) \/ (rank(u[i]) = rank(u[j]) /\ rank(u[i]) \in {1, 9})
    <3>1. u[i] = t[k] /\ u[j] = t[l] /\ k < l
      BY <1>2, <1>5, <2>3
    <3> QED
      BY <3>1, ShapeOfTwo
  <2>4. ~(j \in 1 .. Len(s) /\ i \notin 1 .. Len(s))
    BY <1>2, <1>5
  <2> QED
    BY <1>2, <2>1, <2>2, <2>3, <2>4
<1> QED
  BY <1>2, <1>4, <1>5 DEF Shape, u

\* The bounds of a shape may be relaxed, and the empty piece has every shape.
LEMMA WiderShape ==
  ASSUME NEW s, NEW p, NEW a \in Nat, NEW b \in Nat, NEW c \in Nat, NEW d \in Nat,
         Shape(s, p, c, d), a <= c, d <= b
  PROVE  Shape(s, p, a, b)
<1>1. s \in Seq(Step)
  BY DEF Shape
<1>2. ASSUME NEW i \in 1 .. Len(s)
      PROVE  a <= rank(s[i]) /\ rank(s[i]) <= b
  <2>1. c <= rank(s[i]) /\ rank(s[i]) <= d /\ rank(s[i]) \in Nat
    BY ShapeOfEach, Zenon
  <2> QED
    BY <1>1, <2>1
<1>3. Shape(s, p, c, d)
  OBVIOUS
<1> QED
  BY <1>2, <1>3, Zenon DEF Shape

LEMMA EmptyShape == \A p, lo, hi : Shape(<<>>, p, lo, hi)
<1>1. <<>> \in Seq(Step) /\ 1 .. Len(<<>>) = {}
  OBVIOUS
<1> QED
  BY <1>1, Zenon DEF Shape

\* A piece that is only there on a condition.
LEMMA WhenShape ==
  ASSUME NEW b, NEW s, NEW p, NEW lo, NEW hi, b => Shape(s, p, lo, hi)
  PROVE  Shape(SP!When(b, s), p, lo, hi)
BY EmptyShape, Zenon DEF SP!When

\* The ranks that may come first in a row.
LEMMA Starts == \A p : Led(p) \cap {1, 2, 3, 4, 7, 9, 10, 11, 14, 20, 23, 26} = {}
BY DEF Led

\* A list of one of the repeated kinds.
LEMMA RepeatedShape ==
  ASSUME NEW s \in Seq(Step), NEW p, NEW r \in {1, 9}, \A i \in 1 .. Len(s) : rank(s[i]) = r
  PROVE  Shape(s, p, r, r)
<1>1. Fits(p, r) /\ r \notin Led(p) /\ r <= r
  BY Starts DEF Fits
<1>2. ASSUME NEW i \in 1 .. Len(s)
      PROVE  rank(s[i]) = r
  OBVIOUS
<1> QED
  BY <1>1, <1>2, Zenon DEF Shape

\* Steps that follow each other.
LEMMA RowShape ==
  ASSUME NEW s \in Seq(Step), NEW p, NEW k \in Nat, NEW n \in Nat, Len(s) = n, k \notin Led(p),
         \A i \in 1 .. n : rank(s[i]) = (k + i) - 1 /\ Fits(p, (k + i) - 1)
  PROVE  Shape(s, p, k, (k + n) - 1)
<1>1. ASSUME NEW i \in 1 .. Len(s)
      PROVE  /\ k <= rank(s[i]) /\ rank(s[i]) <= (k + n) - 1 /\ Fits(p, rank(s[i]))
             /\ rank(s[i]) \in Led(p) => \E j \in 1 .. Len(s) : j + 1 = i /\ rank(s[j]) + 1 = rank(s[i])
  <2>1. rank(s[i]) = (k + i) - 1 /\ Fits(p, rank(s[i]))
    OBVIOUS
  <2>2. k <= rank(s[i]) /\ rank(s[i]) <= (k + n) - 1
    BY <2>1
  <2>3. ASSUME rank(s[i]) \in Led(p)
        PROVE  \E j \in 1 .. Len(s) : j + 1 = i /\ rank(s[j]) + 1 = rank(s[i])
    <3>1. i # 1
      BY <2>1, <2>3
    <3>2. i - 1 \in 1 .. n /\ (i - 1) + 1 = i /\ rank(s[i - 1]) + 1 = rank(s[i])
      BY <2>1, <3>1
    <3> QED
      BY <3>2
  <2> QED
    BY <2>1, <2>2, <2>3
<1>2. ASSUME NEW i \in 1 .. Len(s), NEW j \in 1 .. Len(s), i < j
      PROVE  rank(s[i]) < rank(s[j])
  BY <1>2
<1> QED
  BY <1>1, <1>2, Zenon DEF Shape

\* Repetitions of a hash and of an edit.
LEMMA TimesShape ==
  ASSUME NEW n \in Nat, NEW p
  PROVE  /\ Shape(SP!Times(n, "hash"), p, 1, 1)
         /\ \A x \in Edits : Shape(SP!Times(n, x), p, 9, 9)
<1>1. ASSUME NEW x \in Step
      PROVE  SP!Times(n, x) \in Seq(Step) /\ \A i \in 1 .. Len(SP!Times(n, x)) : SP!Times(n, x)[i] = x
  <2>1. SP!Times(n, x) = [i \in 1 .. n |-> x]
    BY DEF SP!Times
  <2>2. SP!Times(n, x) \in Seq(Step) /\ Len(SP!Times(n, x)) = n
    BY <2>1
  <2> QED
    BY <2>1, <2>2
<1>2. "hash" \in Step /\ Edits \subseteq Step
  BY DEF Step
<1>3. Shape(SP!Times(n, "hash"), p, 1, 1)
  BY <1>1, <1>2, Ranks, RepeatedShape
<1>4. ASSUME NEW x \in Edits
      PROVE  Shape(SP!Times(n, x), p, 9, 9)
  <2>1. x \in Step /\ rank(x) = 9
    BY <1>2, Ranks
  <2> QED
    BY <1>1, <2>1, RepeatedShape
<1> QED
  BY <1>3, <1>4

\* A list of edits, in any order.
LEMMA EditsShape ==
  ASSUME NEW s, NEW p, NEW n \in Nat, DOMAIN s = 1 .. n, s = [i \in 1 .. n |-> s[i]],
         \A i \in 1 .. n : s[i] \in Edits
  PROVE  Shape(s, p, 9, 9)
<1>1. s \in Seq(Step) /\ Len(s) = n
  <2>1. \A i \in 1 .. n : s[i] \in Step
    BY DEF Step
  <2>2. s \in [1 .. n -> Step]
    BY <2>1
  <2> QED
    BY <2>2
<1>2. \A i \in 1 .. Len(s) : rank(s[i]) = 9
  BY <1>1, Ranks
<1> QED
  BY <1>1, <1>2, RepeatedShape

\* Everything between the mount and the unmount is edits.
LEMMA MiddleShape ==
  ASSUME NEW p, IsProject(p)
  PROVE  /\ Shape(SP!integrations(p), p, 9, 9) /\ Shape(SP!removals(p), p, 9, 9)
         /\ Shape([i \in DOMAIN p.staged |-> IF p.staged[i] = "image" THEN "stageImage" ELSE "stageMedia"], p, 9, 9)
         /\ Shape(SP!registryEdits(p), p, 9, 9) /\ Shape(p.answers, p, 9, 9)
         /\ Shape(SP!lastChanges(p), p, 9, 9)
<1> USE DEF IsProject
<1>1. "change" \in Edits /\ "hostEdit" \in Edits
  BY DEF Edits
<1>2. Shape(SP!integrations(p), p, 9, 9)
  BY <1>1, TimesShape DEF SP!integrations
<1>3. Shape(SP!removals(p), p, 9, 9)
  <2>1. Shape(SP!Times(p.removals, "change"), p, 9, 9) /\ Shape(SP!Times(p.tasks, "change"), p, 9, 9)
    BY <1>1, TimesShape
  <2> QED
    BY <2>1, JoinedShape DEF SP!removals
<1>4. Shape([i \in DOMAIN p.staged |-> IF p.staged[i] = "image" THEN "stageImage" ELSE "stageMedia"], p, 9, 9)
  <2> DEFINE s == [i \in DOMAIN p.staged |-> IF p.staged[i] = "image" THEN "stageImage" ELSE "stageMedia"]
  <2>1. DOMAIN p.staged = 1 .. Len(p.staged) /\ Len(p.staged) \in Nat
    OBVIOUS
  <2>2. DOMAIN s = 1 .. Len(p.staged) /\ s = [i \in 1 .. Len(p.staged) |-> s[i]]
    BY <2>1
  <2>3. \A i \in 1 .. Len(p.staged) : s[i] \in Edits
    BY <2>1 DEF Edits
  <2> HIDE DEF s
  <2>4. Shape(s, p, 9, 9)
    BY <2>1, <2>2, <2>3, EditsShape
  <2> QED
    BY <2>4 DEF s
<1>5. Shape(SP!registryEdits(p), p, 9, 9)
  <2>1. CASE p.online
    BY <1>1, <2>1, TimesShape DEF SP!registryEdits
  <2>2. CASE ~p.online
    <3> DEFINE n == 3 * p.tweaks
               s == [i \in 1 .. n |-> <<"regload", "regedit", "regunload">>[((i - 1) % 3) + 1]]
    <3>1. n \in Nat
      OBVIOUS
    <3> HIDE DEF n
    <3>2. DOMAIN s = 1 .. n /\ s = [i \in 1 .. n |-> s[i]]
      OBVIOUS
    <3>3. ASSUME NEW i \in 1 .. n
          PROVE  s[i] \in Edits
      <4>1. s[i] = <<"regload", "regedit", "regunload">>[((i - 1) % 3) + 1]
        OBVIOUS
      <4>2. ((i - 1) % 3) + 1 \in {1, 2, 3}
        BY <3>1
      <4> QED
        BY <4>1, <4>2 DEF Edits
    <3>4. SP!registryEdits(p) = s
      BY <2>2 DEF SP!registryEdits, n
    <3> HIDE DEF s
    <3> QED
      BY <3>1, <3>2, <3>3, <3>4, EditsShape
  <2> QED
    BY <2>1, <2>2
<1>6. Shape(p.answers, p, 9, 9)
  <2>1. /\ DOMAIN p.answers = 1 .. Len(p.answers) /\ Len(p.answers) \in Nat
        /\ p.answers = [i \in 1 .. Len(p.answers) |-> p.answers[i]]
        /\ \A i \in 1 .. Len(p.answers) : p.answers[i] \in {"apply", "removeImage", "removeMedia"}
    OBVIOUS
  <2>2. \A i \in 1 .. Len(p.answers) : p.answers[i] \in Edits
    BY <2>1 DEF Edits
  <2> QED
    BY <2>1, <2>2, EditsShape, Zenon
<1>7. Shape(SP!lastChanges(p), p, 9, 9)
  <2>1. Shape(SP!Times(p.postSetup, "change"), p, 9, 9)
    BY <1>1, TimesShape
  <2>2. Shape(<<"change">>, p, 9, 9) /\ Shape(<<"validate">>, p, 9, 9)
    <3>1. ASSUME NEW x \in Edits
          PROVE  Shape(<<x>>, p, 9, 9)
      <4>1. DOMAIN <<x>> = 1 .. 1 /\ <<x>> = [i \in 1 .. 1 |-> <<x>>[i]] /\ \A i \in 1 .. 1 : <<x>>[i] \in Edits
        OBVIOUS
      <4> QED
        BY <4>1, EditsShape
    <3> QED
      BY <3>1 DEF Edits
  <2>3. Shape(SP!When(p.cleanup, <<"change">>), p, 9, 9)
    BY <2>2, WhenShape, Zenon
  <2>4. Shape(SP!Times(p.postSetup, "change") \o SP!When(p.cleanup, <<"change">>), p, 9, 9)
    BY <2>1, <2>3, JoinedShape
  <2> QED
    BY <2>2, <2>4, JoinedShape DEF SP!lastChanges
<1> QED
  BY <1>2, <1>3, <1>4, <1>5, <1>6, <1>7

\* The rows of one, two, three and six steps build asks for.
LEMMA RowsOfOne ==
  ASSUME NEW p
  PROVE  /\ ~p.online /\ SP!mediaSource(p) => Shape(<<"media">>, p, 2, 2)
         /\ ~p.online /\ ~SP!convertedInput(p) => Shape(<<"image">>, p, 3, 3)
         /\ ~p.online => Shape(<<"unmount">>, p, 10, 10)
<1>1. ASSUME NEW x \in Step, NEW k \in Nat, rank(x) = k, k \notin Led(p), Fits(p, k)
      PROVE  Shape(<<x>>, p, k, k)
  <2>1. <<x>> \in Seq(Step) /\ Len(<<x>>) = 1 /\ \A i \in 1 .. 1 : <<x>>[i] = x /\ (k + i) - 1 = k
    OBVIOUS
  <2>2. Shape(<<x>>, p, k, (k + 1) - 1)
    BY <1>1, <2>1, RowShape
  <2> QED
    BY <2>2
<1>2. "media" \in Step /\ "image" \in Step /\ "unmount" \in Step
  BY DEF Step, Singles
<1>3. ~p.online /\ SP!mediaSource(p) => Fits(p, 2)
  BY DEF Fits
<1>4. ~p.online /\ ~SP!convertedInput(p) => Fits(p, 3)
  BY DEF Fits
<1>5. ~p.online => Fits(p, 10)
  BY DEF Fits
<1> QED
  BY <1>1, <1>2, <1>3, <1>4, <1>5, Ranks, Starts

LEMMA RowOfTwo ==
  ASSUME NEW p, ~p.online
  PROVE  Shape(<<"inspect", "mount">>, p, 7, 8)
<1> DEFINE s == <<"inspect", "mount">>
<1>1. s \in Seq(Step) /\ Len(s) = 2 /\ s[1] = "inspect" /\ s[2] = "mount"
  BY DEF Step, Singles
<1>2. Fits(p, 7) /\ Fits(p, 8)
  BY DEF Fits
<1>3. 7 \notin Led(p)
  BY Starts
<1> HIDE DEF s
<1>4. \A i \in 1 .. 2 : rank(s[i]) = (7 + i) - 1 /\ Fits(p, (7 + i) - 1)
  <2>1. (7 + 1) - 1 = 7 /\ (7 + 2) - 1 = 8 /\ 1 .. 2 = {1, 2}
    OBVIOUS
  <2> QED
    BY <1>1, <1>2, <2>1, Ranks
<1>5. Shape(s, p, 7, (7 + 2) - 1)
  BY <1>1, <1>3, <1>4, RowShape
<1> QED
  BY <1>5 DEF s

LEMMA RowOfThree ==
  ASSUME NEW p, NEW x \in Step, NEW y \in Step, NEW z \in Step, NEW k \in Nat, k \notin Led(p),
         rank(x) = k, rank(y) = k + 1, rank(z) = k + 2, Fits(p, k), Fits(p, k + 1), Fits(p, k + 2)
  PROVE  Shape(<<x, y, z>>, p, k, k + 2)
<1> DEFINE s == <<x, y, z>>
<1>1. s \in Seq(Step) /\ Len(s) = 3 /\ s[1] = x /\ s[2] = y /\ s[3] = z
  OBVIOUS
<1> HIDE DEF s
<1>4. \A i \in 1 .. 3 : rank(s[i]) = (k + i) - 1 /\ Fits(p, (k + i) - 1)
  <2>1. (k + 1) - 1 = k /\ (k + 2) - 1 = k + 1 /\ (k + 3) - 1 = k + 2 /\ 1 .. 3 = {1, 2, 3}
    OBVIOUS
  <2> QED
    BY <1>1, <2>1
<1>5. Shape(s, p, k, (k + 3) - 1)
  BY <1>1, <1>4, RowShape
<1>6. (k + 3) - 1 = k + 2
  OBVIOUS
<1> QED
  BY <1>5, <1>6 DEF s

LEMMA RowsOfThree ==
  ASSUME NEW p
  PROVE  /\ ~p.online /\ SP!convertedInput(p) => Shape(<<"convertClear", "convert", "convertPublish">>, p, 4, 6)
         /\ p.format \in {"wim", "esd"} => Shape(<<"exportClear", "export", "exportPublish">>, p, 11, 13)
         /\ p.format = "swm" /\ p.workingIsWim => Shape(<<"splitClear", "split", "splitPublish">>, p, 17, 19)
         /\ Shape(<<"esdClear", "esdExport", "esdPublish">>, p, 20, 22)
         /\ Shape(<<"partsClear", "parts", "partsPublish">>, p, 23, 25)
         /\ Shape(<<"isoClear", "iso", "isoPublish">>, p, 26, 28)
<1>1. /\ {"convertClear", "convert", "convertPublish", "exportClear", "export", "exportPublish"} \subseteq Step
      /\ {"splitClear", "split", "splitPublish", "esdClear", "esdExport", "esdPublish"} \subseteq Step
      /\ {"partsClear", "parts", "partsPublish", "isoClear", "iso", "isoPublish"} \subseteq Step
  BY DEF Step, Singles
<1>2. ASSUME ~p.online, SP!convertedInput(p)
      PROVE  Shape(<<"convertClear", "convert", "convertPublish">>, p, 4, 6)
  <2>1. Fits(p, 4) /\ Fits(p, 4 + 1) /\ Fits(p, 4 + 2)
    BY <1>2 DEF Fits
  <2>2. Shape(<<"convertClear", "convert", "convertPublish">>, p, 4, 4 + 2)
    BY <1>1, <2>1, Ranks, Starts, RowOfThree
  <2> QED
    BY <2>2
<1>3. ASSUME p.format \in {"wim", "esd"}
      PROVE  Shape(<<"exportClear", "export", "exportPublish">>, p, 11, 13)
  <2>1. Fits(p, 11) /\ Fits(p, 11 + 1) /\ Fits(p, 11 + 2)
    BY <1>3 DEF Fits
  <2>2. Shape(<<"exportClear", "export", "exportPublish">>, p, 11, 11 + 2)
    BY <1>1, <2>1, Ranks, Starts, RowOfThree
  <2> QED
    BY <2>2
<1>4. ASSUME p.format = "swm", p.workingIsWim
      PROVE  Shape(<<"splitClear", "split", "splitPublish">>, p, 17, 19)
  <2>1. Fits(p, 17) /\ Fits(p, 17 + 1) /\ Fits(p, 17 + 2) /\ 17 \notin Led(p)
    BY <1>4 DEF Fits, Led
  <2>2. Shape(<<"splitClear", "split", "splitPublish">>, p, 17, 17 + 2)
    BY <1>1, <2>1, Ranks, RowOfThree
  <2> QED
    BY <2>2
<1>5. ASSUME NEW k \in {20, 23, 26}
      PROVE  k \in Nat /\ Fits(p, k) /\ Fits(p, k + 1) /\ Fits(p, k + 2) /\ k \notin Led(p)
  BY DEF Fits, Led
<1>6. Shape(<<"esdClear", "esdExport", "esdPublish">>, p, 20, 20 + 2)
  BY <1>1, <1>5, Ranks, RowOfThree
<1>7. Shape(<<"partsClear", "parts", "partsPublish">>, p, 23, 23 + 2)
  BY <1>1, <1>5, Ranks, RowOfThree
<1>8. Shape(<<"isoClear", "iso", "isoPublish">>, p, 26, 26 + 2)
  BY <1>1, <1>5, Ranks, RowOfThree
<1> QED
  BY <1>2, <1>3, <1>4, <1>6, <1>7, <1>8

LEMMA SplitShape ==
  ASSUME NEW p, p.format = "swm"
  PROVE  Shape(SP!When(~p.workingIsWim, <<"wimClear", "wimExport", "wimPublish">>)
               \o <<"splitClear", "split", "splitPublish">>, p, 14, 19)
<1>1. CASE p.workingIsWim
  <2>1. SP!When(~p.workingIsWim, <<"wimClear", "wimExport", "wimPublish">>)
        \o <<"splitClear", "split", "splitPublish">> = <<"splitClear", "split", "splitPublish">>
    BY <1>1 DEF SP!When
  <2>2. Shape(<<"splitClear", "split", "splitPublish">>, p, 17, 19)
    BY <1>1, RowsOfThree, Zenon
  <2>3. Shape(<<"splitClear", "split", "splitPublish">>, p, 14, 19)
    BY <2>2, WiderShape
  <2> QED
    BY <2>1, <2>3, Zenon
<1>2. CASE ~p.workingIsWim
  <2> DEFINE x == <<"wimClear", "wimExport", "wimPublish">>
             y == <<"splitClear", "split", "splitPublish">>
             s == x \o y
  <2>1. SP!When(~p.workingIsWim, x) \o y = s
    BY <1>2 DEF SP!When
  <2>2. /\ x \in Seq(Step) /\ Len(x) = 3 /\ x[1] = "wimClear" /\ x[2] = "wimExport" /\ x[3] = "wimPublish"
        /\ y \in Seq(Step) /\ Len(y) = 3 /\ y[1] = "splitClear" /\ y[2] = "split" /\ y[3] = "splitPublish"
    BY DEF Step, Singles
  <2> HIDE DEF x, y
  <2>3. /\ s \in Seq(Step) /\ Len(s) = 6
        /\ s[1] = "wimClear" /\ s[2] = "wimExport" /\ s[3] = "wimPublish"
        /\ s[4] = "splitClear" /\ s[5] = "split" /\ s[6] = "splitPublish"
    <3>1. /\ s \in Seq(Step) /\ Len(s) = Len(x) + Len(y)
          /\ \A i \in 1 .. Len(x) : s[i] = x[i]
          /\ \A i \in 1 .. Len(y) : s[Len(x) + i] = y[i]
      <4>1. x \in Seq(Step) /\ y \in Seq(Step)
        BY <2>2
      <4> QED
        BY <4>1, Joined
    <3> HIDE DEF s
    <3>2. s \in Seq(Step) /\ Len(s) = 6 /\ \A i \in 1 .. 3 : s[i] = x[i] /\ s[3 + i] = y[i]
      BY <2>2, <3>1
    <3>3. s[1] = x[1] /\ s[2] = x[2] /\ s[3] = x[3]
      BY <3>2
    <3>4. s[3 + 1] = y[1] /\ s[3 + 2] = y[2] /\ s[3 + 3] = y[3]
      BY <3>2
    <3>5. 3 + 1 = 4 /\ 3 + 2 = 5 /\ 3 + 3 = 6
      OBVIOUS
    <3> QED
      BY <2>2, <3>2, <3>3, <3>4, <3>5
  <2> HIDE DEF s
  <2>4. /\ rank(s[1]) = 14 /\ rank(s[2]) = 15 /\ rank(s[3]) = 16
        /\ rank(s[4]) = 17 /\ rank(s[5]) = 18 /\ rank(s[6]) = 19
    BY <2>3, Ranks
  <2>5. Fits(p, 14) /\ Fits(p, 15) /\ Fits(p, 16) /\ Fits(p, 17) /\ Fits(p, 18) /\ Fits(p, 19)
    BY DEF Fits
  <2>6. ASSUME NEW i \in 1 .. 6
        PROVE  rank(s[i]) = (14 + i) - 1 /\ Fits(p, (14 + i) - 1)
    <3>1. i \in {1, 2, 3, 4, 5, 6}
      OBVIOUS
    <3> QED
      BY <2>4, <2>5, <3>1
  <2>7. 14 \notin Led(p)
    BY Starts
  <2>8. Shape(s, p, 14, (14 + 6) - 1)
    BY <2>3, <2>6, <2>7, RowShape
  <2>9. (14 + 6) - 1 = 19
    OBVIOUS
  <2>10. Shape(SP!When(~p.workingIsWim, x) \o y, p, 14, 19)
    BY <2>1, <2>8, <2>9 DEF s
  <2> QED
    BY <2>10 DEF x, y
<1> QED
  BY <1>1, <1>2

\* What comes before the mount and after the unmount.
LEMMA EndShape ==
  ASSUME NEW p
  PROVE  /\ Shape(SP!preparation(p), p, 2, 6) /\ Shape(SP!publication(p), p, 11, 19)
         /\ Shape(SP!mediaImage(p), p, 20, 25) /\ Shape(SP!isoBuild(p), p, 26, 28)
<1>1. Shape(SP!preparation(p), p, 2, 6)
  <2>1. CASE p.online
    <3>1. SP!preparation(p) = <<>>
      BY <2>1 DEF SP!preparation, SP!When
    <3> QED
      BY <3>1, EmptyShape
  <2>2. CASE ~p.online
    <3> DEFINE c == ~SP!convertedInput(p) /\ (~SP!mediaSource(p) \/ p.external)
               a == SP!When(SP!mediaSource(p), <<"media">>)
               b == SP!When(c, <<"image">>)
               d == SP!When(SP!convertedInput(p), <<"convertClear", "convert", "convertPublish">>)
    <3>1. Shape(a, p, 2, 2)
      BY <2>2, RowsOfOne, WhenShape, Zenon
    <3>2. Shape(b, p, 3, 3)
      BY <2>2, RowsOfOne, WhenShape, Zenon
    <3>3. Shape(d, p, 4, 6)
      BY <2>2, RowsOfThree, WhenShape, Zenon
    <3>4. SP!preparation(p) = SP!When(~p.online /\ p.clone, (a \o b) \o d)
      BY DEF SP!preparation
    <3> HIDE DEF a, b, c, d
    <3>5. Shape(a \o b, p, 2, 3)
      BY <3>1, <3>2, JoinedShape
    <3>6. Shape((a \o b) \o d, p, 2, 6)
      BY <3>3, <3>5, JoinedShape
    <3> QED
      BY <3>4, <3>6, WhenShape, Zenon
  <2> QED
    BY <2>1, <2>2
<1>2. Shape(SP!publication(p), p, 11, 19)
  <2> DEFINE a == SP!When(p.format \in {"wim", "esd"}, <<"exportClear", "export", "exportPublish">>)
             d == SP!When(~p.workingIsWim, <<"wimClear", "wimExport", "wimPublish">>)
                  \o <<"splitClear", "split", "splitPublish">>
             b == SP!When(p.format = "swm", d)
  <2>1. Shape(a, p, 11, 13)
    BY RowsOfThree, WhenShape, Zenon
  <2>2. p.format = "swm" => Shape(d, p, 14, 19)
    BY SplitShape
  <2>3. SP!publication(p) = SP!When(~p.online /\ ~p.discard, a \o b)
    BY DEF SP!publication
  <2> HIDE DEF a, d
  <2>4. Shape(b, p, 14, 19)
    BY <2>2, WhenShape, Zenon
  <2> HIDE DEF b
  <2>5. Shape(a \o b, p, 11, 19)
    BY <2>1, <2>4, JoinedShape
  <2> QED
    BY <2>3, <2>5, WhenShape, Zenon
<1>3. Shape(SP!mediaImage(p), p, 20, 25)
  <2> DEFINE a == SP!When(SP!esdInput(p), <<"esdClear", "esdExport", "esdPublish">>)
             b == SP!When(SP!splitInput(p), <<"partsClear", "parts", "partsPublish">>)
             c == ~p.online /\ ~p.discard /\ SP!mediaSource(p) /\ SP!creatingIso(p)
  <2>1. Shape(a, p, 20, 22) /\ Shape(b, p, 23, 25)
    BY RowsOfThree, WhenShape, Zenon
  <2>2. SP!mediaImage(p) = SP!When(c, a \o b)
    BY DEF SP!mediaImage
  <2> HIDE DEF a, b, c
  <2>3. Shape(a \o b, p, 20, 25)
    BY <2>1, JoinedShape
  <2> QED
    BY <2>2, <2>3, WhenShape, Zenon
<1>4. Shape(SP!isoBuild(p), p, 26, 28)
  BY RowsOfThree, WhenShape, Zenon DEF SP!isoBuild
<1> QED
  BY <1>1, <1>2, <1>3, <1>4

\* A step of one of two lists is in their concatenation.
LEMMA JoinedHas ==
  ASSUME NEW s \in Seq(Step), NEW t \in Seq(Step), NEW x, Has(s, x) \/ Has(t, x)
  PROVE  Has(s \o t, x)
<1> DEFINE u == s \o t
<1>1. /\ \A i \in 1 .. Len(s) : i \in 1 .. Len(u) /\ u[i] = s[i]
      /\ \A i \in 1 .. Len(t) : Len(s) + i \in 1 .. Len(u) /\ u[Len(s) + i] = t[i]
  BY Joined
<1> HIDE DEF u
<1>2. CASE Has(s, x)
  BY <1>1, <1>2, Zenon DEF Has, u
<1>3. CASE Has(t, x)
  <2>1. PICK i \in 1 .. Len(t) : t[i] = x
    BY <1>3 DEF Has
  <2>2. Len(s) + i \in 1 .. Len(u) /\ u[Len(s) + i] = x
    BY <1>1, <2>1, Zenon
  <2> QED
    BY <2>2, Zenon DEF Has, u
<1> QED
  BY <1>2, <1>3

\* The program follows the ranks; it mounts an offline image, and copies the image unless
\* the media copy or the conversion has made it.
LEMMA ProgramShape ==
  ASSUME NEW p, IsProject(p)
  PROVE  /\ Shape(SP!Program(p), p, 1, 28)
         /\ ~p.online => Has(SP!Program(p), "mount")
         /\ ~p.online /\ p.clone /\ ~SP!convertedInput(p) /\ (~SP!mediaSource(p) \/ p.external)
              => Has(SP!Program(p), "image")
<1> DEFINE a == SP!When(p.verify, SP!Times(p.inputs, "hash"))
           b == SP!preparation(p)
           c == SP!When(~p.online, <<"inspect", "mount">>)
           d == SP!integrations(p)
           e == SP!removals(p)
           f == [i \in DOMAIN p.staged |-> IF p.staged[i] = "image" THEN "stageImage" ELSE "stageMedia"]
           g == SP!registryEdits(p)
           h == p.answers
           k == SP!lastChanges(p)
           l == SP!When(~p.online, <<"unmount">>)
           m == SP!publication(p)
           n == SP!mediaImage(p)
           o == SP!isoBuild(p)
           s3 == (a \o b) \o c
           s9 == (((((s3 \o d) \o e) \o f) \o g) \o h) \o k
<1>1. SP!Program(p) = (((s9 \o l) \o m) \o n) \o o
  BY DEF SP!Program
<1>2. Shape(a, p, 1, 1)
  BY TimesShape, WhenShape, Zenon DEF IsProject
<1>3. Shape(b, p, 2, 6) /\ Shape(m, p, 11, 19) /\ Shape(n, p, 20, 25) /\ Shape(o, p, 26, 28)
  BY EndShape, Zenon
<1>4. Shape(c, p, 7, 8)
  BY RowOfTwo, WhenShape, Zenon
<1>5. Shape(l, p, 10, 10)
  BY RowsOfOne, WhenShape, Zenon
<1>6. /\ Shape(d, p, 9, 9) /\ Shape(e, p, 9, 9) /\ Shape(f, p, 9, 9)
      /\ Shape(g, p, 9, 9) /\ Shape(h, p, 9, 9) /\ Shape(k, p, 9, 9)
  BY MiddleShape, Zenon
<1>7. ~p.online => Has(c, "mount")
  <2>1. <<"inspect", "mount">>[2] = "mount" /\ 2 \in 1 .. Len(<<"inspect", "mount">>)
    OBVIOUS
  <2> QED
    BY <2>1, Zenon DEF SP!When, Has
<1>8. ASSUME ~p.online, p.clone, ~SP!convertedInput(p), ~SP!mediaSource(p) \/ p.external
      PROVE  Has(b, "image")
  <2> DEFINE x == SP!When(SP!mediaSource(p), <<"media">>)
             y == SP!When(~SP!convertedInput(p) /\ (~SP!mediaSource(p) \/ p.external), <<"image">>)
             z == SP!When(SP!convertedInput(p), <<"convertClear", "convert", "convertPublish">>)
  <2>1. b = (x \o y) \o z
    BY <1>8 DEF SP!preparation, SP!When
  <2>2. y = <<"image">> /\ z = <<>>
    BY <1>8 DEF SP!When
  <2>3. x \in Seq(Step) /\ y \in Seq(Step) /\ z \in Seq(Step)
    <3>1. "media" \in Step /\ "image" \in Step
      BY DEF Step, Singles
    <3> QED
      BY <2>2, <3>1 DEF SP!When
  <2>4. Has(y, "image")
    <3>1. <<"image">>[1] = "image" /\ 1 \in 1 .. Len(<<"image">>)
      OBVIOUS
    <3> QED
      BY <2>2, <3>1, Zenon DEF Has
  <2> HIDE DEF x, y, z
  <2>5. x \o y \in Seq(Step) /\ Has(x \o y, "image")
    BY <2>3, <2>4, Joined, JoinedHas
  <2> QED
    BY <2>1, <2>3, <2>5, JoinedHas
<1> HIDE DEF a, b, c, d, e, f, g, h, k, l, m, n, o
<1>9. Shape(a \o b, p, 1, 6)
  BY <1>2, <1>3, JoinedShape
<1>10. Shape(s3, p, 1, 8)
  BY <1>4, <1>9, JoinedShape
<1>11. ~p.online => Has(s3, "mount")
  BY <1>4, <1>7, <1>9, JoinedHas DEF Shape
<1>12. Has(b, "image") => Has(s3, "image")
  <2>1. Has(b, "image") => Has(a \o b, "image")
    BY <1>2, <1>3, JoinedHas DEF Shape
  <2> QED
    BY <1>4, <1>9, <2>1, JoinedHas DEF Shape
<1> HIDE DEF s3
<1> DEFINE Good(s, q) == /\ Shape(s, p, 1, q)
                         /\ ~p.online => Has(s, "mount")
                         /\ Has(b, "image") => Has(s, "image")
<1>13. ASSUME NEW s, NEW t, NEW q \in Nat, NEW u \in Nat, NEW v \in Nat, Good(s, q), Shape(t, p, u, v),
              q < u \/ (q = 9 /\ u = 9), 1 <= u, q <= v
       PROVE  Good(s \o t, v)
  <2>1. Shape(s \o t, p, 1, v)
    BY <1>13, JoinedShape
  <2>2. s \in Seq(Step) /\ t \in Seq(Step)
    BY <1>13 DEF Shape
  <2> QED
    BY <1>13, <2>1, <2>2, JoinedHas
<1>14. Good(s3, 8)
  BY <1>10, <1>11, <1>12
<1> HIDE DEF Good
<1>15. Good(s3 \o d, 9)
  BY <1>6, <1>13, <1>14
<1>16. Good((s3 \o d) \o e, 9)
  BY <1>6, <1>13, <1>15
<1>17. Good(((s3 \o d) \o e) \o f, 9)
  BY <1>6, <1>13, <1>16
<1>18. Good((((s3 \o d) \o e) \o f) \o g, 9)
  BY <1>6, <1>13, <1>17
<1>19. Good(((((s3 \o d) \o e) \o f) \o g) \o h, 9)
  BY <1>6, <1>13, <1>18
<1>20. Good(s9, 9)
  BY <1>6, <1>13, <1>19
<1> HIDE DEF s9
<1>21. Good(s9 \o l, 10)
  BY <1>5, <1>13, <1>20
<1>22. Good((s9 \o l) \o m, 19)
  BY <1>3, <1>13, <1>21
<1>23. Good(((s9 \o l) \o m) \o n, 25)
  BY <1>3, <1>13, <1>22
<1>24. Good((((s9 \o l) \o m) \o n) \o o, 28)
  BY <1>3, <1>13, <1>23
<1> QED
  BY <1>1, <1>8, <1>24 DEF Good

-----------------------------------------------------------------------------
\* What a command may write.
Trees == {"media", "image", "partial", "mount", "host", "output", "intermediary", "split", "parts", "iso"}
Operation == [step : Step, deps : SUBSET Nat, behind : SUBSET Nat, writes : SUBSET Trees,
              reads : SUBSET (Trees \cup {"source"}), flag : {"none", "image", "media"}]
size == Len(ops)
program == SP!Program(project)
now == rank(Head(todo))
Writers(t) == {i \in 1 .. size : t \in ops[i].writes}

PlanTyped ==
  /\ IsProject(project)
  /\ ops \in Seq(Operation) /\ todo \in Seq(Step)
  /\ mediaPreparation \in 0 .. size /\ imagePreparation \in 0 .. size
  /\ lastMediaWrite \in 0 .. size /\ lastImageWrite \in 0 .. size /\ lastOutputWrite \in 0 .. size

\* What the steps of each rank write, read and are flagged as.
Marks(p, o) ==
  LET q == rank(o.step) IN
  /\ "media" \in o.writes => q \in {2, 9, 20, 21, 22, 25} /\ o.flag # "none"
  /\ q = 2 => "media" \in o.writes
  /\ "image" \in o.writes => /\ q \in {2, 3, 6, 10} /\ (q # 6 => o.flag # "none")
                             /\ q \in {2, 3} => ~SP!convertedInput(p)
  /\ "partial" \in o.writes => q \in {4, 5}
  /\ "mount" \in o.writes => q \in {8, 9, 10} /\ ~p.online
  /\ "host" \in o.writes => q = 9
  /\ "output" \in o.writes => q \in {11, 12, 13, 19}
  /\ "intermediary" \in o.writes => q \in {14, 15, 16}
  /\ "split" \in o.writes => q \in {17, 18}
  /\ "parts" \in o.writes => q \in {23, 24}
  /\ "iso" \in o.writes => q \in {26, 27, 28}
  /\ o.step \in SP!Publishing =>
       \A t \in o.reads : \/ t = "image" /\ q >= 12
                          \/ t = "intermediary" /\ q = 18
                          \/ t = "media" /\ q = 27

\* The list of steps is the program, one part of it planned, the rest to come.
Linked ==
  /\ size + Len(todo) = Len(program)
  /\ \A k \in 1 .. Len(todo) : todo[k] = program[size + k]
  /\ \A i \in 1 .. size : ops[i].step = program[i] /\ Marks(project, ops[i])

\* An operation after which, or behind which, all of S is over.
Covers(k, S) == \A i \in S : k \in 1 .. size /\ (i = k \/ i \in ops[k].behind)

Chained ==
  /\ verificationIds = SP!hashes
  /\ Covers(lastMediaWrite, Writers("media"))
  /\ Covers(lastImageWrite, Writers("mount")) /\ Covers(lastImageWrite, Writers("host"))

Planned(s) == \E i \in 1 .. size : ops[i].step = s

\* Until the image is mounted its last writer is imagePreparation, unless the copy is
\* still to come; from then on it is lastImageWrite, which is behind every hash.
Prepared ==
  (Has(program, "image") => Planned("image")) /\ (\A i \in 1 .. size : rank(ops[i].step) <= 7)
    => Covers(imagePreparation, Writers("image"))
Mounted ==
  Planned("mount") =>
    /\ Covers(lastImageWrite, Writers("image"))
    /\ lastImageWrite \in 1 .. size /\ SP!hashes \subseteq ops[lastImageWrite].behind

\* What has to be over once a step of rank q is, for the step that follows it.
Owes(p, q, t) ==
  \/ t = "image" /\ (q \in {7, 11, 14, 20, 23} \/ (q = 17 /\ p.workingIsWim))
  \/ t = "partial" /\ q \in {4, 5}
  \/ t = "output" /\ q \in {11, 12}
  \/ t = "intermediary" /\ (q \in {14, 15, 16} \/ (q = 17 /\ ~p.workingIsWim))
  \/ t = "split" /\ q \in {17, 18}
  \/ t = "media" /\ q \in {23, 24}
  \/ t = "parts" /\ q = 23
  \/ t = "iso" /\ q \in {26, 27}
Owed ==
  size >= 1 =>
    LET q == rank(ops[size].step) IN
    /\ \A t \in Trees : Owes(project, q, t) => Covers(size, Writers(t))
    /\ q \in {4, 5} => SP!hashes \subseteq ops[size].behind
    /\ q = 20 => lastMediaWrite = size

Ordered == SP!WritersOrdered /\ SP!OutputIsFinal /\ SP!ImageWritesGated
Building == PlanTyped /\ Linked /\ Chained /\ Prepared /\ Mounted /\ Owed
PlanInv == Ordered /\ (outcome = "building" => Building)

-----------------------------------------------------------------------------
\* Where the builder stands: what is planned and what is to come.
LEMMA Context ==
  ASSUME PlanTyped, Linked, todo # <<>>
  PROVE  /\ Head(todo) \in Step /\ now \in 1 .. 28 /\ now \in Nat
         /\ \A i \in 1 .. size : /\ rank(ops[i].step) \in Nat /\ rank(ops[i].step) <= now
                                 /\ rank(ops[i].step) = now => now \in {1, 9}
                                 /\ Fits(project, rank(ops[i].step))
         /\ Fits(project, now)
         /\ now \in Led(project) => size >= 1 /\ rank(ops[size].step) + 1 = now
         /\ now >= 9 /\ ~project.online => Planned("mount")
         /\ now > 3 /\ Has(program, "image") => Planned("image")
<1>1. /\ size \in Nat /\ Len(todo) \in Nat /\ Len(todo) >= 1 /\ Head(todo) = todo[1]
  BY DEF PlanTyped, size
<1>2. /\ size + 1 \in 1 .. Len(program)
      /\ Head(todo) = program[size + 1]
      /\ now = rank(program[size + 1])
      /\ Len(program) \in Nat
      /\ size < size + 1
  BY <1>1 DEF Linked, now
<1>3. Shape(program, project, 1, 28)
  BY ProgramShape DEF PlanTyped, program
<1>4. program \in Seq(Step)
  BY <1>3 DEF Shape
<1>5. Head(todo) \in Step /\ now \in 1 .. 28 /\ now \in Nat /\ Fits(project, now)
  <2>1. /\ program[size + 1] \in Step
        /\ rank(program[size + 1]) \in 1 .. 28
        /\ rank(program[size + 1]) \in Nat
        /\ Fits(project, rank(program[size + 1]))
    BY <1>2, <1>3, ShapeOfEach, Zenon
  <2> QED
    BY <1>2, <2>1, Zenon
<1>6. ASSUME NEW i \in 1 .. size
      PROVE  /\ i \in 1 .. Len(program) /\ i < size + 1 /\ ops[i].step = program[i]
             /\ rank(ops[i].step) \in 1 .. 28 /\ rank(ops[i].step) \in Nat /\ Fits(project, rank(ops[i].step))
             /\ rank(ops[i].step) < now \/ (rank(ops[i].step) = now /\ rank(ops[i].step) \in {1, 9})
  <2>1. i \in 1 .. Len(program) /\ i < size + 1
    BY <1>1, <1>2
  <2>2. ops[i].step = program[i]
    BY DEF Linked
  <2>3. rank(program[i]) \in 1 .. 28 /\ rank(program[i]) \in Nat /\ Fits(project, rank(program[i]))
    BY <1>3, <2>1, ShapeOfEach, Zenon
  <2>4. rank(program[i]) < rank(program[size + 1]) \/ (rank(program[i]) = rank(program[size + 1]) /\ rank(program[i]) \in {1, 9})
    BY <1>2, <1>3, <2>1, ShapeOfTwo, Zenon
  <2> QED
    BY <1>2, <2>1, <2>2, <2>3, <2>4, Zenon
<1>7. ASSUME NEW i \in 1 .. size
      PROVE  rank(ops[i].step) <= now /\ (rank(ops[i].step) = now => now \in {1, 9})
  <2>1. rank(ops[i].step) \in Nat /\ now \in Nat
    BY <1>5, <1>6, Zenon
  <2>2. rank(ops[i].step) < now \/ (rank(ops[i].step) = now /\ rank(ops[i].step) \in {1, 9})
    BY <1>6, Zenon
  <2> QED
    BY <2>1, <2>2
<1>8. ASSUME now \in Led(project)
      PROVE  size >= 1 /\ rank(ops[size].step) + 1 = now
  <2>1. PICK j \in 1 .. Len(program) : j + 1 = size + 1 /\ rank(program[j]) + 1 = rank(program[size + 1])
    BY <1>2, <1>3, <1>8, ShapeOfEach, Zenon
  <2>2. j = size /\ size >= 1 /\ size \in 1 .. size
    BY <1>1, <1>2, <2>1
  <2> QED
    BY <1>2, <1>6, <2>1, <2>2, Zenon
\* A step that is in the program is either planned or at least as far in the order.
<1>9. ASSUME NEW x, Has(program, x), ~Planned(x)
      PROVE  \/ now < rank(x) \/ now = rank(x)
  <2>1. PICK m \in 1 .. Len(program) : program[m] = x
    BY <1>9 DEF Has
  <2>2. m > size
    BY <1>1, <1>2, <1>6, <1>9, <2>1 DEF Planned
  <2>3. CASE m = size + 1
    BY <1>2, <2>1, <2>3
  <2>4. CASE size + 1 < m
    <3>1. rank(program[size + 1]) < rank(program[m]) \/ (rank(program[size + 1]) = rank(program[m]) /\ rank(program[size + 1]) \in {1, 9})
      BY <1>2, <1>3, <2>1, <2>4, ShapeOfTwo, Zenon
    <3> QED
      BY <1>2, <2>1, <3>1, Zenon
  <2> QED
    BY <1>1, <1>2, <2>1, <2>2, <2>3, <2>4
<1>10. now >= 9 /\ ~project.online => Planned("mount")
  <2>1. ASSUME ~project.online, ~Planned("mount")
        PROVE  now < 8 \/ now = 8
    <3>1. Has(program, "mount")
      BY <2>1, ProgramShape DEF PlanTyped, program
    <3> QED
      BY <1>9, <2>1, <3>1, Ranks, Zenon
  <2> QED
    BY <1>5, <2>1
<1>11. now > 3 /\ Has(program, "image") => Planned("image")
  <2>1. ASSUME Has(program, "image"), ~Planned("image")
        PROVE  now < 3 \/ now = 3
    BY <1>9, <2>1, Ranks, Zenon
  <2> QED
    BY <1>5, <2>1
<1> QED
  BY <1>5, <1>6, <1>7, <1>8, <1>10, <1>11, Zenon

-----------------------------------------------------------------------------
(* Appending an operation. *)

\* An operation waits for what it depends on and for everything behind that.
LEMMA Waits ==
  ASSUME PlanTyped, NEW D \in SUBSET (0 .. size)
  PROVE  /\ SP!Given(D) \in SUBSET Nat /\ SP!waitsFor(SP!Given(D)) \in SUBSET Nat
         /\ \A d \in D : d \in 1 .. size => d \in SP!waitsFor(SP!Given(D)) /\ ops[d].behind \subseteq SP!waitsFor(SP!Given(D))
         /\ \A S : (\E d \in D : Covers(d, S)) => S \subseteq SP!waitsFor(SP!Given(D))
<1> DEFINE G == SP!Given(D)
           b == SP!waitsFor(G)
<1>1. size \in Nat /\ \A i \in 1 .. size : ops[i].behind \subseteq Nat
  <2>1. size \in Nat /\ \A i \in 1 .. size : ops[i] \in Operation
    BY DEF PlanTyped, size
  <2>2. \A o \in Operation : o.behind \subseteq Nat
    BY DEF Operation
  <2> QED
    BY <2>1, <2>2
<1>2. G \subseteq 1 .. size /\ \A d \in D : d \in 1 .. size => d \in G
  BY <1>1 DEF SP!Given, SP!None
<1>3. b = G \cup UNION {ops[d].behind : d \in G}
  BY DEF SP!waitsFor
<1>4. G \in SUBSET Nat
  BY <1>1, <1>2
<1>5. b \in SUBSET Nat
  BY <1>1, <1>2, <1>3
<1>6. ASSUME NEW d \in D, d \in 1 .. size
      PROVE  d \in b /\ ops[d].behind \subseteq b
  BY <1>2, <1>3, <1>6
<1>7. ASSUME NEW S, NEW d \in D, Covers(d, S)
      PROVE  S \subseteq b
  BY <1>6, <1>7 DEF Covers
<1> QED
  BY <1>4, <1>5, <1>6, <1>7

\* What a list one operation longer is made of.
LEMMA Longer ==
  ASSUME PlanTyped, NEW o \in Operation, ops' = Append(ops, o)
  PROVE  /\ ops' \in Seq(Operation) /\ size' = size + 1 /\ size \in Nat
         /\ ops'[size + 1] = o /\ \A i \in 1 .. size : ops'[i] = ops[i]
         /\ \A i \in 1 .. size' : i \in 1 .. size \/ i = size + 1
         /\ 1 .. size \subseteq 1 .. size' /\ size + 1 \in 1 .. size'
BY DEF PlanTyped, size

\* The three orders of a plan survive an operation that waits for the writers of what it
\* writes and, if it publishes, of what it reads, and for the hashes where it has to.
LEMMA OrderedGrows ==
  ASSUME Ordered, PlanTyped, Linked, todo # <<>>, NEW o \in Operation, ops' = Append(ops, o),
         o.step = Head(todo), Marks(project, o),
         \A t \in o.writes : Writers(t) \subseteq o.behind,
         o.step \in SP!Publishing => \A t \in o.reads : Writers(t) \subseteq o.behind,
         o.writes \cap {"image", "mount", "partial"} # {} => SP!hashes \subseteq o.behind
  PROVE  Ordered'
<1> DEFINE N == size + 1
<1>1. /\ size' = N /\ size \in Nat /\ ops'[N] = o /\ \A i \in 1 .. size : ops'[i] = ops[i]
      /\ \A i \in 1 .. N : i \in 1 .. size \/ i = N
  BY Longer
<1>2. /\ now \in Nat /\ rank(o.step) = now
      /\ \A i \in 1 .. size : rank(ops[i].step) \in Nat /\ rank(ops[i].step) <= now
  <2>1. rank(o.step) = now
    BY DEF now
  <2>2. now \in Nat /\ \A i \in 1 .. size : rank(ops[i].step) \in Nat /\ rank(ops[i].step) <= now
    BY Context
  <2> QED
    BY <2>1, <2>2, Zenon
<1>3. SP!ids = 1 .. size /\ SP!ids' = 1 .. N
  BY <1>1 DEF SP!ids, size
<1>4. \A i \in 1 .. size : Marks(project, ops[i])
  BY DEF Linked
\* Nothing writes any more what a publishing operation has read.
<1>5. ASSUME NEW q \in Operation, q.step \in SP!Publishing, Marks(project, q), rank(q.step) <= now
      PROVE  o.writes \cap q.reads = {}
  <2>1. \A t \in q.reads : \/ t = "image" /\ rank(q.step) >= 12
                           \/ t = "intermediary" /\ rank(q.step) = 18
                           \/ t = "media" /\ rank(q.step) = 27
    BY <1>5 DEF Marks
  <2>2. /\ "image" \in o.writes => now \in {2, 3, 6, 10}
        /\ "intermediary" \in o.writes => now \in {14, 15, 16}
        /\ "media" \in o.writes => now \in {2, 9, 20, 21, 22, 25}
    BY <1>2 DEF Marks
  <2>4. rank(q.step) \in Nat
    BY RanksAreNumbers DEF Operation
  <2>3. /\ "image" \in o.writes => ~(rank(q.step) >= 12)
        /\ "intermediary" \in o.writes => ~(rank(q.step) = 18)
        /\ "media" \in o.writes => ~(rank(q.step) = 27)
    BY <1>2, <1>5, <2>2, <2>4
  <2> QED
    BY <2>1, <2>3, Zenon
<1>6. SP!WritersOrdered'
  <2>1. ASSUME NEW i \in 1 .. N, NEW j \in 1 .. N, i < j, ops'[i].writes \cap ops'[j].writes # {}
        PROVE  i \in ops'[j].behind
    <3>1. i \in 1 .. size /\ ops'[i] = ops[i]
      <4>1. size \in Nat /\ N = size + 1
        BY <1>1
      <4>2. i \in 1 .. size
        BY <2>1, <4>1
      <4> QED
        BY <1>1, <4>2
    <3>2. CASE j = N
      BY <1>1, <2>1, <3>1, <3>2 DEF Writers
    <3>3. CASE j \in 1 .. size
      <4>1. SP!WritersOrdered
        BY DEF Ordered
      <4> QED
        BY <1>1, <1>3, <2>1, <3>1, <3>3, <4>1, Zenon DEF SP!WritersOrdered
    <3> QED
      BY <1>1, <3>2, <3>3
  <2> QED
    BY <1>3, <2>1, Zenon DEF SP!WritersOrdered
<1>7. SP!OutputIsFinal'
  <2>1. ASSUME NEW i \in 1 .. N, NEW j \in 1 .. N, ops'[j].step \in SP!Publishing,
               ops'[i].writes \cap ops'[j].reads # {}
        PROVE  i \in ops'[j].behind
    <3>1. CASE i = N
      <4>1. CASE j = N
        <5>1. rank(o.step) <= now
          BY <1>2
        <5> QED
          BY <1>1, <1>5, <2>1, <3>1, <4>1, <5>1
      <4>2. CASE j \in 1 .. size
        <5>1. ops[j] \in Operation
          BY <4>2 DEF PlanTyped, size
        <5> QED
          BY <1>1, <1>2, <1>4, <1>5, <2>1, <3>1, <4>2, <5>1
      <4> QED
        BY <1>1, <4>1, <4>2
    <3>2. CASE i \in 1 .. size
      <4>1. CASE j = N
        BY <1>1, <2>1, <3>2, <4>1 DEF Writers
      <4>2. CASE j \in 1 .. size
        <5>1. SP!OutputIsFinal
          BY DEF Ordered
        <5> QED
          BY <1>1, <1>3, <2>1, <3>2, <4>2, <5>1, Zenon DEF SP!OutputIsFinal
      <4> QED
        BY <1>1, <4>1, <4>2
    <3> QED
      BY <1>1, <3>1, <3>2
  <2> QED
    BY <1>3, <2>1, Zenon DEF SP!OutputIsFinal, SP!Publishing
<1>8. SP!ImageWritesGated'
  <2>1. ASSUME NEW i \in 1 .. N, ops'[i].writes \cap {"image", "mount", "partial"} # {},
               NEW h \in 1 .. N, ops'[h].step = "hash"
        PROVE  h \in ops'[i].behind
    <3>1. h \in 1 .. size
      <4>1. ASSUME h = N
            PROVE  FALSE
        <5>1. now = 1
          BY <1>1, <1>2, <2>1, <4>1, Ranks
        <5>2. ASSUME NEW q, Marks(project, q), rank(q.step) \in Nat, rank(q.step) <= 1
              PROVE  q.writes \cap {"image", "mount", "partial"} = {}
          BY <5>2 DEF Marks
        <5>3. CASE i = N
          <6>1. ops'[i] = o /\ Marks(project, o) /\ rank(o.step) = 1
            BY <1>1, <1>2, <5>1, <5>3
          <6>2. o.writes \cap {"image", "mount", "partial"} = {}
            BY <5>2, <6>1
          <6> QED
            BY <2>1, <6>1, <6>2, Zenon
        <5>4. CASE i \in 1 .. size
          BY <1>1, <1>2, <1>4, <2>1, <5>1, <5>2, <5>4
        <5> QED
          BY <1>1, <5>3, <5>4
      <4> QED
        BY <1>1, <4>1
    <3>2. h \in SP!hashes
      BY <1>1, <1>3, <2>1, <3>1 DEF SP!hashes
    <3>3. CASE i = N
      BY <1>1, <2>1, <3>2, <3>3
    <3>4. CASE i \in 1 .. size
      <4>1. SP!ImageWritesGated
        BY DEF Ordered
      <4>2. SP!hashes \subseteq ops[i].behind
        BY <1>1, <1>3, <2>1, <3>4, <4>1, Zenon DEF SP!ImageWritesGated
      <4> QED
        BY <1>1, <3>2, <3>4, <4>2
    <3> QED
      BY <1>1, <3>3, <3>4
  <2> QED
    BY <1>3, <2>1, Zenon DEF SP!ImageWritesGated, SP!hashes
<1> QED
  BY <1>6, <1>7, <1>8 DEF Ordered

\* The builder appends o, the next operation of the program.
Grows(o) ==
  /\ Building /\ todo # <<>> /\ o \in Operation /\ o.step = Head(todo) /\ Marks(project, o)
  /\ ops' = Append(ops, o) /\ todo' = Tail(todo) /\ project' = project

\* What an append does to everything the invariant is made of.
LEMMA Frame ==
  ASSUME NEW o, Grows(o)
  PROVE  /\ \A t : Writers(t)' = Writers(t) \cup (IF t \in o.writes THEN {size + 1} ELSE {})
         /\ SP!hashes' = SP!hashes \cup (IF o.step = "hash" THEN {size + 1} ELSE {})
         /\ \A k, S : Covers(k, S) => Covers(k, S)'
         /\ \A S : S \subseteq o.behind \cup {size + 1} => \A k : k = size + 1 => Covers(k, S)'
         /\ \A s : Planned(s)' <=> Planned(s) \/ o.step = s
         /\ program' = program /\ size' = size + 1 /\ size \in Nat
         /\ \A i \in 1 .. size : ops'[i] = ops[i]
         /\ ops'[size + 1] = o
<1> DEFINE N == size + 1
<1>1. /\ size' = N /\ size \in Nat /\ ops'[N] = o /\ \A i \in 1 .. size : ops'[i] = ops[i]
      /\ \A i \in 1 .. N : i \in 1 .. size \/ i = N
      /\ 1 .. size \subseteq 1 .. N /\ N \in 1 .. N
  BY Longer DEF Grows, Building
<1>2. SP!ids = 1 .. size /\ SP!ids' = 1 .. N
  BY <1>1 DEF SP!ids, size
<1> HIDE DEF N
<1>3. ASSUME NEW t
      PROVE  Writers(t)' = Writers(t) \cup (IF t \in o.writes THEN {N} ELSE {})
  <2>1. \A i \in 1 .. N : t \in ops'[i].writes <=> (i \in 1 .. size /\ t \in ops[i].writes) \/ (i = N /\ t \in o.writes)
    BY <1>1
  <2> QED
    BY <1>1, <2>1 DEF Writers
<1>4. SP!hashes' = SP!hashes \cup (IF o.step = "hash" THEN {N} ELSE {})
  BY <1>1, <1>2 DEF SP!hashes
<1>5. ASSUME NEW k, NEW S, Covers(k, S)
      PROVE  Covers(k, S)'
  BY <1>1, <1>5 DEF Covers
<1>6. ASSUME NEW S, S \subseteq o.behind \cup {N}
      PROVE  \A k : k = N => Covers(k, S)'
  BY <1>1, <1>6 DEF Covers
<1>7. ASSUME NEW s
      PROVE  Planned(s)' <=> Planned(s) \/ o.step = s
  BY <1>1 DEF Planned
<1>8. program' = program
  BY DEF Grows, program, SP!Program, SP!preparation, SP!integrations, SP!removals, SP!registryEdits,
         SP!lastChanges, SP!publication, SP!mediaImage, SP!isoBuild
<1> QED
  BY <1>1, <1>3, <1>4, <1>5, <1>6, <1>7, <1>8 DEF N

\* An append keeps each part of the invariant, under what that part asks for.
LEMMA LinkedGrows ==
  ASSUME NEW o, Grows(o)
  PROVE  Linked'
<1>1. /\ program' = program /\ size' = size + 1 /\ size \in Nat /\ ops'[size + 1] = o
      /\ \A i \in 1 .. size : ops'[i] = ops[i]
  BY Frame
<1>2. /\ todo \in Seq(Step) /\ todo # <<>> /\ todo' = Tail(todo) /\ o.step = Head(todo)
      /\ Marks(project, o) /\ project' = project /\ Linked
  BY DEF Grows, Building, PlanTyped
<1>3. /\ Len(todo) \in Nat /\ Len(todo) >= 1 /\ Len(todo') = Len(todo) - 1
      /\ \A k \in 1 .. Len(todo') : todo'[k] = todo[k + 1]
      /\ Head(todo) = todo[1]
  BY <1>2
<1>4. /\ size + Len(todo) = Len(program)
      /\ \A k \in 1 .. Len(todo) : todo[k] = program[size + k]
      /\ \A i \in 1 .. size : ops[i].step = program[i] /\ Marks(project, ops[i])
  BY <1>2 DEF Linked
<1>5. size' + Len(todo') = Len(program)
  <2>1. size' = size + 1 /\ size \in Nat /\ Len(todo) \in Nat /\ Len(todo') = Len(todo) - 1
    BY <1>1, <1>3, Zenon
  <2>2. size' + Len(todo') = size + Len(todo)
    BY <2>1
  <2> QED
    BY <1>4, <2>2
<1>6. ASSUME NEW k \in 1 .. Len(todo')
      PROVE  todo'[k] = program[size' + k]
  <2>1. k + 1 \in 1 .. Len(todo) /\ size + (k + 1) = size' + k
    BY <1>1, <1>3
  <2> QED
    BY <1>3, <1>4, <2>1
<1>7. ASSUME NEW i \in 1 .. size'
      PROVE  ops'[i].step = program[i] /\ Marks(project, ops'[i])
  <2>1. CASE i \in 1 .. size
    BY <1>1, <1>4, <2>1
  <2>2. CASE i = size + 1
    <3>1. 1 \in 1 .. Len(todo)
      BY <1>3
    <3> QED
      BY <1>1, <1>2, <1>3, <1>4, <2>2, <3>1
  <2> QED
    BY <1>1, <2>1, <2>2
<1> QED
  BY <1>1, <1>2, <1>5, <1>6, <1>7 DEF Linked

LEMMA ChainedGrows ==
  ASSUME NEW o, Grows(o),
         verificationIds' = verificationIds \cup (IF o.step = "hash" THEN {size + 1} ELSE {}),
         \/ lastMediaWrite' = size + 1 /\ Writers("media") \subseteq o.behind
         \/ lastMediaWrite' = lastMediaWrite /\ "media" \notin o.writes,
         \/ lastImageWrite' = size + 1 /\ Writers("mount") \subseteq o.behind /\ Writers("host") \subseteq o.behind
         \/ lastImageWrite' = lastImageWrite /\ "mount" \notin o.writes /\ "host" \notin o.writes
  PROVE  Chained'
<1>1. /\ verificationIds = SP!hashes /\ Covers(lastMediaWrite, Writers("media"))
      /\ Covers(lastImageWrite, Writers("mount")) /\ Covers(lastImageWrite, Writers("host"))
  BY DEF Grows, Building, Chained
<1>2. verificationIds' = SP!hashes'
  BY <1>1, Frame
<1>3. ASSUME NEW k, NEW m, NEW t, Covers(k, Writers(t)),
             (m = size + 1 /\ Writers(t) \subseteq o.behind) \/ (m = k /\ t \notin o.writes)
      PROVE  \A S : S = Writers(t)' => Covers(m, S)'
  <2>1. Writers(t)' = Writers(t) \cup (IF t \in o.writes THEN {size + 1} ELSE {})
    BY Frame
  <2>2. CASE m = size + 1 /\ Writers(t) \subseteq o.behind
    BY <2>1, <2>2, Frame
  <2>3. CASE m = k /\ t \notin o.writes
    BY <1>3, <2>1, <2>3, Frame
  <2> QED
    BY <1>3, <2>2, <2>3
<1>4. Covers(lastMediaWrite, Writers("media"))'
  BY <1>1, <1>3 DEF Covers
<1>5. Covers(lastImageWrite, Writers("mount"))'
  BY <1>1, <1>3 DEF Covers
<1>6. Covers(lastImageWrite, Writers("host"))'
  BY <1>1, <1>3 DEF Covers
<1> QED
  BY <1>2, <1>4, <1>5, <1>6 DEF Chained

LEMMA PreparedGrows ==
  ASSUME NEW o, Grows(o),
         now <= 7 =>
           \/ imagePreparation' = size + 1 /\ Writers("image") \subseteq o.behind
           \/ imagePreparation' = imagePreparation /\ "image" \notin o.writes /\ o.step # "image"
           \/ now = 2 /\ Has(program, "image")
  PROVE  Prepared'
<1>1. /\ program' = program /\ size' = size + 1 /\ size \in Nat /\ ops'[size + 1] = o
      /\ \A i \in 1 .. size : ops'[i] = ops[i]
      /\ 1 .. size \subseteq 1 .. size' /\ size + 1 \in 1 .. size'
      /\ \A i \in 1 .. size' : i \in 1 .. size \/ i = size + 1
  BY Frame
<1>2. /\ rank(o.step) = now /\ now \in Nat
      /\ \A i \in 1 .. size : rank(ops[i].step) \in Nat /\ rank(ops[i].step) <= now
  <2>1. PlanTyped /\ Linked /\ todo # <<>> /\ rank(o.step) = now
    BY DEF Grows, Building, now
  <2> QED
    BY <2>1, Context, Zenon
<1>3. Prepared
  BY DEF Grows, Building
<1>4. SUFFICES ASSUME Has(program, "image") => Planned("image")', \A i \in 1 .. size' : rank(ops'[i].step) <= 7
               PROVE  Covers(imagePreparation, Writers("image"))'
  BY <1>1 DEF Prepared
<1>5. now <= 7
  BY <1>1, <1>2, <1>4
<1>6. Writers("image")' = Writers("image") \cup (IF "image" \in o.writes THEN {size + 1} ELSE {})
  BY Frame
<1>7. CASE imagePreparation' = size + 1 /\ Writers("image") \subseteq o.behind
  <2>1. \A S : S \subseteq o.behind \cup {size + 1} => \A k : k = size + 1 => Covers(k, S)'
    BY Frame
  <2> QED
    BY <1>6, <1>7, <2>1 DEF Covers
<1>8. CASE imagePreparation' = imagePreparation /\ "image" \notin o.writes /\ o.step # "image"
  <2>1. Has(program, "image") => Planned("image")
    BY <1>4, <1>8, Frame
  <2>2. \A i \in 1 .. size : rank(ops[i].step) <= 7
    BY <1>1, <1>4
  <2>3. Covers(imagePreparation, Writers("image"))
    BY <1>3, <2>1, <2>2 DEF Prepared
  <2>4. Writers("image")' = Writers("image")
    BY <1>6, <1>8
  <2>5. \A k, S : Covers(k, S) => Covers(k, S)'
    BY Frame
  <2> QED
    BY <1>8, <2>3, <2>4, <2>5 DEF Covers
<1>9. CASE now = 2 /\ Has(program, "image")
  <2>1. PICK i \in 1 .. size' : ops'[i].step = "image"
    BY <1>4, <1>9 DEF Planned
  <2>2. rank(ops'[i].step) = 3
    BY <2>1, Ranks
  <2> QED
    BY <1>1, <1>2, <1>9, <2>2
<1> QED
  BY <1>5, <1>7, <1>8, <1>9

LEMMA MountedGrows ==
  ASSUME NEW o, Grows(o),
         now >= 8 =>
           \/ /\ lastImageWrite' = size + 1
              /\ ~project.online => Writers("image") \subseteq o.behind /\ SP!hashes \subseteq o.behind
           \/ lastImageWrite' = lastImageWrite /\ "image" \notin o.writes /\ now # 8
  PROVE  Mounted'
<1>1. /\ size' = size + 1 /\ size \in Nat /\ ops'[size + 1] = o
      /\ \A i \in 1 .. size : ops'[i] = ops[i]
      /\ 1 .. size \subseteq 1 .. size' /\ size + 1 \in 1 .. size'
      /\ \A i \in 1 .. size' : i \in 1 .. size \/ i = size + 1
  BY Frame
<1>2. /\ rank(o.step) = now /\ now \in Nat
      /\ \A i \in 1 .. size : /\ rank(ops[i].step) \in Nat /\ rank(ops[i].step) <= now
                              /\ Fits(project, rank(ops[i].step))
      /\ Fits(project, now)
  <2>1. PlanTyped /\ Linked /\ todo # <<>> /\ rank(o.step) = now
    BY DEF Grows, Building, now
  <2> QED
    BY <2>1, Context, Zenon
<1>3. Mounted
  BY DEF Grows, Building
<1>4. SUFFICES ASSUME Planned("mount")'
               PROVE  /\ Covers(lastImageWrite, Writers("image"))'
                      /\ lastImageWrite' \in 1 .. size' /\ SP!hashes' \subseteq ops'[lastImageWrite'].behind
  BY DEF Mounted
<1>5. /\ Writers("image")' = Writers("image") \cup (IF "image" \in o.writes THEN {size + 1} ELSE {})
      /\ SP!hashes' = SP!hashes \cup (IF o.step = "hash" THEN {size + 1} ELSE {})
  BY Frame
<1>6. now >= 8 /\ ~project.online
  <2>1. CASE o.step = "mount"
    BY <1>2, <2>1, Ranks DEF Fits
  <2>2. CASE Planned("mount")
    <3>1. PICK i \in 1 .. size : ops[i].step = "mount"
      BY <2>2 DEF Planned
    <3>2. 8 <= now /\ Fits(project, 8)
      BY <1>2, <3>1, Ranks
    <3> QED
      BY <1>2, <3>2 DEF Fits
  <2> QED
    BY <1>4, <2>1, <2>2, Frame
<1>7. SP!hashes' = SP!hashes
  <2>1. o.step # "hash"
    BY <1>2, <1>6, Ranks
  <2> QED
    BY <1>5, <2>1
<1>8. CASE /\ lastImageWrite' = size + 1
           /\ Writers("image") \subseteq o.behind /\ SP!hashes \subseteq o.behind
  <2>1. \A S : S \subseteq o.behind \cup {size + 1} => \A k : k = size + 1 => Covers(k, S)'
    BY Frame
  <2>2. Covers(lastImageWrite, Writers("image"))'
    BY <1>5, <1>8, <2>1 DEF Covers
  <2> QED
    BY <1>1, <1>7, <1>8, <2>2
<1>9. CASE lastImageWrite' = lastImageWrite /\ "image" \notin o.writes /\ now # 8
  <2>1. Planned("mount")
    BY <1>2, <1>4, <1>9, Ranks, Frame
  <2>2. /\ Covers(lastImageWrite, Writers("image"))
        /\ lastImageWrite \in 1 .. size /\ SP!hashes \subseteq ops[lastImageWrite].behind
    BY <1>3, <2>1 DEF Mounted
  <2>3. \A k, S : Covers(k, S) => Covers(k, S)'
    BY Frame
  <2>4. Covers(lastImageWrite, Writers("image"))'
    BY <1>5, <1>9, <2>2, <2>3 DEF Covers
  <2> QED
    BY <1>1, <1>7, <1>9, <2>2, <2>4
<1> QED
  BY <1>6, <1>8, <1>9

LEMMA OwedGrows ==
  ASSUME NEW o, Grows(o),
         \A t \in Trees : Owes(project, now, t) => Writers(t) \subseteq o.behind,
         now \in {4, 5} => SP!hashes \subseteq o.behind,
         now = 20 => lastMediaWrite' = size + 1
  PROVE  Owed'
<1>1. size' = size + 1 /\ size \in Nat /\ ops'[size + 1] = o
  BY Frame
<1>2. rank(o.step) = now /\ project' = project
  BY DEF Grows, now
<1>3. ASSUME NEW t \in Trees, Owes(project, now, t)
      PROVE  Covers(size, Writers(t))'
  <2>1. Writers(t)' = Writers(t) \cup (IF t \in o.writes THEN {size + 1} ELSE {})
    BY Frame
  <2>2. \A S : S \subseteq o.behind \cup {size + 1} => \A k : k = size + 1 => Covers(k, S)'
    BY Frame
  <2> QED
    BY <1>1, <1>3, <2>1, <2>2 DEF Covers
<1>4. now \in {4, 5} => SP!hashes' \subseteq o.behind
  <2>1. now \in {4, 5} => o.step # "hash"
    BY <1>2, Ranks
  <2> QED
    BY <2>1, Frame
<1>5. LET q == rank(ops'[size'].step) IN
      /\ \A t \in Trees : Owes(project', q, t) => Covers(size, Writers(t))'
      /\ q \in {4, 5} => SP!hashes' \subseteq ops'[size'].behind
      /\ q = 20 => lastMediaWrite' = size'
  BY <1>1, <1>2, <1>3, <1>4
<1> QED
  BY <1>5 DEF Owed

-----------------------------------------------------------------------------
\* What has to hold of the operation o and of the local variables of build for the
\* invariant to survive.
Keeps(o) ==
  /\ \A t \in o.writes : Writers(t) \subseteq o.behind
  /\ o.step \in SP!Publishing => \A t \in o.reads : Writers(t) \subseteq o.behind
  /\ o.writes \cap {"image", "mount", "partial"} # {} => SP!hashes \subseteq o.behind
  /\ verificationIds' = verificationIds \cup (IF o.step = "hash" THEN {size + 1} ELSE {})
  /\ \/ lastMediaWrite' = size + 1 /\ Writers("media") \subseteq o.behind
     \/ lastMediaWrite' = lastMediaWrite /\ "media" \notin o.writes
  /\ \/ lastImageWrite' = size + 1 /\ Writers("mount") \subseteq o.behind /\ Writers("host") \subseteq o.behind
     \/ lastImageWrite' = lastImageWrite /\ "mount" \notin o.writes /\ "host" \notin o.writes
  /\ now <= 7 => \/ imagePreparation' = size + 1 /\ Writers("image") \subseteq o.behind
                 \/ imagePreparation' = imagePreparation /\ "image" \notin o.writes /\ o.step # "image"
                 \/ now = 2 /\ Has(program, "image")
  /\ now >= 8 => \/ /\ lastImageWrite' = size + 1
                    /\ ~project.online => Writers("image") \subseteq o.behind /\ SP!hashes \subseteq o.behind
                 \/ lastImageWrite' = lastImageWrite /\ "image" \notin o.writes /\ now # 8
  /\ \A t \in Trees : Owes(project, now, t) => Writers(t) \subseteq o.behind
  /\ now \in {4, 5} => SP!hashes \subseteq o.behind
  /\ now = 20 => lastMediaWrite' = size + 1
  /\ mediaPreparation' \in {mediaPreparation, size + 1} /\ imagePreparation' \in {imagePreparation, size + 1}
  /\ lastOutputWrite' \in {lastOutputWrite, size + 1}

\* Such an append keeps the invariant.
LEMMA StepKeeps ==
  ASSUME Ordered, outcome = "building", NEW o, Grows(o), Keeps(o)
  PROVE  PlanInv'
<1>1. /\ PlanTyped /\ Linked /\ todo # <<>> /\ o \in Operation /\ ops' = Append(ops, o)
      /\ o.step = Head(todo) /\ Marks(project, o) /\ todo' = Tail(todo) /\ project' = project
  BY DEF Grows, Building
<1>2. Ordered'
  <2>1. /\ \A t \in o.writes : Writers(t) \subseteq o.behind
        /\ o.step \in SP!Publishing => \A t \in o.reads : Writers(t) \subseteq o.behind
        /\ o.writes \cap {"image", "mount", "partial"} # {} => SP!hashes \subseteq o.behind
    BY Zenon DEF Keeps
  <2> QED
    BY <1>1, <2>1, OrderedGrows
<1>3. PlanTyped'
  <2>1. /\ ops' \in Seq(Operation) /\ size' = size + 1 /\ size \in Nat
    BY <1>1, Longer
  <2>2. todo' \in Seq(Step)
    BY <1>1 DEF PlanTyped
  <2>3. IsProject(project)'
    BY <1>1 DEF PlanTyped, IsProject
  <2>4. /\ mediaPreparation \in 0 .. size /\ imagePreparation \in 0 .. size
        /\ lastMediaWrite \in 0 .. size /\ lastImageWrite \in 0 .. size /\ lastOutputWrite \in 0 .. size
    BY <1>1 DEF PlanTyped
  <2>5. /\ mediaPreparation' \in {mediaPreparation, size + 1}
        /\ imagePreparation' \in {imagePreparation, size + 1}
        /\ lastOutputWrite' \in {lastOutputWrite, size + 1}
        /\ lastMediaWrite' \in {lastMediaWrite, size + 1} /\ lastImageWrite' \in {lastImageWrite, size + 1}
    BY DEF Keeps
  <2>6. /\ mediaPreparation' \in 0 .. size' /\ imagePreparation' \in 0 .. size'
        /\ lastMediaWrite' \in 0 .. size' /\ lastImageWrite' \in 0 .. size' /\ lastOutputWrite' \in 0 .. size'
    BY <2>1, <2>4, <2>5
  <2> QED
    BY <2>1, <2>2, <2>3, <2>6 DEF PlanTyped
<1>4. Linked'
  BY LinkedGrows
<1>5. Chained'
  BY ChainedGrows, Zenon DEF Keeps
<1>6. Prepared'
  BY PreparedGrows, Zenon DEF Keeps
<1>7. Mounted'
  BY MountedGrows, Zenon DEF Keeps
<1>8. Owed'
  BY OwedGrows, Zenon DEF Keeps
<1> QED
  BY <1>2, <1>3, <1>4, <1>5, <1>6, <1>7, <1>8 DEF PlanInv, Building

\* The operation o was just appended with these dependencies and trees.
Grown(o, D, w, rd) ==
  /\ Grows(o) /\ o.step = Head(todo) /\ o.writes = w /\ o.reads = rd
  /\ \A d \in D : d \in 1 .. size => d \in o.behind /\ ops[d].behind \subseteq o.behind
  /\ \A S : (\E d \in D : Covers(d, S)) => S \subseteq o.behind

\* Every Emit is an append of such an operation.
LEMMA Emits ==
  ASSUME Building, todo # <<>>, NEW D \in SUBSET (0 .. size), NEW w \in SUBSET Trees,
         NEW rd \in SUBSET (Trees \cup {"source"}), NEW fl \in {"none", "image", "media"},
         SP!Emit(D, w, rd, fl),
         \A o : o.step = Head(todo) /\ o.writes = w /\ o.reads = rd /\ o.flag = fl => Marks(project, o)
  PROVE  \E o : Grown(o, D, w, rd)
<1> DEFINE o == SP!NewOperation(D, w, rd, fl)
           b == SP!waitsFor(SP!Given(D))
<1>1. o = [step |-> Head(todo), deps |-> SP!Given(D), behind |-> b, writes |-> w, reads |-> rd, flag |-> fl]
  BY DEF SP!NewOperation
<1>2. /\ SP!Given(D) \in SUBSET Nat /\ b \in SUBSET Nat
      /\ \A d \in D : d \in 1 .. size => d \in b /\ ops[d].behind \subseteq b
      /\ \A S : (\E d \in D : Covers(d, S)) => S \subseteq b
  BY Waits DEF Building
<1>3. Head(todo) \in Step
  BY DEF Building, PlanTyped
<1>4. todo' = Tail(todo) /\ ops' = Append(ops, o) /\ project' = project
  BY DEF SP!Emit
<1> HIDE DEF b
<1>5. o \in Operation
  BY <1>1, <1>2, <1>3 DEF Operation
<1>6. o.step = Head(todo) /\ o.writes = w /\ o.reads = rd /\ o.flag = fl /\ o.behind = b
  BY <1>1
<1> HIDE DEF o
<1>7. Marks(project, o)
  BY <1>6
<1>8. Grows(o)
  BY <1>4, <1>5, <1>6, <1>7 DEF Grows
<1> QED
  BY <1>2, <1>6, <1>8, Zenon DEF Grown

\* Who has written what by the time of the steps of some ranks.
LEMMA Fresh ==
  ASSUME Building, todo # <<>>
  PROVE  /\ now <= 2 => Writers("image") = {}
         /\ now = 3 => Writers("image") \subseteq Writers("media")
         /\ now = 3 /\ ~SP!mediaSource(project) => Writers("image") = {}
         /\ now \in 4 .. 6 => Writers("image") = {}
         /\ now <= 4 => Writers("partial") = {}
         /\ now <= 8 => Writers("mount") = {} /\ Writers("host") = {}
         /\ now = 11 \/ now = 19 => Writers("output") = {}
         /\ now = 14 => Writers("intermediary") = {}
         /\ now = 17 => Writers("split") = {}
         /\ now = 23 => Writers("parts") = {}
         /\ now = 26 => Writers("iso") = {}
         /\ project.online => Writers("image") = {} /\ Writers("mount") = {}
<1>1. /\ now \in Nat /\ Fits(project, now)
      /\ \A i \in 1 .. size : /\ rank(ops[i].step) \in Nat /\ rank(ops[i].step) <= now
                              /\ rank(ops[i].step) = now => now \in {1, 9}
                              /\ Fits(project, rank(ops[i].step)) /\ Marks(project, ops[i])
  <2>1. PlanTyped /\ Linked
    BY DEF Building
  <2> QED
    BY <2>1, Context, Zenon DEF Linked
<1>2. ASSUME NEW i \in Writers("image")
      PROVE  /\ i \in 1 .. size /\ rank(ops[i].step) \in Nat /\ rank(ops[i].step) \in {2, 3, 6, 10}
             /\ rank(ops[i].step) \in {2, 3} => ~SP!convertedInput(project)
             /\ rank(ops[i].step) <= now /\ (rank(ops[i].step) = now => now \in {1, 9})
             /\ Fits(project, rank(ops[i].step))
             /\ rank(ops[i].step) = 2 => "media" \in ops[i].writes
  <2>1. i \in 1 .. size /\ "image" \in ops[i].writes /\ Marks(project, ops[i])
    BY <1>1 DEF Writers
  <2> QED
    BY <1>1, <2>1, Zenon DEF Marks
<1>3. now <= 2 => Writers("image") = {}
  BY <1>1, <1>2
<1>4. now = 3 => Writers("image") \subseteq Writers("media")
  BY <1>1, <1>2 DEF Writers
<1>5. now = 3 /\ ~SP!mediaSource(project) => Writers("image") = {}
  <2>1. ASSUME NEW i \in Writers("image"), now = 3
        PROVE  rank(ops[i].step) = 2
    BY <1>2, <2>1
  <2> QED
    BY <1>2, <2>1 DEF Fits
<1>6. now \in 4 .. 6 => Writers("image") = {}
  <2>1. now \in 4 .. 6 => SP!convertedInput(project)
    BY <1>1 DEF Fits
  <2> QED
    BY <1>1, <1>2, <2>1
<1>7. ASSUME NEW t, NEW i \in Writers(t)
      PROVE  /\ i \in 1 .. size /\ rank(ops[i].step) \in Nat
             /\ t = "partial" => rank(ops[i].step) \in {4, 5}
             /\ t = "mount" => rank(ops[i].step) \in {8, 9, 10} /\ ~project.online
             /\ t = "host" => rank(ops[i].step) = 9
             /\ t = "output" => rank(ops[i].step) \in {11, 12, 13, 19}
             /\ t = "intermediary" => rank(ops[i].step) \in {14, 15, 16}
             /\ t = "split" => rank(ops[i].step) \in {17, 18}
             /\ t = "parts" => rank(ops[i].step) \in {23, 24}
             /\ t = "iso" => rank(ops[i].step) \in {26, 27, 28}
             /\ rank(ops[i].step) <= now /\ (rank(ops[i].step) = now => now \in {1, 9})
             /\ Fits(project, rank(ops[i].step))
  <2>1. i \in 1 .. size /\ t \in ops[i].writes /\ Marks(project, ops[i])
    BY <1>1 DEF Writers
  <2> QED
    BY <1>1, <2>1, Zenon DEF Marks
<1>8. now <= 4 => Writers("partial") = {}
  BY <1>1, <1>7
<1>9. now <= 8 => Writers("mount") = {} /\ Writers("host") = {}
  BY <1>1, <1>7
<1>10. now = 11 \/ now = 19 => Writers("output") = {}
  <2>1. ASSUME NEW i \in Writers("output"), now = 11 \/ now = 19
        PROVE  rank(ops[i].step) \in {11, 12, 13} /\ now = 19
    BY <1>7, <2>1
  <2>2. ASSUME NEW i \in Writers("output"), now = 11 \/ now = 19
        PROVE  FALSE
    <3>1. Fits(project, rank(ops[i].step)) /\ Fits(project, 19) /\ rank(ops[i].step) \in 11 .. 13
      BY <1>1, <1>7, <2>1, <2>2
    <3> QED
      BY <3>1 DEF Fits
  <2> QED
    BY <2>2
<1>11. /\ now = 14 => Writers("intermediary") = {}
       /\ now = 17 => Writers("split") = {}
       /\ now = 23 => Writers("parts") = {}
       /\ now = 26 => Writers("iso") = {}
  BY <1>1, <1>7
<1>12. project.online => Writers("image") = {} /\ Writers("mount") = {}
  <2>1. ASSUME NEW i \in Writers("image")
        PROVE  ~project.online
    <3>1. Fits(project, rank(ops[i].step)) /\ rank(ops[i].step) \in 2 .. 8 \cup {10}
      BY <1>2
    <3> QED
      BY <3>1 DEF Fits
  <2> QED
    BY <1>7, <2>1
<1> QED
  BY <1>3, <1>4, <1>5, <1>6, <1>8, <1>9, <1>10, <1>11, <1>12

\* Before the step that comes now.
LEMMA Settled ==
  ASSUME Building, todo # <<>>
  PROVE  /\ now >= 9 => /\ Covers(lastImageWrite, Writers("image"))
                        /\ ~project.online => lastImageWrite \in 1 .. size
                                              /\ SP!hashes \subseteq ops[lastImageWrite].behind
         /\ now = 7 => Covers(imagePreparation, Writers("image"))
         /\ now \in Led(project) =>
              /\ size \in 1 .. size /\ rank(ops[size].step) + 1 = now
              /\ \A t \in Trees : Owes(project, rank(ops[size].step), t) => Covers(size, Writers(t))
              /\ rank(ops[size].step) \in {4, 5} => SP!hashes \subseteq ops[size].behind
              /\ rank(ops[size].step) = 20 => lastMediaWrite = size
<1>1. /\ now \in Nat
      /\ \A i \in 1 .. size : rank(ops[i].step) \in Nat /\ rank(ops[i].step) <= now
      /\ now \in Led(project) => size >= 1 /\ rank(ops[size].step) + 1 = now
      /\ now >= 9 /\ ~project.online => Planned("mount")
      /\ now > 3 /\ Has(program, "image") => Planned("image")
  <2>1. PlanTyped /\ Linked
    BY DEF Building
  <2> QED
    BY <2>1, Context, Zenon
<1>2. ASSUME now >= 9
      PROVE  /\ Covers(lastImageWrite, Writers("image"))
             /\ ~project.online => lastImageWrite \in 1 .. size /\ SP!hashes \subseteq ops[lastImageWrite].behind
  <2>1. CASE project.online
    BY <2>1, Fresh DEF Covers
  <2>2. CASE ~project.online
    BY <1>1, <1>2, <2>2 DEF Building, Mounted
  <2> QED
    BY <2>1, <2>2
<1>3. now = 7 => Covers(imagePreparation, Writers("image"))
  BY <1>1 DEF Building, Prepared
<1>4. ASSUME now \in Led(project)
      PROVE  /\ size \in 1 .. size /\ rank(ops[size].step) + 1 = now
             /\ \A t \in Trees : Owes(project, rank(ops[size].step), t) => Covers(size, Writers(t))
             /\ rank(ops[size].step) \in {4, 5} => SP!hashes \subseteq ops[size].behind
             /\ rank(ops[size].step) = 20 => lastMediaWrite = size
  <2>1. size >= 1 /\ rank(ops[size].step) + 1 = now
    BY <1>1, <1>4
  <2>2. size \in 1 .. size
    BY <2>1 DEF Building, PlanTyped, size
  <2> QED
    BY <2>1, <2>2 DEF Building, Owed
<1> QED
  BY <1>2, <1>3, <1>4

\* The facts every action uses.
LEMMA Basics ==
  ASSUME Building
  PROVE  /\ size \in Nat /\ verificationIds = SP!hashes /\ SP!hashes \in SUBSET (1 .. size)
         /\ verificationIds \in SUBSET (0 .. size) /\ size \in 0 .. size
         /\ mediaPreparation \in 0 .. size /\ imagePreparation \in 0 .. size
         /\ lastMediaWrite \in 0 .. size /\ lastImageWrite \in 0 .. size /\ lastOutputWrite \in 0 .. size
         /\ Covers(lastMediaWrite, Writers("media"))
         /\ Covers(lastImageWrite, Writers("mount")) /\ Covers(lastImageWrite, Writers("host"))
         /\ SP!next = size + 1 /\ SP!ids = 1 .. size
<1>1. size \in Nat /\ PlanTyped /\ Chained
  BY DEF Building, PlanTyped, size
<1>2. SP!ids = 1 .. size /\ SP!next = size + 1
  BY DEF SP!ids, SP!next, size
<1>3. SP!hashes \in SUBSET (1 .. size)
  BY <1>2 DEF SP!hashes
<1>4. 1 .. size \subseteq 0 .. size /\ size \in 0 .. size
  BY <1>1
<1> QED
  BY <1>1, <1>2, <1>3, <1>4 DEF PlanTyped, Chained

\* What waits for the hashes waits for all of them.
LEMMA AfterHashes ==
  ASSUME Building, NEW o, NEW D, NEW w, NEW rd, Grown(o, D, w, rd), verificationIds \subseteq D
  PROVE  SP!hashes \subseteq o.behind
BY Basics DEF Grown

\* Each action keeps the invariant.
LEMMA VerifyInputKeeps ==
  ASSUME Ordered, Building, outcome = "building", SP!VerifyInput
  PROVE  PlanInv'
<1>1. /\ todo # <<>> /\ Head(todo) = "hash" /\ now = 1 /\ SP!Emit({}, {}, {"source"}, "none")
      /\ verificationIds' = verificationIds \cup {SP!next}
      /\ UNCHANGED <<mediaPreparation, imagePreparation, lastMediaWrite, lastImageWrite, lastOutputWrite>>
  BY Ranks DEF SP!VerifyInput, SP!Creates, SP!verified, now
<1>2. PICK o : Grown(o, {}, {}, {"source"})
  <2>1. \A o : o.step = Head(todo) /\ o.writes = {} /\ o.reads = {"source"} /\ o.flag = "none"
          => Marks(project, o)
    BY <1>1, Ranks DEF Marks, SP!Publishing
  <2> QED
    BY <1>1, <2>1, Emits
<1>3. Grows(o) /\ o.step = "hash" /\ o.writes = {}
  BY <1>1, <1>2 DEF Grown
<1>4. \A t : ~Owes(project, 1, t)
  BY DEF Owes
<1>5. Keeps(o)
  BY <1>1, <1>3, <1>4, Basics DEF Keeps, SP!Publishing
<1> QED
  BY <1>3, <1>5, StepKeeps

LEMMA PrepareMediaKeeps ==
  ASSUME Ordered, Building, outcome = "building", SP!PrepareMedia
  PROVE  PlanInv'
<1> DEFINE w == IF SP!imageInMedia THEN {"media", "image"} ELSE {"media"}
           D == verificationIds \cup {lastMediaWrite}
<1>1. /\ todo # <<>> /\ Head(todo) = "media" /\ now = 2 /\ SP!Emit(D, w, {"source"}, "media")
      /\ lastMediaWrite' = SP!next /\ mediaPreparation' = SP!next
      /\ imagePreparation' = IF SP!convertedInput(project) \/ project.external
                             THEN imagePreparation ELSE SP!next
      /\ UNCHANGED <<verificationIds, lastImageWrite, lastOutputWrite>>
      /\ ~SP!rejects(project)
  BY Ranks DEF SP!PrepareMedia, SP!Accepted, SP!Creates, SP!chainMediaWrite, now
<1>2. PICK o : Grown(o, D, w, {"source"})
  <2>1. \A o : o.step = Head(todo) /\ o.writes = w /\ o.reads = {"source"} /\ o.flag = "media"
          => Marks(project, o)
    BY <1>1, Ranks DEF Marks, SP!Publishing, SP!imageInMedia
  <2>2. D \in SUBSET (0 .. size) /\ w \in SUBSET Trees
    BY Basics DEF Trees
  <2> HIDE DEF D, w
  <2> QED
    BY <1>1, <2>1, <2>2, Emits
<1>3. /\ Grows(o) /\ o.step = "media" /\ o.writes = w
      /\ Writers("media") \subseteq o.behind /\ SP!hashes \subseteq o.behind
  <2>1. Grows(o) /\ o.step = "media" /\ o.writes = w
    BY <1>1, <1>2 DEF Grown
  <2>2. Writers("media") \subseteq o.behind
    BY <1>2, Basics DEF Grown
  <2>3. SP!hashes \subseteq o.behind
    BY <1>2, AfterHashes
  <2> QED
    BY <2>1, <2>2, <2>3
<1>4. \A t : ~Owes(project, 2, t)
  BY DEF Owes
<1>5. Writers("image") = {} /\ Fits(project, 2)
  <2>1. Fits(project, now)
    BY <1>1, Context DEF Building
  <2> QED
    BY <1>1, <2>1, Fresh
<1>6. ~SP!convertedInput(project) /\ project.external => Has(program, "image")
  <2>1. ~project.online /\ SP!mediaSource(project)
    BY <1>5 DEF Fits
  <2>2. project.clone
    BY <1>1, <2>1 DEF SP!rejects, SP!sourceErrors
  <2> QED
    BY <2>1, <2>2, ProgramShape DEF Building, PlanTyped, program
<1>7. \/ imagePreparation' = size + 1 /\ Writers("image") \subseteq o.behind
      \/ imagePreparation' = imagePreparation /\ "image" \notin o.writes /\ o.step # "image"
      \/ now = 2 /\ Has(program, "image")
  <2>1. CASE SP!convertedInput(project)
    BY <1>1, <1>3, <2>1 DEF SP!imageInMedia
  <2>2. CASE ~SP!convertedInput(project) /\ project.external
    BY <1>1, <1>6, <2>2
  <2>3. CASE ~SP!convertedInput(project) /\ ~project.external
    BY <1>1, <1>5, <2>3, Basics
  <2> QED
    BY <2>1, <2>2, <2>3
<1>8. Keeps(o)
  BY <1>1, <1>3, <1>4, <1>5, <1>7, Basics DEF Keeps, SP!Publishing
<1> QED
  BY <1>3, <1>8, StepKeeps

LEMMA CloneImageKeeps ==
  ASSUME Ordered, Building, outcome = "building", SP!CloneImage
  PROVE  PlanInv'
<1> DEFINE D == verificationIds \cup {mediaPreparation}
<1>1. /\ todo # <<>> /\ Head(todo) = "image" /\ now = 3
      /\ IF SP!mediaSource(project)
         THEN SP!Emit(D \cup {lastMediaWrite}, {"image"}, {"source"}, "media") /\ lastMediaWrite' = SP!next
         ELSE SP!Emit(D, {"image"}, {"source"}, "image") /\ lastMediaWrite' = lastMediaWrite
      /\ imagePreparation' = SP!next
      /\ UNCHANGED <<verificationIds, mediaPreparation, lastImageWrite, lastOutputWrite>>
  BY Ranks DEF SP!CloneImage, SP!Creates, SP!chainMediaWrite, now
<1>2. Fits(project, 3)
  BY <1>1, Context DEF Building
<1>3. ASSUME NEW fl \in {"media", "image"}
      PROVE  \A o : o.step = Head(todo) /\ o.writes = {"image"} /\ o.reads = {"source"} /\ o.flag = fl
                      => Marks(project, o)
  BY <1>1, <1>2, Ranks DEF Marks, SP!Publishing, Fits
<1>4. \A t : ~Owes(project, 3, t)
  BY DEF Owes
<1>5. D \in SUBSET (0 .. size) /\ D \cup {lastMediaWrite} \in SUBSET (0 .. size) /\ {"image"} \in SUBSET Trees
  BY Basics DEF Trees
<1>6. CASE SP!mediaSource(project)
  <2>1. PICK o : Grown(o, D \cup {lastMediaWrite}, {"image"}, {"source"})
    BY <1>1, <1>3, <1>5, <1>6, Emits
  <2>2. Grows(o) /\ o.step = "image" /\ o.writes = {"image"} /\ Writers("media") \subseteq o.behind
    BY <1>1, <2>1, Basics DEF Grown
  <2>3. SP!hashes \subseteq o.behind
    BY <2>1, AfterHashes
  <2>4. Writers("image") \subseteq o.behind
    BY <1>1, <2>2, Fresh
  <2>5. Keeps(o)
    BY <1>1, <1>4, <1>6, <2>2, <2>3, <2>4, Basics DEF Keeps, SP!Publishing
  <2> QED
    BY <2>2, <2>5, StepKeeps
<1>7. CASE ~SP!mediaSource(project)
  <2>1. PICK o : Grown(o, D, {"image"}, {"source"})
    BY <1>1, <1>3, <1>5, <1>7, Emits
  <2>2. Grows(o) /\ o.step = "image" /\ o.writes = {"image"}
    BY <1>1, <2>1 DEF Grown
  <2>3. SP!hashes \subseteq o.behind
    BY <2>1, AfterHashes
  <2>4. Writers("image") \subseteq o.behind
    BY <1>1, <1>7, Fresh
  <2>5. Keeps(o)
    BY <1>1, <1>4, <1>7, <2>2, <2>3, <2>4, Basics DEF Keeps, SP!Publishing
  <2> QED
    BY <2>2, <2>5, StepKeeps
<1> QED
  BY <1>6, <1>7

\* What the step before owes to a step that only comes right after it.
LEMMA Follows ==
  ASSUME Building, todo # <<>>, now \in Led(project), NEW q \in Nat, q + 1 = now,
         NEW o, NEW D, NEW w, NEW rd, Grown(o, D, w, rd), size \in D
  PROVE  /\ \A t \in Trees : Owes(project, q, t) => Writers(t) \subseteq o.behind
         /\ q \in {4, 5} => SP!hashes \subseteq o.behind
         /\ q = 20 => lastMediaWrite = size
<1>1. /\ size \in 1 .. size /\ rank(ops[size].step) + 1 = now
      /\ \A t \in Trees : Owes(project, rank(ops[size].step), t) => Covers(size, Writers(t))
      /\ rank(ops[size].step) \in {4, 5} => SP!hashes \subseteq ops[size].behind
      /\ rank(ops[size].step) = 20 => lastMediaWrite = size
  BY Settled
<1>2. rank(ops[size].step) = q
  <2>1. rank(ops[size].step) \in Nat
    BY <1>1, Context, Zenon DEF Building
  <2> QED
    BY <1>1, <2>1
<1>3. /\ ops[size].behind \subseteq o.behind
      /\ \A S : Covers(size, S) => S \subseteq o.behind
  BY <1>1 DEF Grown
<1> QED
  BY <1>1, <1>2, <1>3

LEMMA ConvertInputKeeps ==
  ASSUME Ordered, Building, outcome = "building", SP!ConvertInput
  PROVE  PlanInv'
<1> DEFINE D == verificationIds \cup {mediaPreparation}
           rd == IF SP!mediaSource(project) /\ ~project.external THEN {"media"} ELSE {"source"}
<1>1. /\ UNCHANGED <<verificationIds, mediaPreparation, lastMediaWrite, lastImageWrite, lastOutputWrite>>
      /\ todo # <<>>
  BY DEF SP!ConvertInput, SP!Creates
<1>2. CASE SP!Creates("convertClear") /\ SP!Emit(D, {"partial"}, {}, "none") /\ UNCHANGED imagePreparation
  <2>1. Head(todo) = "convertClear" /\ now = 4
    BY <1>2, Ranks DEF SP!Creates, now
  <2>2. PICK o : Grown(o, D, {"partial"}, {})
    <3>1. \A o : o.step = Head(todo) /\ o.writes = {"partial"} /\ o.reads = {} /\ o.flag = "none"
            => Marks(project, o)
      BY <2>1, Ranks DEF Marks, SP!Publishing
    <3>2. D \in SUBSET (0 .. size) /\ {"partial"} \in SUBSET Trees
      BY Basics DEF Trees
    <3> QED
      BY <1>1, <1>2, <3>1, <3>2, Emits
  <2>3. Grows(o) /\ o.step = "convertClear" /\ o.writes = {"partial"}
    BY <2>1, <2>2 DEF Grown
  <2>4. SP!hashes \subseteq o.behind
    BY <2>2, AfterHashes
  <2>5. Writers("partial") = {}
    BY <1>1, <2>1, Fresh
  <2>6. \A t : Owes(project, 4, t) => t = "partial"
    BY DEF Owes
  <2>7. Keeps(o)
    BY <1>1, <1>2, <2>1, <2>3, <2>4, <2>5, <2>6, Basics DEF Keeps, SP!Publishing
  <2> QED
    BY <2>3, <2>7, StepKeeps
<1>3. CASE SP!Creates("convert") /\ SP!Emit({size}, {"partial"}, rd, "none") /\ UNCHANGED imagePreparation
  <2>1. Head(todo) = "convert" /\ now = 5 /\ now \in Led(project)
    BY <1>3, Ranks DEF SP!Creates, now, Led
  <2>2. PICK o : Grown(o, {size}, {"partial"}, rd)
    <3>1. \A o : o.step = Head(todo) /\ o.writes = {"partial"} /\ o.reads = rd /\ o.flag = "none"
            => Marks(project, o)
      BY <2>1, Ranks DEF Marks, SP!Publishing
    <3>2. {size} \in SUBSET (0 .. size) /\ {"partial"} \in SUBSET Trees /\ rd \in SUBSET (Trees \cup {"source"})
      BY Basics DEF Trees
    <3> QED
      BY <1>1, <1>3, <3>1, <3>2, Emits
  <2>3. Grows(o) /\ o.step = "convert" /\ o.writes = {"partial"}
    BY <2>1, <2>2 DEF Grown
  <2>4. Writers("partial") \subseteq o.behind /\ SP!hashes \subseteq o.behind
    <3>1. Owes(project, 4, "partial") /\ "partial" \in Trees /\ 4 \in Nat /\ 4 + 1 = now
      BY <2>1 DEF Owes, Trees
    <3> QED
      BY <1>1, <2>1, <2>2, <3>1, Follows
  <2>6. \A t : Owes(project, 5, t) => t = "partial"
    BY DEF Owes
  <2>7. Keeps(o)
    BY <1>1, <1>3, <2>1, <2>3, <2>4, <2>6, Basics DEF Keeps, SP!Publishing
  <2> QED
    BY <2>3, <2>7, StepKeeps
<1>4. CASE /\ SP!Creates("convertPublish")
           /\ SP!Emit({size}, {"image"}, {"partial"}, "none")
           /\ imagePreparation' = SP!next
  <2>1. Head(todo) = "convertPublish" /\ now = 6 /\ now \in Led(project)
    BY <1>4, Ranks DEF SP!Creates, now, Led
  <2>2. PICK o : Grown(o, {size}, {"image"}, {"partial"})
    <3>1. \A o : o.step = Head(todo) /\ o.writes = {"image"} /\ o.reads = {"partial"} /\ o.flag = "none"
            => Marks(project, o)
      BY <2>1, Ranks DEF Marks, SP!Publishing
    <3>2. /\ {size} \in SUBSET (0 .. size)
          /\ {"image"} \in SUBSET Trees
          /\ {"partial"} \in SUBSET (Trees \cup {"source"})
      BY Basics DEF Trees
    <3> QED
      BY <1>1, <1>4, <3>1, <3>2, Emits
  <2>3. Grows(o) /\ o.step = "convertPublish" /\ o.writes = {"image"}
    BY <2>1, <2>2 DEF Grown
  <2>4. SP!hashes \subseteq o.behind
    <3>1. 5 \in Nat /\ 5 + 1 = now
      BY <2>1
    <3> QED
      BY <1>1, <2>1, <2>2, <3>1, Follows
  <2>5. Writers("image") = {}
    BY <1>1, <2>1, Fresh
  <2>6. \A t : ~Owes(project, 6, t)
    BY DEF Owes
  <2>7. Keeps(o)
    BY <1>1, <1>4, <2>1, <2>3, <2>4, <2>5, <2>6, Basics DEF Keeps, SP!Publishing
  <2> QED
    BY <2>3, <2>7, StepKeeps
<1> QED
  BY <1>2, <1>3, <1>4 DEF SP!ConvertInput, SP!follow, size

LEMMA InspectKeeps ==
  ASSUME Ordered, Building, outcome = "building", SP!Inspect
  PROVE  PlanInv'
<1> DEFINE D == verificationIds \cup {imagePreparation}
<1>1. /\ todo # <<>> /\ Head(todo) = "inspect" /\ now = 7 /\ SP!Emit(D, {}, {"image"}, "none")
      /\ UNCHANGED <<verificationIds, mediaPreparation, imagePreparation, lastMediaWrite, lastImageWrite, lastOutputWrite>>
  BY Ranks DEF SP!Inspect, SP!Creates, SP!builder, now
<1>2. PICK o : Grown(o, D, {}, {"image"})
  <2>1. \A o : o.step = Head(todo) /\ o.writes = {} /\ o.reads = {"image"} /\ o.flag = "none"
          => Marks(project, o)
    BY <1>1, Ranks DEF Marks, SP!Publishing
  <2>2. D \in SUBSET (0 .. size) /\ {"image"} \in SUBSET (Trees \cup {"source"})
    BY Basics DEF Trees
  <2> QED
    BY <1>1, <2>1, <2>2, Emits
<1>3. Grows(o) /\ o.step = "inspect" /\ o.writes = {}
  BY <1>1, <1>2 DEF Grown
<1>4. Writers("image") \subseteq o.behind
  BY <1>1, <1>2, Settled DEF Grown
<1>5. \A t : Owes(project, 7, t) => t = "image"
  BY DEF Owes
<1>6. Keeps(o)
  BY <1>1, <1>3, <1>4, <1>5, Basics DEF Keeps, SP!Publishing
<1> QED
  BY <1>3, <1>6, StepKeeps

LEMMA MountKeeps ==
  ASSUME Ordered, Building, outcome = "building", SP!Mount
  PROVE  PlanInv'
<1> DEFINE D == verificationIds \cup {size} \cup {lastImageWrite}
<1>1. /\ todo # <<>> /\ Head(todo) = "mount" /\ now = 8 /\ now \in Led(project)
      /\ SP!Emit(D, {"mount"}, {}, "image") /\ lastImageWrite' = SP!next
      /\ UNCHANGED <<verificationIds, mediaPreparation, imagePreparation, lastMediaWrite, lastOutputWrite>>
  BY Ranks DEF SP!Mount, SP!Creates, SP!chainImageWrite, now, size, Led
<1>2. PICK o : Grown(o, D, {"mount"}, {})
  <2>1. Fits(project, 8)
    BY <1>1, Context DEF Building
  <2>2. \A o : o.step = Head(todo) /\ o.writes = {"mount"} /\ o.reads = {} /\ o.flag = "image"
          => Marks(project, o)
    BY <1>1, <2>1, Ranks DEF Marks, SP!Publishing, Fits
  <2>3. D \in SUBSET (0 .. size) /\ {"mount"} \in SUBSET Trees
    BY Basics DEF Trees
  <2> QED
    BY <1>1, <2>2, <2>3, Emits
<1>3. Grows(o) /\ o.step = "mount" /\ o.writes = {"mount"}
  BY <1>1, <1>2 DEF Grown
<1>4. Writers("image") \subseteq o.behind
  <2>1. Owes(project, 7, "image") /\ "image" \in Trees /\ 7 \in Nat /\ 7 + 1 = now /\ size \in D
    BY <1>1 DEF Owes, Trees
  <2> QED
    BY <1>1, <1>2, <2>1, Follows
<1>5. SP!hashes \subseteq o.behind
  BY <1>2, AfterHashes
<1>6. Writers("mount") = {} /\ Writers("host") = {}
  BY <1>1, Fresh
<1>7. \A t : ~Owes(project, 8, t)
  BY DEF Owes
<1>8. Keeps(o)
  BY <1>1, <1>3, <1>4, <1>5, <1>6, <1>7, Basics DEF Keeps, SP!Publishing
<1> QED
  BY <1>3, <1>8, StepKeeps

\* A change of the image or of the running system, chained to the last.
LEMMA ChangeKeeps ==
  ASSUME Ordered, Building, outcome = "building", todo # <<>>, Head(todo) \in Edits \cup {"unmount"},
         NEW D \in SUBSET (0 .. size), lastImageWrite \in D,
         NEW w \in SUBSET {"mount", "host", "image"}, NEW fl \in {"image", "none"}, SP!Emit(D, w, {}, fl),
         "mount" \in w => ~project.online, "host" \in w => now = 9,
         "image" \in w => now = 10 /\ fl = "image",
         w \cap {"mount", "image"} # {} => ~project.online,
         lastImageWrite' = SP!next, lastOutputWrite' \in {lastOutputWrite, SP!next},
         UNCHANGED <<verificationIds, mediaPreparation, imagePreparation, lastMediaWrite>>
  PROVE  PlanInv'
<1>1. now \in {9, 10} /\ Head(todo) # "hash" /\ Head(todo) \notin SP!Publishing
  BY Ranks DEF now, Edits, SP!Publishing
<1>2. PICK o : Grown(o, D, w, {})
  <2>1. \A o : o.step = Head(todo) /\ o.writes = w /\ o.reads = {} /\ o.flag = fl => Marks(project, o)
    BY <1>1 DEF Marks, now
  <2>2. w \in SUBSET Trees
    BY DEF Trees
  <2> QED
    BY <2>1, <2>2, Emits
<1>3. Grows(o) /\ o.step = Head(todo) /\ o.writes = w
  BY <1>2 DEF Grown
<1>4. /\ Writers("image") \subseteq o.behind
      /\ Writers("mount") \subseteq o.behind
      /\ Writers("host") \subseteq o.behind
      /\ ~project.online => SP!hashes \subseteq o.behind
  BY <1>1, <1>2, Settled, Basics DEF Grown
<1>5. \A t : ~Owes(project, 9, t) /\ ~Owes(project, 10, t)
  BY DEF Owes
<1>6. \A t \in o.writes : Writers(t) \subseteq o.behind
  BY <1>3, <1>4
<1>7. /\ o.writes \cap {"image", "mount", "partial"} # {} => SP!hashes \subseteq o.behind
      /\ "media" \notin o.writes
  BY <1>3, <1>4
<1>8. \A t \in Trees : ~Owes(project, now, t)
  BY <1>1, <1>5
<1>9. Keeps(o)
  BY <1>1, <1>3, <1>4, <1>6, <1>7, <1>8, Basics DEF Keeps
<1> QED
  BY <1>3, <1>9, StepKeeps

\* A change of the media tree between the mount and the unmount.
LEMMA MediaChangeKeeps ==
  ASSUME Ordered, Building, outcome = "building", todo # <<>>, Head(todo) \in Edits,
         NEW D \in SUBSET (0 .. size), lastMediaWrite \in D, SP!Emit(D, {"media"}, {}, "media"),
         lastMediaWrite' = SP!next,
         UNCHANGED <<verificationIds, mediaPreparation, imagePreparation, lastImageWrite, lastOutputWrite>>
  PROVE  PlanInv'
<1>1. now = 9 /\ Head(todo) # "hash" /\ Head(todo) \notin SP!Publishing
  BY Ranks DEF now, Edits, SP!Publishing
<1>2. PICK o : Grown(o, D, {"media"}, {})
  <2>1. \A o : o.step = Head(todo) /\ o.writes = {"media"} /\ o.reads = {} /\ o.flag = "media"
          => Marks(project, o)
    BY <1>1 DEF Marks, now
  <2>2. {"media"} \in SUBSET Trees
    BY DEF Trees
  <2> QED
    BY <2>1, <2>2, Emits
<1>3. Grows(o) /\ o.step = Head(todo) /\ o.writes = {"media"}
  BY <1>2 DEF Grown
<1>4. Writers("media") \subseteq o.behind
  BY <1>2, Basics DEF Grown
<1>5. \A t : ~Owes(project, 9, t)
  BY DEF Owes
<1>6. Keeps(o)
  BY <1>1, <1>3, <1>4, <1>5, Basics DEF Keeps
<1> QED
  BY <1>3, <1>6, StepKeeps

LEMMA EditsKeep ==
  ASSUME Ordered, Building, outcome = "building",
         SP!ChangeTarget \/ SP!EditHostRegistry \/ SP!StageFile \/ SP!RemoveMediaAnswer \/ SP!Unmount
  PROVE  PlanInv'
<1>1. CASE SP!ChangeTarget
  <2>1. /\ todo # <<>> /\ Head(todo) \in Edits /\ now = 9
        /\ SP!Emit({} \cup {lastImageWrite}, SP!target, {}, "image") /\ lastImageWrite' = SP!next
        /\ UNCHANGED <<verificationIds, mediaPreparation, imagePreparation, lastMediaWrite, lastOutputWrite>>
    BY <1>1, Ranks DEF SP!ChangeTarget, SP!Creates, SP!chainImageWrite, Edits, now
  <2>2. /\ {} \cup {lastImageWrite} \in SUBSET (0 .. size) /\ SP!target \in SUBSET {"mount", "host", "image"}
        /\ "mount" \in SP!target => ~project.online
        /\ "image" \notin SP!target
    BY Basics DEF SP!target
  <2> QED
    BY <2>1, <2>2, ChangeKeeps
<1>2. CASE SP!EditHostRegistry
  <2>1. /\ todo # <<>> /\ Head(todo) \in Edits /\ now = 9
        /\ SP!Emit({lastImageWrite}, {"host"}, {}, "none") /\ lastImageWrite' = SP!next
        /\ UNCHANGED <<verificationIds, mediaPreparation, imagePreparation, lastMediaWrite, lastOutputWrite>>
    BY <1>2, Ranks DEF SP!EditHostRegistry, SP!Creates, Edits, now
  <2>2. {lastImageWrite} \in SUBSET (0 .. size)
    BY Basics
  <2> QED
    BY <2>1, <2>2, ChangeKeeps
<1>3. CASE SP!StageFile /\ SP!Creates("stageImage")
  <2>1. /\ todo # <<>> /\ Head(todo) = "stageImage" /\ Head(todo) \in Edits /\ now = 9
    BY <1>3, Ranks DEF SP!Creates, Edits, now
  <2>2. /\ SP!Emit(verificationIds \cup {lastImageWrite}, SP!target, {}, "image") /\ lastImageWrite' = SP!next
        /\ UNCHANGED <<verificationIds, mediaPreparation, imagePreparation, lastMediaWrite, lastOutputWrite>>
    BY <1>3, <2>1 DEF SP!StageFile, SP!Creates, SP!chainImageWrite
  <2>3. /\ verificationIds \cup {lastImageWrite} \in SUBSET (0 .. size)
        /\ SP!target \in SUBSET {"mount", "host", "image"}
        /\ "mount" \in SP!target => ~project.online
        /\ "image" \notin SP!target
    BY Basics DEF SP!target
  <2> QED
    BY <2>1, <2>2, <2>3, ChangeKeeps
<1>4. CASE SP!StageFile /\ SP!Creates("stageMedia")
  <2>1. /\ todo # <<>> /\ Head(todo) = "stageMedia" /\ Head(todo) \in Edits
    BY <1>4 DEF SP!Creates, Edits
  <2>2. /\ SP!Emit(verificationIds \cup {mediaPreparation} \cup {lastMediaWrite}, {"media"}, {}, "media")
        /\ lastMediaWrite' = SP!next
        /\ UNCHANGED <<verificationIds, mediaPreparation, imagePreparation, lastImageWrite, lastOutputWrite>>
    BY <1>4, <2>1 DEF SP!StageFile, SP!Creates, SP!chainMediaWrite
  <2>3. verificationIds \cup {mediaPreparation} \cup {lastMediaWrite} \in SUBSET (0 .. size)
    BY Basics
  <2> QED
    BY <2>1, <2>2, <2>3, MediaChangeKeeps
<1>5. CASE SP!RemoveMediaAnswer
  <2>1. /\ todo # <<>> /\ Head(todo) \in Edits
        /\ SP!Emit({mediaPreparation} \cup {lastMediaWrite}, {"media"}, {}, "media")
        /\ lastMediaWrite' = SP!next
        /\ UNCHANGED <<verificationIds, mediaPreparation, imagePreparation, lastImageWrite, lastOutputWrite>>
    BY <1>5 DEF SP!RemoveMediaAnswer, SP!Creates, SP!chainMediaWrite, Edits
  <2>2. {mediaPreparation} \cup {lastMediaWrite} \in SUBSET (0 .. size)
    BY Basics
  <2> QED
    BY <2>1, <2>2, MediaChangeKeeps
<1>6. CASE SP!Unmount
  <2> DEFINE w == {"mount"} \cup IF project.discard THEN {} ELSE {"image"}
  <2>1. /\ todo # <<>> /\ Head(todo) = "unmount" /\ now = 10
        /\ SP!Emit({} \cup {lastImageWrite}, w, {}, "image") /\ lastImageWrite' = SP!next
        /\ lastOutputWrite' = SP!next
        /\ UNCHANGED <<verificationIds, mediaPreparation, imagePreparation, lastMediaWrite>>
    BY <1>6, Ranks DEF SP!Unmount, SP!Creates, SP!chainImageWrite, now
  <2>2. Fits(project, 10)
    BY <2>1, Context DEF Building
  <2>3. ~project.online
    BY <2>2 DEF Fits
  <2>4. /\ {} \cup {lastImageWrite} \in SUBSET (0 .. size)
        /\ w \in SUBSET {"mount", "host", "image"}
        /\ "host" \notin w
    BY Basics
  <2> HIDE DEF w
  <2> QED
    BY <2>1, <2>3, <2>4, ChangeKeeps
<1> QED
  BY <1>1, <1>2, <1>3, <1>4, <1>5, <1>6 DEF SP!StageFile

\* A step of the publication: it writes no image, and changes lastMediaWrite if it
\* writes the media.
LEMMA OutputKeeps ==
  ASSUME Ordered, Building, outcome = "building", todo # <<>>, now \in 11 .. 28,
         NEW D \in SUBSET (0 .. size),
         NEW w \in SUBSET {"media", "output", "intermediary", "split", "parts", "iso"},
         NEW rd \in SUBSET Trees, NEW fl \in {"none", "media"}, SP!Emit(D, w, rd, fl),
         \A o : o.step = Head(todo) /\ o.writes = w /\ o.reads = rd /\ o.flag = fl => Marks(project, o),
         \A o : Grown(o, D, w, rd) =>
           /\ \A t \in w : Writers(t) \subseteq o.behind
           /\ Head(todo) \in SP!Publishing => \A t \in rd : Writers(t) \subseteq o.behind
           /\ \A t \in Trees : Owes(project, now, t) => Writers(t) \subseteq o.behind,
         \/ "media" \in w /\ lastMediaWrite' = SP!next
         \/ "media" \notin w /\ lastMediaWrite' = lastMediaWrite /\ now # 20,
         lastOutputWrite' \in {lastOutputWrite, SP!next},
         UNCHANGED <<verificationIds, mediaPreparation, imagePreparation, lastImageWrite>>
  PROVE  PlanInv'
<1>1. Head(todo) # "hash" /\ ~(now <= 7) /\ now >= 8 /\ now # 8 /\ now \notin {4, 5}
  BY Ranks DEF now
<1>2. PICK o : Grown(o, D, w, rd)
  <2>1. w \in SUBSET Trees /\ rd \in SUBSET (Trees \cup {"source"})
    BY DEF Trees
  <2> QED
    BY <2>1, Emits
<1>3. Grows(o) /\ o.step = Head(todo) /\ o.writes = w /\ o.reads = rd
  BY <1>2 DEF Grown
<1>4. /\ \A t \in w : Writers(t) \subseteq o.behind
      /\ Head(todo) \in SP!Publishing => \A t \in rd : Writers(t) \subseteq o.behind
      /\ \A t \in Trees : Owes(project, now, t) => Writers(t) \subseteq o.behind
  BY <1>2
<1>5. SP!next = size + 1
  BY Basics
<1>6. w \cap {"image", "mount", "partial"} = {} /\ "image" \notin w /\ "mount" \notin w /\ "host" \notin w
  OBVIOUS
<1>7. \/ lastMediaWrite' = size + 1 /\ Writers("media") \subseteq o.behind
      \/ lastMediaWrite' = lastMediaWrite /\ "media" \notin o.writes
  BY <1>3, <1>4, <1>5
<1>8. Keeps(o)
  BY <1>1, <1>3, <1>4, <1>5, <1>6, <1>7 DEF Keeps
<1> QED
  BY <1>3, <1>8, StepKeeps

LEMMA ExportImageKeeps ==
  ASSUME Ordered, Building, outcome = "building", SP!ExportImage
  PROVE  PlanInv'
<1>1. todo # <<>> /\ UNCHANGED <<verificationIds, mediaPreparation, imagePreparation, lastImageWrite>>
  BY DEF SP!ExportImage, SP!Creates, SP!builder
<1>2. CASE /\ SP!Creates("exportClear")
           /\ SP!Emit({lastImageWrite}, {"output"}, {}, "none")
           /\ lastMediaWrite' = lastMediaWrite
           /\ lastOutputWrite' = lastOutputWrite
  <2>1. Head(todo) = "exportClear" /\ now = 11
    BY <1>2, Ranks DEF SP!Creates, now
  <2>2. \A o : o.step = Head(todo) /\ o.writes = {"output"} /\ o.reads = {} /\ o.flag = "none"
          => Marks(project, o)
    BY <2>1, Ranks DEF Marks, SP!Publishing
  <2>3. {lastImageWrite} \in SUBSET (0 .. size) /\ {"output"} \in SUBSET Trees /\ {} \in SUBSET Trees
    BY Basics DEF Trees
  <2>4. ASSUME NEW o, Grown(o, {lastImageWrite}, {"output"}, {})
        PROVE  Writers("image") \subseteq o.behind /\ Writers("output") \subseteq o.behind
    <3>4. Writers("image") \subseteq o.behind
      BY <1>1, <2>1, <2>4, Settled, Basics DEF Grown
    <3>5. Writers("output") = {}
      BY <1>1, <2>1, Fresh
    <3> QED
      BY <3>4, <3>5
  <2>5. \A t : Owes(project, 11, t) => t \in {"image", "output"}
    BY DEF Owes
  <2>6. now \in 11 .. 28 /\ Head(todo) \notin SP!Publishing
    BY <2>1 DEF SP!Publishing
  <2>7. \A o : Grown(o, {lastImageWrite}, {"output"}, {}) =>
          /\ \A t \in {"output"} : Writers(t) \subseteq o.behind
          /\ Head(todo) \in SP!Publishing => \A t \in {} : Writers(t) \subseteq o.behind
          /\ \A t \in Trees : Owes(project, now, t) => Writers(t) \subseteq o.behind
    BY <2>1, <2>4, <2>5, <2>6
  <2>8. /\ {"output"} \in SUBSET {"media", "output", "intermediary", "split", "parts", "iso"}
        /\ \/ "media" \in {"output"} /\ lastMediaWrite' = SP!next
           \/ "media" \notin {"output"} /\ lastMediaWrite' = lastMediaWrite /\ now # 20
    BY <1>2, <2>1
  <2> QED
    BY <1>1, <1>2, <2>2, <2>3, <2>6, <2>7, <2>8, OutputKeeps
<1>3. CASE /\ SP!Creates("export")
           /\ SP!Emit({size}, {"output"}, {"image"}, "none")
           /\ lastMediaWrite' = lastMediaWrite
           /\ lastOutputWrite' = lastOutputWrite
  <2>1. Head(todo) = "export" /\ now = 12
    BY <1>3, Ranks DEF SP!Creates, now
  <2>2. \A o : o.step = Head(todo) /\ o.writes = {"output"} /\ o.reads = {"image"} /\ o.flag = "none"
          => Marks(project, o)
    BY <2>1, Ranks DEF Marks, SP!Publishing
  <2>3. {size} \in SUBSET (0 .. size) /\ {"output"} \in SUBSET Trees /\ {"image"} \in SUBSET Trees
    BY Basics DEF Trees
  <2>4. ASSUME NEW o, Grown(o, {size}, {"output"}, {"image"})
        PROVE  Writers("image") \subseteq o.behind /\ Writers("output") \subseteq o.behind
    <3>1. now \in Led(project) /\ size \in {size}
      BY <2>1 DEF Led
    <3>2. /\ 11 \in Nat
          /\ 11 + 1 = now
          /\ Owes(project, 11, "image")
          /\ "image" \in Trees
          /\ Owes(project, 11, "output")
          /\ "output" \in Trees
      BY <2>1 DEF Owes, Trees
    <3>3. Writers("image") \subseteq o.behind /\ Writers("output") \subseteq o.behind
      BY <1>1, <2>4, <3>1, <3>2, Follows
    <3> QED
      BY <3>3
  <2>5. \A t : Owes(project, 12, t) => t \in {"output"}
    BY DEF Owes
  <2>6. now \in 11 .. 28
    BY <2>1 DEF SP!Publishing
  <2>7. \A o : Grown(o, {size}, {"output"}, {"image"}) =>
          /\ \A t \in {"output"} : Writers(t) \subseteq o.behind
          /\ Head(todo) \in SP!Publishing => \A t \in {"image"} : Writers(t) \subseteq o.behind
          /\ \A t \in Trees : Owes(project, now, t) => Writers(t) \subseteq o.behind
    BY <2>1, <2>4, <2>5, <2>6
  <2>8. /\ {"output"} \in SUBSET {"media", "output", "intermediary", "split", "parts", "iso"}
        /\ \/ "media" \in {"output"} /\ lastMediaWrite' = SP!next
           \/ "media" \notin {"output"} /\ lastMediaWrite' = lastMediaWrite /\ now # 20
    BY <1>3, <2>1
  <2> QED
    BY <1>1, <1>3, <2>2, <2>3, <2>6, <2>7, <2>8, OutputKeeps
<1>4. CASE /\ SP!Creates("exportPublish")
           /\ SP!Emit({size}, {"output"}, {}, "none")
           /\ lastMediaWrite' = lastMediaWrite
           /\ lastOutputWrite' = SP!next
  <2>1. Head(todo) = "exportPublish" /\ now = 13
    BY <1>4, Ranks DEF SP!Creates, now
  <2>2. \A o : o.step = Head(todo) /\ o.writes = {"output"} /\ o.reads = {} /\ o.flag = "none"
          => Marks(project, o)
    BY <2>1, Ranks DEF Marks, SP!Publishing
  <2>3. {size} \in SUBSET (0 .. size) /\ {"output"} \in SUBSET Trees /\ {} \in SUBSET Trees
    BY Basics DEF Trees
  <2>4. ASSUME NEW o, Grown(o, {size}, {"output"}, {})
        PROVE  Writers("output") \subseteq o.behind
    <3>1. now \in Led(project) /\ size \in {size}
      BY <2>1 DEF Led
    <3>2. 12 \in Nat /\ 12 + 1 = now /\ Owes(project, 12, "output") /\ "output" \in Trees
      BY <2>1 DEF Owes, Trees
    <3>3. Writers("output") \subseteq o.behind
      BY <1>1, <2>4, <3>1, <3>2, Follows
    <3> QED
      BY <3>3
  <2>5. \A t : Owes(project, 13, t) => t \in {}
    BY DEF Owes
  <2>6. now \in 11 .. 28 /\ Head(todo) \notin SP!Publishing
    BY <2>1 DEF SP!Publishing
  <2>7. \A o : Grown(o, {size}, {"output"}, {}) =>
          /\ \A t \in {"output"} : Writers(t) \subseteq o.behind
          /\ Head(todo) \in SP!Publishing => \A t \in {} : Writers(t) \subseteq o.behind
          /\ \A t \in Trees : Owes(project, now, t) => Writers(t) \subseteq o.behind
    BY <2>1, <2>4, <2>5, <2>6
  <2>8. /\ {"output"} \in SUBSET {"media", "output", "intermediary", "split", "parts", "iso"}
        /\ \/ "media" \in {"output"} /\ lastMediaWrite' = SP!next
           \/ "media" \notin {"output"} /\ lastMediaWrite' = lastMediaWrite /\ now # 20
    BY <1>4, <2>1
  <2> QED
    BY <1>1, <1>4, <2>2, <2>3, <2>6, <2>7, <2>8, OutputKeeps
<1> QED
  BY <1>2, <1>3, <1>4 DEF SP!ExportImage, SP!follow, SP!builder, size

LEMMA ExportForSplitKeeps ==
  ASSUME Ordered, Building, outcome = "building", SP!ExportForSplit
  PROVE  PlanInv'
<1>1. todo # <<>> /\ UNCHANGED <<verificationIds, mediaPreparation, imagePreparation, lastImageWrite>>
  BY DEF SP!ExportForSplit, SP!Creates, SP!builder
<1>2. CASE /\ SP!Creates("wimClear")
           /\ SP!Emit({lastImageWrite}, {"intermediary"}, {}, "none")
           /\ lastMediaWrite' = lastMediaWrite
           /\ lastOutputWrite' = lastOutputWrite
  <2>1. Head(todo) = "wimClear" /\ now = 14
    BY <1>2, Ranks DEF SP!Creates, now
  <2>2. \A o : o.step = Head(todo) /\ o.writes = {"intermediary"} /\ o.reads = {} /\ o.flag = "none"
          => Marks(project, o)
    BY <2>1, Ranks DEF Marks, SP!Publishing
  <2>3. {lastImageWrite} \in SUBSET (0 .. size) /\ {"intermediary"} \in SUBSET Trees /\ {} \in SUBSET Trees
    BY Basics DEF Trees
  <2>4. ASSUME NEW o, Grown(o, {lastImageWrite}, {"intermediary"}, {})
        PROVE  Writers("image") \subseteq o.behind /\ Writers("intermediary") \subseteq o.behind
    <3>4. Writers("image") \subseteq o.behind
      BY <1>1, <2>1, <2>4, Settled, Basics DEF Grown
    <3>5. Writers("intermediary") = {}
      BY <1>1, <2>1, Fresh
    <3> QED
      BY <3>4, <3>5
  <2>5. \A t : Owes(project, 14, t) => t \in {"image", "intermediary"}
    BY DEF Owes
  <2>6. now \in 11 .. 28 /\ Head(todo) \notin SP!Publishing
    BY <2>1 DEF SP!Publishing
  <2>7. \A o : Grown(o, {lastImageWrite}, {"intermediary"}, {}) =>
          /\ \A t \in {"intermediary"} : Writers(t) \subseteq o.behind
          /\ Head(todo) \in SP!Publishing => \A t \in {} : Writers(t) \subseteq o.behind
          /\ \A t \in Trees : Owes(project, now, t) => Writers(t) \subseteq o.behind
    BY <2>1, <2>4, <2>5, <2>6
  <2>8. /\ {"intermediary"} \in SUBSET {"media", "output", "intermediary", "split", "parts", "iso"}
        /\ \/ "media" \in {"intermediary"} /\ lastMediaWrite' = SP!next
           \/ "media" \notin {"intermediary"} /\ lastMediaWrite' = lastMediaWrite /\ now # 20
    BY <1>2, <2>1
  <2> QED
    BY <1>1, <1>2, <2>2, <2>3, <2>6, <2>7, <2>8, OutputKeeps
<1>3. CASE /\ SP!Creates("wimExport")
           /\ SP!Emit({size}, {"intermediary"}, {"image"}, "none")
           /\ lastMediaWrite' = lastMediaWrite
           /\ lastOutputWrite' = lastOutputWrite
  <2>1. Head(todo) = "wimExport" /\ now = 15
    BY <1>3, Ranks DEF SP!Creates, now
  <2>2. \A o : o.step = Head(todo) /\ o.writes = {"intermediary"} /\ o.reads = {"image"} /\ o.flag = "none"
          => Marks(project, o)
    BY <2>1, Ranks DEF Marks, SP!Publishing
  <2>3. {size} \in SUBSET (0 .. size) /\ {"intermediary"} \in SUBSET Trees /\ {"image"} \in SUBSET Trees
    BY Basics DEF Trees
  <2>4. ASSUME NEW o, Grown(o, {size}, {"intermediary"}, {"image"})
        PROVE  Writers("image") \subseteq o.behind /\ Writers("intermediary") \subseteq o.behind
    <3>1. now \in Led(project) /\ size \in {size}
      BY <2>1 DEF Led
    <3>2. /\ 14 \in Nat
          /\ 14 + 1 = now
          /\ Owes(project, 14, "image")
          /\ "image" \in Trees
          /\ Owes(project, 14, "intermediary")
          /\ "intermediary" \in Trees
      BY <2>1 DEF Owes, Trees
    <3>3. Writers("image") \subseteq o.behind /\ Writers("intermediary") \subseteq o.behind
      BY <1>1, <2>4, <3>1, <3>2, Follows
    <3> QED
      BY <3>3
  <2>5. \A t : Owes(project, 15, t) => t \in {"intermediary"}
    BY DEF Owes
  <2>6. now \in 11 .. 28
    BY <2>1 DEF SP!Publishing
  <2>7. \A o : Grown(o, {size}, {"intermediary"}, {"image"}) =>
          /\ \A t \in {"intermediary"} : Writers(t) \subseteq o.behind
          /\ Head(todo) \in SP!Publishing => \A t \in {"image"} : Writers(t) \subseteq o.behind
          /\ \A t \in Trees : Owes(project, now, t) => Writers(t) \subseteq o.behind
    BY <2>1, <2>4, <2>5, <2>6
  <2>8. /\ {"intermediary"} \in SUBSET {"media", "output", "intermediary", "split", "parts", "iso"}
        /\ \/ "media" \in {"intermediary"} /\ lastMediaWrite' = SP!next
           \/ "media" \notin {"intermediary"} /\ lastMediaWrite' = lastMediaWrite /\ now # 20
    BY <1>3, <2>1
  <2> QED
    BY <1>1, <1>3, <2>2, <2>3, <2>6, <2>7, <2>8, OutputKeeps
<1>4. CASE /\ SP!Creates("wimPublish")
           /\ SP!Emit({size}, {"intermediary"}, {}, "none")
           /\ lastMediaWrite' = lastMediaWrite
           /\ lastOutputWrite' = lastOutputWrite
  <2>1. Head(todo) = "wimPublish" /\ now = 16
    BY <1>4, Ranks DEF SP!Creates, now
  <2>2. \A o : o.step = Head(todo) /\ o.writes = {"intermediary"} /\ o.reads = {} /\ o.flag = "none"
          => Marks(project, o)
    BY <2>1, Ranks DEF Marks, SP!Publishing
  <2>3. {size} \in SUBSET (0 .. size) /\ {"intermediary"} \in SUBSET Trees /\ {} \in SUBSET Trees
    BY Basics DEF Trees
  <2>4. ASSUME NEW o, Grown(o, {size}, {"intermediary"}, {})
        PROVE  Writers("intermediary") \subseteq o.behind
    <3>1. now \in Led(project) /\ size \in {size}
      BY <2>1 DEF Led
    <3>2. 15 \in Nat /\ 15 + 1 = now /\ Owes(project, 15, "intermediary") /\ "intermediary" \in Trees
      BY <2>1 DEF Owes, Trees
    <3>3. Writers("intermediary") \subseteq o.behind
      BY <1>1, <2>4, <3>1, <3>2, Follows
    <3> QED
      BY <3>3
  <2>5. \A t : Owes(project, 16, t) => t \in {"intermediary"}
    BY DEF Owes
  <2>6. now \in 11 .. 28 /\ Head(todo) \notin SP!Publishing
    BY <2>1 DEF SP!Publishing
  <2>7. \A o : Grown(o, {size}, {"intermediary"}, {}) =>
          /\ \A t \in {"intermediary"} : Writers(t) \subseteq o.behind
          /\ Head(todo) \in SP!Publishing => \A t \in {} : Writers(t) \subseteq o.behind
          /\ \A t \in Trees : Owes(project, now, t) => Writers(t) \subseteq o.behind
    BY <2>1, <2>4, <2>5, <2>6
  <2>8. /\ {"intermediary"} \in SUBSET {"media", "output", "intermediary", "split", "parts", "iso"}
        /\ \/ "media" \in {"intermediary"} /\ lastMediaWrite' = SP!next
           \/ "media" \notin {"intermediary"} /\ lastMediaWrite' = lastMediaWrite /\ now # 20
    BY <1>4, <2>1
  <2> QED
    BY <1>1, <1>4, <2>2, <2>3, <2>6, <2>7, <2>8, OutputKeeps
<1> QED
  BY <1>2, <1>3, <1>4 DEF SP!ExportForSplit, SP!builder, SP!follow, SP!builder, size

LEMMA RebuildMediaEsdKeeps ==
  ASSUME Ordered, Building, outcome = "building", SP!RebuildMediaEsd
  PROVE  PlanInv'
<1>1. todo # <<>> /\ UNCHANGED <<verificationIds, mediaPreparation, imagePreparation, lastImageWrite>>
  BY DEF SP!RebuildMediaEsd, SP!Creates, SP!builder
<1>2. CASE /\ SP!Creates("esdClear")
           /\ SP!Emit({lastImageWrite} \cup {lastMediaWrite}, {"media"}, {}, "media")
           /\ lastMediaWrite' = SP!next
           /\ lastOutputWrite' = lastOutputWrite
  <2>1. Head(todo) = "esdClear" /\ now = 20
    BY <1>2, Ranks DEF SP!Creates, now
  <2>2. \A o : o.step = Head(todo) /\ o.writes = {"media"} /\ o.reads = {} /\ o.flag = "media"
          => Marks(project, o)
    BY <2>1, Ranks DEF Marks, SP!Publishing
  <2>3. /\ {lastImageWrite} \cup {lastMediaWrite} \in SUBSET (0 .. size)
        /\ {"media"} \in SUBSET Trees
        /\ {} \in SUBSET Trees
    BY Basics DEF Trees
  <2>4. ASSUME NEW o, Grown(o, {lastImageWrite} \cup {lastMediaWrite}, {"media"}, {})
        PROVE  Writers("image") \subseteq o.behind /\ Writers("media") \subseteq o.behind
    <3>4. Writers("image") \subseteq o.behind /\ Writers("media") \subseteq o.behind
      BY <1>1, <2>1, <2>4, Settled, Basics DEF Grown
    <3> QED
      BY <3>4
  <2>5. \A t : Owes(project, 20, t) => t \in {"image"}
    BY DEF Owes
  <2>6. now \in 11 .. 28 /\ Head(todo) \notin SP!Publishing
    BY <2>1 DEF SP!Publishing
  <2>7. \A o : Grown(o, {lastImageWrite} \cup {lastMediaWrite}, {"media"}, {}) =>
          /\ \A t \in {"media"} : Writers(t) \subseteq o.behind
          /\ Head(todo) \in SP!Publishing => \A t \in {} : Writers(t) \subseteq o.behind
          /\ \A t \in Trees : Owes(project, now, t) => Writers(t) \subseteq o.behind
    BY <2>1, <2>4, <2>5, <2>6
  <2>8. /\ {"media"} \in SUBSET {"media", "output", "intermediary", "split", "parts", "iso"}
        /\ \/ "media" \in {"media"} /\ lastMediaWrite' = SP!next
           \/ "media" \notin {"media"} /\ lastMediaWrite' = lastMediaWrite /\ now # 20
    BY <1>2, <2>1
  <2> QED
    BY <1>1, <1>2, <2>2, <2>3, <2>6, <2>7, <2>8, OutputKeeps
<1>3. CASE /\ SP!Creates("esdExport")
           /\ SP!Emit({} \cup {lastMediaWrite}, {"media"}, {"image"}, "media")
           /\ lastMediaWrite' = SP!next
           /\ lastOutputWrite' = lastOutputWrite
  <2>1. Head(todo) = "esdExport" /\ now = 21
    BY <1>3, Ranks DEF SP!Creates, now
  <2>2. \A o : o.step = Head(todo) /\ o.writes = {"media"} /\ o.reads = {"image"} /\ o.flag = "media"
          => Marks(project, o)
    BY <2>1, Ranks DEF Marks, SP!Publishing
  <2>3. /\ {} \cup {lastMediaWrite} \in SUBSET (0 .. size)
        /\ {"media"} \in SUBSET Trees
        /\ {"image"} \in SUBSET Trees
    BY Basics DEF Trees
  <2>4. ASSUME NEW o, Grown(o, {} \cup {lastMediaWrite}, {"media"}, {"image"})
        PROVE  Writers("image") \subseteq o.behind /\ Writers("media") \subseteq o.behind
    <3>1. now \in Led(project) /\ size \in {} \cup {lastMediaWrite}
      <4>1. now \in Led(project)
        BY <2>1 DEF Led
      <4>2. size \in 1 .. size /\ rank(ops[size].step) + 1 = now /\ (rank(ops[size].step) = 20 => lastMediaWrite = size)
        BY <1>1, <4>1, Settled
      <4>3. rank(ops[size].step) \in Nat
        BY <1>1, <4>2, Context, Zenon DEF Building
      <4> QED
        BY <2>1, <4>1, <4>2, <4>3
    <3>2. 20 \in Nat /\ 20 + 1 = now /\ Owes(project, 20, "image") /\ "image" \in Trees
      BY <2>1 DEF Owes, Trees
    <3>3. Writers("image") \subseteq o.behind
      BY <1>1, <2>4, <3>1, <3>2, Follows
    <3>4. Writers("media") \subseteq o.behind
      BY <1>1, <2>1, <2>4, Settled, Basics DEF Grown
    <3> QED
      BY <3>3, <3>4
  <2>5. \A t : Owes(project, 21, t) => t \in {}
    BY DEF Owes
  <2>6. now \in 11 .. 28
    BY <2>1 DEF SP!Publishing
  <2>7. \A o : Grown(o, {} \cup {lastMediaWrite}, {"media"}, {"image"}) =>
          /\ \A t \in {"media"} : Writers(t) \subseteq o.behind
          /\ Head(todo) \in SP!Publishing => \A t \in {"image"} : Writers(t) \subseteq o.behind
          /\ \A t \in Trees : Owes(project, now, t) => Writers(t) \subseteq o.behind
    BY <2>1, <2>4, <2>5, <2>6
  <2>8. /\ {"media"} \in SUBSET {"media", "output", "intermediary", "split", "parts", "iso"}
        /\ \/ "media" \in {"media"} /\ lastMediaWrite' = SP!next
           \/ "media" \notin {"media"} /\ lastMediaWrite' = lastMediaWrite /\ now # 20
    BY <1>3, <2>1
  <2> QED
    BY <1>1, <1>3, <2>2, <2>3, <2>6, <2>7, <2>8, OutputKeeps
<1>4. CASE /\ SP!Creates("esdPublish")
           /\ SP!Emit({} \cup {lastMediaWrite}, {"media"}, {}, "media")
           /\ lastMediaWrite' = SP!next
           /\ lastOutputWrite' = lastOutputWrite
  <2>1. Head(todo) = "esdPublish" /\ now = 22
    BY <1>4, Ranks DEF SP!Creates, now
  <2>2. \A o : o.step = Head(todo) /\ o.writes = {"media"} /\ o.reads = {} /\ o.flag = "media"
          => Marks(project, o)
    BY <2>1, Ranks DEF Marks, SP!Publishing
  <2>3. {} \cup {lastMediaWrite} \in SUBSET (0 .. size) /\ {"media"} \in SUBSET Trees /\ {} \in SUBSET Trees
    BY Basics DEF Trees
  <2>4. ASSUME NEW o, Grown(o, {} \cup {lastMediaWrite}, {"media"}, {})
        PROVE  Writers("media") \subseteq o.behind
    <3>4. Writers("media") \subseteq o.behind
      BY <1>1, <2>1, <2>4, Settled, Basics DEF Grown
    <3> QED
      BY <3>4
  <2>5. \A t : Owes(project, 22, t) => t \in {}
    BY DEF Owes
  <2>6. now \in 11 .. 28 /\ Head(todo) \notin SP!Publishing
    BY <2>1 DEF SP!Publishing
  <2>7. \A o : Grown(o, {} \cup {lastMediaWrite}, {"media"}, {}) =>
          /\ \A t \in {"media"} : Writers(t) \subseteq o.behind
          /\ Head(todo) \in SP!Publishing => \A t \in {} : Writers(t) \subseteq o.behind
          /\ \A t \in Trees : Owes(project, now, t) => Writers(t) \subseteq o.behind
    BY <2>1, <2>4, <2>5, <2>6
  <2>8. /\ {"media"} \in SUBSET {"media", "output", "intermediary", "split", "parts", "iso"}
        /\ \/ "media" \in {"media"} /\ lastMediaWrite' = SP!next
           \/ "media" \notin {"media"} /\ lastMediaWrite' = lastMediaWrite /\ now # 20
    BY <1>4, <2>1
  <2> QED
    BY <1>1, <1>4, <2>2, <2>3, <2>6, <2>7, <2>8, OutputKeeps
<1> QED
  BY <1>2, <1>3, <1>4 DEF SP!RebuildMediaEsd, SP!chainMediaWrite, SP!builder, size

LEMMA SplitIntoMediaKeeps ==
  ASSUME Ordered, Building, outcome = "building", SP!SplitIntoMedia
  PROVE  PlanInv'
<1>1. todo # <<>> /\ UNCHANGED <<verificationIds, mediaPreparation, imagePreparation, lastImageWrite>>
  BY DEF SP!SplitIntoMedia, SP!Creates, SP!builder
<1>2. CASE /\ SP!Creates("partsClear")
           /\ SP!Emit({lastImageWrite, lastMediaWrite}, {"parts"}, {}, "none")
           /\ lastMediaWrite' = lastMediaWrite
           /\ lastOutputWrite' = lastOutputWrite
  <2>1. Head(todo) = "partsClear" /\ now = 23
    BY <1>2, Ranks DEF SP!Creates, now
  <2>2. \A o : o.step = Head(todo) /\ o.writes = {"parts"} /\ o.reads = {} /\ o.flag = "none"
          => Marks(project, o)
    BY <2>1, Ranks DEF Marks, SP!Publishing
  <2>3. /\ {lastImageWrite, lastMediaWrite} \in SUBSET (0 .. size)
        /\ {"parts"} \in SUBSET Trees
        /\ {} \in SUBSET Trees
    BY Basics DEF Trees
  <2>4. ASSUME NEW o, Grown(o, {lastImageWrite, lastMediaWrite}, {"parts"}, {})
        PROVE  /\ Writers("image") \subseteq o.behind
               /\ Writers("media") \subseteq o.behind
               /\ Writers("parts") \subseteq o.behind
    <3>4. Writers("image") \subseteq o.behind /\ Writers("media") \subseteq o.behind
      BY <1>1, <2>1, <2>4, Settled, Basics DEF Grown
    <3>5. Writers("parts") = {}
      BY <1>1, <2>1, Fresh
    <3> QED
      BY <3>4, <3>5
  <2>5. \A t : Owes(project, 23, t) => t \in {"image", "media", "parts"}
    BY DEF Owes
  <2>6. now \in 11 .. 28 /\ Head(todo) \notin SP!Publishing
    BY <2>1 DEF SP!Publishing
  <2>7. \A o : Grown(o, {lastImageWrite, lastMediaWrite}, {"parts"}, {}) =>
          /\ \A t \in {"parts"} : Writers(t) \subseteq o.behind
          /\ Head(todo) \in SP!Publishing => \A t \in {} : Writers(t) \subseteq o.behind
          /\ \A t \in Trees : Owes(project, now, t) => Writers(t) \subseteq o.behind
    BY <2>1, <2>4, <2>5, <2>6
  <2>8. /\ {"parts"} \in SUBSET {"media", "output", "intermediary", "split", "parts", "iso"}
        /\ \/ "media" \in {"parts"} /\ lastMediaWrite' = SP!next
           \/ "media" \notin {"parts"} /\ lastMediaWrite' = lastMediaWrite /\ now # 20
    BY <1>2, <2>1
  <2> QED
    BY <1>1, <1>2, <2>2, <2>3, <2>6, <2>7, <2>8, OutputKeeps
<1>3. CASE /\ SP!Creates("parts")
           /\ SP!Emit({size}, {"parts"}, {"image"}, "none")
           /\ lastMediaWrite' = lastMediaWrite
           /\ lastOutputWrite' = lastOutputWrite
  <2>1. Head(todo) = "parts" /\ now = 24
    BY <1>3, Ranks DEF SP!Creates, now
  <2>2. \A o : o.step = Head(todo) /\ o.writes = {"parts"} /\ o.reads = {"image"} /\ o.flag = "none"
          => Marks(project, o)
    BY <2>1, Ranks DEF Marks, SP!Publishing
  <2>3. {size} \in SUBSET (0 .. size) /\ {"parts"} \in SUBSET Trees /\ {"image"} \in SUBSET Trees
    BY Basics DEF Trees
  <2>4. ASSUME NEW o, Grown(o, {size}, {"parts"}, {"image"})
        PROVE  /\ Writers("image") \subseteq o.behind
               /\ Writers("media") \subseteq o.behind
               /\ Writers("parts") \subseteq o.behind
    <3>1. now \in Led(project) /\ size \in {size}
      BY <2>1 DEF Led
    <3>2. /\ 23 \in Nat
          /\ 23 + 1 = now
          /\ Owes(project, 23, "image")
          /\ "image" \in Trees
          /\ Owes(project, 23, "media")
          /\ "media" \in Trees
          /\ Owes(project, 23, "parts")
          /\ "parts" \in Trees
      BY <2>1 DEF Owes, Trees
    <3>3. /\ Writers("image") \subseteq o.behind
          /\ Writers("media") \subseteq o.behind
          /\ Writers("parts") \subseteq o.behind
      BY <1>1, <2>4, <3>1, <3>2, Follows
    <3> QED
      BY <3>3
  <2>5. \A t : Owes(project, 24, t) => t \in {"media"}
    BY DEF Owes
  <2>6. now \in 11 .. 28
    BY <2>1 DEF SP!Publishing
  <2>7. \A o : Grown(o, {size}, {"parts"}, {"image"}) =>
          /\ \A t \in {"parts"} : Writers(t) \subseteq o.behind
          /\ Head(todo) \in SP!Publishing => \A t \in {"image"} : Writers(t) \subseteq o.behind
          /\ \A t \in Trees : Owes(project, now, t) => Writers(t) \subseteq o.behind
    BY <2>1, <2>4, <2>5, <2>6
  <2>8. /\ {"parts"} \in SUBSET {"media", "output", "intermediary", "split", "parts", "iso"}
        /\ \/ "media" \in {"parts"} /\ lastMediaWrite' = SP!next
           \/ "media" \notin {"parts"} /\ lastMediaWrite' = lastMediaWrite /\ now # 20
    BY <1>3, <2>1
  <2> QED
    BY <1>1, <1>3, <2>2, <2>3, <2>6, <2>7, <2>8, OutputKeeps
<1>4. CASE /\ SP!Creates("partsPublish")
           /\ SP!Emit({size}, {"media"}, {"parts"}, "media")
           /\ lastMediaWrite' = SP!next
           /\ lastOutputWrite' = lastOutputWrite
  <2>1. Head(todo) = "partsPublish" /\ now = 25
    BY <1>4, Ranks DEF SP!Creates, now
  <2>2. \A o : o.step = Head(todo) /\ o.writes = {"media"} /\ o.reads = {"parts"} /\ o.flag = "media"
          => Marks(project, o)
    BY <2>1, Ranks DEF Marks, SP!Publishing
  <2>3. {size} \in SUBSET (0 .. size) /\ {"media"} \in SUBSET Trees /\ {"parts"} \in SUBSET Trees
    BY Basics DEF Trees
  <2>4. ASSUME NEW o, Grown(o, {size}, {"media"}, {"parts"})
        PROVE  Writers("media") \subseteq o.behind
    <3>1. now \in Led(project) /\ size \in {size}
      BY <2>1 DEF Led
    <3>2. 24 \in Nat /\ 24 + 1 = now /\ Owes(project, 24, "media") /\ "media" \in Trees
      BY <2>1 DEF Owes, Trees
    <3>3. Writers("media") \subseteq o.behind
      BY <1>1, <2>4, <3>1, <3>2, Follows
    <3> QED
      BY <3>3
  <2>5. \A t : Owes(project, 25, t) => t \in {}
    BY DEF Owes
  <2>6. now \in 11 .. 28 /\ Head(todo) \notin SP!Publishing
    BY <2>1 DEF SP!Publishing
  <2>7. \A o : Grown(o, {size}, {"media"}, {"parts"}) =>
          /\ \A t \in {"media"} : Writers(t) \subseteq o.behind
          /\ Head(todo) \in SP!Publishing => \A t \in {"parts"} : Writers(t) \subseteq o.behind
          /\ \A t \in Trees : Owes(project, now, t) => Writers(t) \subseteq o.behind
    BY <2>1, <2>4, <2>5, <2>6
  <2>8. /\ {"media"} \in SUBSET {"media", "output", "intermediary", "split", "parts", "iso"}
        /\ \/ "media" \in {"media"} /\ lastMediaWrite' = SP!next
           \/ "media" \notin {"media"} /\ lastMediaWrite' = lastMediaWrite /\ now # 20
    BY <1>4, <2>1
  <2> QED
    BY <1>1, <1>4, <2>2, <2>3, <2>6, <2>7, <2>8, OutputKeeps
<1> QED
  BY <1>2, <1>3, <1>4 DEF SP!SplitIntoMedia, SP!follow, SP!builder, size

\* The split waits for the image, or for its copy as a WIM.
LEMMA SplitOutputKeeps ==
  ASSUME Ordered, Building, outcome = "building", SP!SplitOutput
  PROVE  PlanInv'
<1> DEFINE k == IF project.workingIsWim THEN lastImageWrite ELSE size
           rd == IF project.workingIsWim THEN {"image"} ELSE {"intermediary"}
<1>1. /\ todo # <<>>
      /\ UNCHANGED <<verificationIds, mediaPreparation, imagePreparation, lastMediaWrite, lastImageWrite>>
  BY DEF SP!SplitOutput, SP!Creates
<1>2. CASE SP!Creates("splitClear") /\ SP!Emit({k}, {"split"}, {}, "none") /\ lastOutputWrite' = lastOutputWrite
  <2>1. Head(todo) = "splitClear" /\ now = 17
    BY <1>2, Ranks DEF SP!Creates, now
  <2>2. \A o : o.step = Head(todo) /\ o.writes = {"split"} /\ o.reads = {} /\ o.flag = "none"
          => Marks(project, o)
    BY <2>1, Ranks DEF Marks, SP!Publishing
  <2>3. {k} \in SUBSET (0 .. size) /\ {"split"} \in SUBSET Trees /\ {} \in SUBSET Trees
    BY Basics DEF Trees
  <2>4. ASSUME NEW o, Grown(o, {k}, {"split"}, {})
        PROVE  /\ Writers("split") \subseteq o.behind
               /\ \A t \in Trees : Owes(project, 17, t) => Writers(t) \subseteq o.behind
    <3>1. Writers("split") = {}
      BY <1>1, <2>1, Fresh
    <3>2. CASE project.workingIsWim
      <4>1. Writers("image") \subseteq o.behind
        BY <1>1, <2>1, <2>4, <3>2, Settled DEF Grown
      <4>2. \A t : Owes(project, 17, t) => t \in {"image", "split"}
        BY <3>2 DEF Owes
      <4> QED
        BY <3>1, <4>1, <4>2
    <3>3. CASE ~project.workingIsWim
      <4>1. now \in Led(project) /\ size \in {k}
        BY <2>1, <3>3 DEF Led
      <4>2. 16 \in Nat /\ 16 + 1 = now /\ Owes(project, 16, "intermediary") /\ "intermediary" \in Trees
        BY <2>1 DEF Owes, Trees
      <4>3. Writers("intermediary") \subseteq o.behind
        BY <1>1, <2>4, <4>1, <4>2, Follows
      <4>4. \A t : Owes(project, 17, t) => t \in {"intermediary", "split"}
        BY <3>3 DEF Owes
      <4> QED
        BY <3>1, <4>3, <4>4
    <3> QED
      BY <3>2, <3>3
  <2>5. now \in 11 .. 28 /\ Head(todo) \notin SP!Publishing /\ now # 20
    BY <2>1 DEF SP!Publishing
  <2>6. \A o : Grown(o, {k}, {"split"}, {}) =>
          /\ \A t \in {"split"} : Writers(t) \subseteq o.behind
          /\ Head(todo) \in SP!Publishing => \A t \in {} : Writers(t) \subseteq o.behind
          /\ \A t \in Trees : Owes(project, now, t) => Writers(t) \subseteq o.behind
    BY <2>1, <2>4
  <2>7. /\ {"split"} \in SUBSET {"media", "output", "intermediary", "split", "parts", "iso"}
        /\ "media" \notin {"split"} /\ lastMediaWrite' = lastMediaWrite
    BY <1>1
  <2> HIDE DEF k
  <2> QED
    BY <1>1, <1>2, <2>2, <2>3, <2>5, <2>6, <2>7, OutputKeeps
<1>3. CASE SP!Creates("split") /\ SP!Emit({size}, {"split"}, rd, "none") /\ lastOutputWrite' = lastOutputWrite
  <2>1. Head(todo) = "split" /\ now = 18
    BY <1>3, Ranks DEF SP!Creates, now
  <2>2. \A o : o.step = Head(todo) /\ o.writes = {"split"} /\ o.reads = rd /\ o.flag = "none"
          => Marks(project, o)
    BY <2>1, Ranks DEF Marks, SP!Publishing
  <2>3. {size} \in SUBSET (0 .. size) /\ {"split"} \in SUBSET Trees /\ rd \in SUBSET Trees
    BY Basics DEF Trees
  <2>4. ASSUME NEW o, Grown(o, {size}, {"split"}, rd)
        PROVE  Writers("split") \subseteq o.behind /\ \A t \in rd : Writers(t) \subseteq o.behind
    <3>1. now \in Led(project) /\ size \in {size} /\ 17 \in Nat /\ 17 + 1 = now
      BY <2>1 DEF Led
    <3>2. /\ "split" \in Trees /\ Owes(project, 17, "split")
          /\ \A t \in rd : t \in Trees /\ Owes(project, 17, t)
      BY DEF Owes, Trees
    <3> HIDE DEF rd
    <3>3. \A t \in Trees : Owes(project, 17, t) => Writers(t) \subseteq o.behind
      BY <1>1, <2>4, <3>1, Follows
    <3> QED
      BY <3>2, <3>3
  <2>5. \A t : Owes(project, 18, t) => t = "split"
    BY DEF Owes
  <2>6. now \in 11 .. 28 /\ now # 20
    BY <2>1
  <2>7. /\ {"split"} \in SUBSET {"media", "output", "intermediary", "split", "parts", "iso"}
        /\ "media" \notin {"split"} /\ lastMediaWrite' = lastMediaWrite
    BY <1>1
  <2> HIDE DEF rd
  <2>8. \A o : Grown(o, {size}, {"split"}, rd) =>
          /\ \A t \in {"split"} : Writers(t) \subseteq o.behind
          /\ Head(todo) \in SP!Publishing => \A t \in rd : Writers(t) \subseteq o.behind
          /\ \A t \in Trees : Owes(project, now, t) => Writers(t) \subseteq o.behind
    BY <2>1, <2>4, <2>5
  <2> QED
    BY <1>1, <1>3, <2>2, <2>3, <2>6, <2>7, <2>8, OutputKeeps
<1>4. CASE /\ SP!Creates("splitPublish")
           /\ SP!Emit({size}, {"output"}, {"split"}, "none")
           /\ lastOutputWrite' = SP!next
  <2>1. Head(todo) = "splitPublish" /\ now = 19
    BY <1>4, Ranks DEF SP!Creates, now
  <2>2. \A o : o.step = Head(todo) /\ o.writes = {"output"} /\ o.reads = {"split"} /\ o.flag = "none"
          => Marks(project, o)
    BY <2>1, Ranks DEF Marks, SP!Publishing
  <2>3. {size} \in SUBSET (0 .. size) /\ {"split"} \in SUBSET Trees
    BY Basics DEF Trees
  <2>4. Writers("output") = {}
    BY <1>1, <2>1, Fresh
  <2>5. \A t : ~Owes(project, 19, t)
    BY DEF Owes
  <2>6. now \in 11 .. 28 /\ Head(todo) \notin SP!Publishing /\ now # 20
    BY <2>1 DEF SP!Publishing
  <2>7. /\ {"output"} \in SUBSET {"media", "output", "intermediary", "split", "parts", "iso"}
        /\ "media" \notin {"output"} /\ lastMediaWrite' = lastMediaWrite
    BY <1>1
  <2>8. \A o : Grown(o, {size}, {"output"}, {"split"}) =>
          /\ \A t \in {"output"} : Writers(t) \subseteq o.behind
          /\ Head(todo) \in SP!Publishing => \A t \in {"split"} : Writers(t) \subseteq o.behind
          /\ \A t \in Trees : Owes(project, now, t) => Writers(t) \subseteq o.behind
    BY <2>1, <2>4, <2>5, <2>6
  <2> QED
    BY <1>1, <1>4, <2>2, <2>3, <2>6, <2>7, <2>8, OutputKeeps
<1> QED
  BY <1>2, <1>3, <1>4 DEF SP!SplitOutput, SP!follow, size

\* Everything the ISO is made from is flagged.
LEMMA SourcesAreFlagged ==
  ASSUME Building, todo # <<>>
  PROVE  /\ SP!flagged \in SUBSET (1 .. size)
         /\ Writers("media") \subseteq SP!flagged
         /\ SP!imageInMedia => Writers("image") \subseteq SP!flagged
<1>1. SP!flagged = {i \in 1 .. size : ops[i].flag # "none"}
  BY Basics DEF SP!flagged
<1>2. \A i \in 1 .. size : rank(ops[i].step) \in Nat /\ Fits(project, rank(ops[i].step)) /\ Marks(project, ops[i])
  <2>1. PlanTyped /\ Linked
    BY DEF Building
  <2> QED
    BY <2>1, Context, Zenon DEF Linked
<1>3. Writers("media") \subseteq SP!flagged
  BY <1>1, <1>2 DEF Writers, Marks
<1>4. ASSUME SP!imageInMedia, NEW i \in Writers("image")
      PROVE  i \in SP!flagged
  <2>1. i \in 1 .. size /\ (rank(ops[i].step) # 6 => ops[i].flag # "none") /\ Fits(project, rank(ops[i].step))
    BY <1>2 DEF Writers, Marks
  <2>2. ~SP!convertedInput(project)
    BY <1>4 DEF SP!imageInMedia
  <2>3. rank(ops[i].step) # 6
    BY <2>1, <2>2 DEF Fits
  <2> QED
    BY <1>1, <2>1, <2>3
<1> QED
  BY <1>1, <1>3, <1>4

LEMMA CreateIsoKeeps ==
  ASSUME Ordered, Building, outcome = "building", SP!CreateIso
  PROVE  PlanInv'
<1> DEFINE rd == IF SP!imageInMedia THEN {"media", "image"} ELSE {"media"}
           D == SP!flagged \cup {size}
<1>1. /\ todo # <<>>
      /\ UNCHANGED <<verificationIds, mediaPreparation, imagePreparation, lastMediaWrite, lastImageWrite, lastOutputWrite>>
  BY DEF SP!CreateIso, SP!Creates, SP!builder
<1>2. /\ {"iso"} \in SUBSET {"media", "output", "intermediary", "split", "parts", "iso"}
      /\ "media" \notin {"iso"} /\ "iso" \in Trees
  BY DEF Trees
<1>3. CASE SP!Creates("isoClear") /\ SP!Emit({lastOutputWrite, lastMediaWrite}, {"iso"}, {}, "none")
  <2>1. Head(todo) = "isoClear" /\ now = 26
    BY <1>3, Ranks DEF SP!Creates, now
  <2>2. \A o : o.step = Head(todo) /\ o.writes = {"iso"} /\ o.reads = {} /\ o.flag = "none" => Marks(project, o)
    BY <2>1, Ranks DEF Marks, SP!Publishing
  <2>3. {lastOutputWrite, lastMediaWrite} \in SUBSET (0 .. size) /\ {} \in SUBSET Trees
    BY Basics
  <2>4. Writers("iso") = {}
    BY <1>1, <2>1, Fresh
  <2>5. \A t : Owes(project, 26, t) => t = "iso"
    BY DEF Owes
  <2>6. now \in 11 .. 28 /\ Head(todo) \notin SP!Publishing /\ now # 20
    BY <2>1 DEF SP!Publishing
  <2>7. \A o : Grown(o, {lastOutputWrite, lastMediaWrite}, {"iso"}, {}) =>
          /\ \A t \in {"iso"} : Writers(t) \subseteq o.behind
          /\ Head(todo) \in SP!Publishing => \A t \in {} : Writers(t) \subseteq o.behind
          /\ \A t \in Trees : Owes(project, now, t) => Writers(t) \subseteq o.behind
    BY <2>1, <2>4, <2>5, <2>6
  <2> QED
    BY <1>1, <1>2, <1>3, <2>2, <2>3, <2>6, <2>7, OutputKeeps
<1>4. CASE SP!Creates("iso") /\ SP!Emit(D, {"iso"}, rd, "none")
  <2>1. Head(todo) = "iso" /\ now = 27 /\ now \in Led(project)
    BY <1>4, Ranks DEF SP!Creates, now, Led
  <2>2. \A o : o.step = Head(todo) /\ o.writes = {"iso"} /\ o.reads = rd /\ o.flag = "none" => Marks(project, o)
    BY <2>1, Ranks DEF Marks, SP!Publishing
  <2>3. /\ SP!flagged \in SUBSET (1 .. size) /\ Writers("media") \subseteq SP!flagged
        /\ SP!imageInMedia => Writers("image") \subseteq SP!flagged
    BY <1>1, SourcesAreFlagged
  <2>4. D \in SUBSET (0 .. size) /\ rd \in SUBSET Trees
    <3>1. size \in 0 .. size /\ \A i \in 1 .. size : i \in 0 .. size
      BY Basics
    <3>2. D \in SUBSET (0 .. size)
      BY <2>3, <3>1, Zenon
    <3> QED
      BY <3>2 DEF Trees
  <2>5. \A t \in rd : Writers(t) \subseteq SP!flagged
    BY <2>3
  <2>6. now \in 11 .. 28 /\ now # 20
    BY <2>1
  <2>7. \A t : Owes(project, 27, t) => t = "iso"
    BY DEF Owes
  <2> HIDE DEF rd
  <2>8. ASSUME NEW o, Grown(o, D, {"iso"}, rd)
        PROVE  Writers("iso") \subseteq o.behind /\ \A t \in rd : Writers(t) \subseteq o.behind
    <3>1. 26 \in Nat /\ 26 + 1 = now /\ Owes(project, 26, "iso") /\ "iso" \in Trees /\ size \in D
      BY <2>1 DEF Owes, Trees
    <3>2. Writers("iso") \subseteq o.behind
      BY <1>1, <2>1, <2>8, <3>1, Follows
    <3>3. SP!flagged \subseteq o.behind
      BY <2>3, <2>8 DEF Grown
    <3> QED
      BY <2>5, <3>2, <3>3
  <2> HIDE DEF D
  <2>9. \A o : Grown(o, D, {"iso"}, rd) =>
          /\ \A t \in {"iso"} : Writers(t) \subseteq o.behind
          /\ Head(todo) \in SP!Publishing => \A t \in rd : Writers(t) \subseteq o.behind
          /\ \A t \in Trees : Owes(project, now, t) => Writers(t) \subseteq o.behind
    BY <2>1, <2>7, <2>8
  <2> QED
    BY <1>1, <1>2, <1>4, <2>2, <2>4, <2>6, <2>9, OutputKeeps
<1>5. CASE SP!Creates("isoPublish") /\ SP!Emit({size}, {"iso"}, {}, "none")
  <2>1. Head(todo) = "isoPublish" /\ now = 28 /\ now \in Led(project)
    BY <1>5, Ranks DEF SP!Creates, now, Led
  <2>2. \A o : o.step = Head(todo) /\ o.writes = {"iso"} /\ o.reads = {} /\ o.flag = "none" => Marks(project, o)
    BY <2>1, Ranks DEF Marks, SP!Publishing
  <2>3. {size} \in SUBSET (0 .. size) /\ {} \in SUBSET Trees
    BY Basics
  <2>4. \A t : ~Owes(project, 28, t)
    BY DEF Owes
  <2>5. now \in 11 .. 28 /\ Head(todo) \notin SP!Publishing /\ now # 20
    BY <2>1 DEF SP!Publishing
  <2>6. ASSUME NEW o, Grown(o, {size}, {"iso"}, {})
        PROVE  Writers("iso") \subseteq o.behind
    <3>1. 27 \in Nat /\ 27 + 1 = now /\ Owes(project, 27, "iso") /\ "iso" \in Trees /\ size \in {size}
      BY <2>1 DEF Owes, Trees
    <3> QED
      BY <1>1, <2>1, <2>6, <3>1, Follows
  <2>7. \A o : Grown(o, {size}, {"iso"}, {}) =>
          /\ \A t \in {"iso"} : Writers(t) \subseteq o.behind
          /\ Head(todo) \in SP!Publishing => \A t \in {} : Writers(t) \subseteq o.behind
          /\ \A t \in Trees : Owes(project, now, t) => Writers(t) \subseteq o.behind
    BY <2>1, <2>4, <2>5, <2>6
  <2> QED
    BY <1>1, <1>2, <1>5, <2>2, <2>3, <2>5, <2>7, OutputKeeps
<1> QED
  BY <1>3, <1>4, <1>5 DEF SP!CreateIso, SP!follow, size

\* The invariant holds before the first operation, and every step keeps it.
LEMMA PlanInit == IsProject(project) /\ SP!Start => PlanInv
<1> SUFFICES ASSUME IsProject(project), SP!Start
             PROVE  PlanInv
  OBVIOUS
<1>1. /\ IsProject(project) /\ todo = program /\ ops = <<>> /\ verificationIds = {}
      /\ mediaPreparation = 0 /\ imagePreparation = 0
      /\ lastMediaWrite = 0 /\ lastImageWrite = 0 /\ lastOutputWrite = 0
  BY DEF SP!Start, SP!None, program
<1>2. size = 0 /\ 1 .. size = {} /\ ops \in Seq(Operation) /\ SP!ids = {}
  BY <1>1 DEF size, SP!ids
<1>3. program \in Seq(Step)
  BY <1>1, ProgramShape DEF program, Shape
<1>4. Ordered
  BY <1>2 DEF Ordered, SP!WritersOrdered, SP!OutputIsFinal, SP!ImageWritesGated
<1>5. PlanTyped
  BY <1>1, <1>2, <1>3 DEF PlanTyped
<1>6. Linked
  BY <1>1, <1>2, <1>3 DEF Linked
<1>7. \A t : Writers(t) = {}
  BY <1>2 DEF Writers
<1>8. Chained /\ Prepared /\ Mounted /\ Owed
  <2>1. \A k : Covers(k, {})
    BY DEF Covers
  <2>2. SP!hashes = {} /\ ~Planned("mount")
    BY <1>2 DEF SP!hashes, Planned
  <2> QED
    BY <1>1, <1>2, <1>7, <2>1, <2>2 DEF Chained, Prepared, Mounted, Owed
<1> QED
  BY <1>4, <1>5, <1>6, <1>8 DEF PlanInv, Building

\* Without a step of the list the plan stays as it is.
LEMMA PlanStops ==
  ASSUME Ordered, ops' = ops
  PROVE  Ordered'
BY DEF Ordered, SP!WritersOrdered, SP!OutputIsFinal, SP!ImageWritesGated, SP!ids, SP!hashes

LEMMA PlanStep == PlanInv /\ [SP!Next]_SP!vars => PlanInv'
<1> SUFFICES ASSUME PlanInv, [SP!Next]_SP!vars
             PROVE  PlanInv'
  OBVIOUS
<1>1. Ordered /\ (outcome = "building" => Building)
  BY DEF PlanInv
<1>2. CASE UNCHANGED SP!vars
  <2>1. /\ ops' = ops /\ outcome' = outcome /\ project' = project /\ todo' = todo
        /\ verificationIds' = verificationIds /\ mediaPreparation' = mediaPreparation
        /\ imagePreparation' = imagePreparation /\ lastMediaWrite' = lastMediaWrite
        /\ lastImageWrite' = lastImageWrite /\ lastOutputWrite' = lastOutputWrite
    BY <1>2 DEF SP!vars, SP!builder
  <2>2. size' = size /\ SP!hashes' = SP!hashes
    BY <2>1 DEF size, SP!hashes, SP!ids
  <2>3. program' = program
    BY <2>1 DEF program, SP!Program, SP!preparation, SP!integrations, SP!removals, SP!registryEdits,
                SP!lastChanges, SP!publication, SP!mediaImage, SP!isoBuild
  <2>4. \A t : Writers(t)' = Writers(t)
    BY <2>1, <2>2 DEF Writers
  <2>5. \A k, S : Covers(k, S)' <=> Covers(k, S)
    BY <2>1, <2>2 DEF Covers
  <2>6. \A s : Planned(s)' <=> Planned(s)
    BY <2>1, <2>2 DEF Planned
  <2>7. PlanTyped => PlanTyped'
    BY <2>1, <2>2 DEF PlanTyped
  <2>8. Linked => Linked'
    BY <2>1, <2>2, <2>3 DEF Linked
  <2>9. Chained => Chained'
    BY <2>1, <2>2, <2>4, <2>5 DEF Chained, Covers
  <2>10. Prepared => Prepared'
    BY <2>1, <2>2, <2>3, <2>4, <2>6 DEF Prepared, Covers
  <2>11. Mounted => Mounted'
    BY <2>1, <2>2, <2>4, <2>6 DEF Mounted, Covers
  <2>12. Owed => Owed'
    BY <2>1, <2>2, <2>4 DEF Owed, Covers
  <2> QED
    BY <1>1, <2>1, <2>7, <2>8, <2>9, <2>10, <2>11, <2>12, PlanStops DEF PlanInv, Building
<1>3. CASE SP!Reject \/ SP!RefuseIso \/ SP!Finish
  <2>1. ops' = ops /\ outcome' # "building"
    BY <1>3 DEF SP!Reject, SP!RefuseIso, SP!Finish
  <2> QED
    BY <1>1, <2>1, PlanStops DEF PlanInv
<1>4. ASSUME SP!VerifyInput \/ SP!PrepareMedia \/ SP!CloneImage \/ SP!ConvertInput \/ SP!Inspect \/ SP!Mount
      PROVE  PlanInv'
  <2>1. outcome = "building"
    BY <1>4 DEF SP!VerifyInput, SP!PrepareMedia, SP!CloneImage, SP!ConvertInput, SP!Inspect, SP!Mount, SP!Creates
  <2> QED
    BY <1>1, <1>4, <2>1, VerifyInputKeeps, PrepareMediaKeeps, CloneImageKeeps, ConvertInputKeeps,
       InspectKeeps, MountKeeps
<1>5. ASSUME SP!ChangeTarget \/ SP!EditHostRegistry \/ SP!StageFile \/ SP!RemoveMediaAnswer \/ SP!Unmount
      PROVE  PlanInv'
  <2>1. outcome = "building"
    BY <1>5 DEF SP!ChangeTarget, SP!EditHostRegistry, SP!StageFile, SP!RemoveMediaAnswer, SP!Unmount, SP!Creates
  <2> QED
    BY <1>1, <1>5, <2>1, EditsKeep
<1>6. ASSUME SP!ExportImage \/ SP!ExportForSplit \/ SP!SplitOutput \/ SP!RebuildMediaEsd \/ SP!SplitIntoMedia \/ SP!CreateIso
      PROVE  PlanInv'
  <2>1. outcome = "building"
    BY <1>6 DEF SP!ExportImage, SP!ExportForSplit, SP!SplitOutput, SP!RebuildMediaEsd, SP!SplitIntoMedia,
                SP!CreateIso, SP!Creates
  <2> QED
    BY <1>1, <1>6, <2>1, ExportImageKeeps, ExportForSplitKeeps, SplitOutputKeeps, RebuildMediaEsdKeeps,
       SplitIntoMediaKeeps, CreateIsoKeeps
<1> QED
  BY <1>2, <1>3, <1>4, <1>5, <1>6 DEF SP!Next

\* In the plan build returns for any project, an operation that writes a tree waits for
\* all earlier writers of it, what is exported, split or burned waits for all its writers,
\* and whatever writes, mounts or changes an image waits for every hash (ServicingPlan::build).
THEOREM PlansAreOrdered ==
  IsProject(project) /\ SP!Start /\ [][SP!Next]_SP!vars =>
    [](SP!WritersOrdered /\ SP!OutputIsFinal /\ SP!ImageWritesGated)
<1>1. PlanInv => SP!WritersOrdered /\ SP!OutputIsFinal /\ SP!ImageWritesGated
  BY DEF PlanInv, Ordered
<1> QED
  BY <1>1, PlanInit, PlanStep, PTL

\* The projects whose plans the run enumerates are such projects.
LEMMA EveryProject == \A p \in AllProjects : IsProject(p)
<1> DEFINE images == {"image", "media"}
           answer == {"apply", "removeImage", "removeMedia"}
<1>1. /\ Base.inputs \in Nat /\ Base.changes \in Nat /\ Base.removals \in Nat /\ Base.tasks \in Nat
      /\ Base.tweaks \in Nat /\ Base.postSetup \in Nat
      /\ Base.staged \in Seq(images) /\ Base.answers \in Seq(answer)
  BY DEF Base
<1>2. {"inputs", "changes", "removals", "tasks", "tweaks", "postSetup", "staged", "answers"} \subseteq DOMAIN Base
  BY DEF Base
<1>3. ASSUME NEW x, NEW p, p = BaseWith(x), NEW f \in DOMAIN Base
      PROVE  p[f] = IF f \in DOMAIN x THEN x[f] ELSE Base[f]
  BY <1>3 DEF BaseWith
<1>4. ASSUME NEW p \in Containers PROVE IsProject(p)
  <2>1. PICK x : /\ DOMAIN x = {"source", "container", "external", "format", "createIso", "workingIsWim"}
                 /\ p = BaseWith(x)
    BY DEF Containers
  <2>2. /\ p.inputs = Base.inputs /\ p.changes = Base.changes /\ p.removals = Base.removals
        /\ p.tasks = Base.tasks /\ p.tweaks = Base.tweaks /\ p.postSetup = Base.postSetup
        /\ p.staged = Base.staged /\ p.answers = Base.answers
    BY <1>2, <1>3, <2>1
  <2> QED
    BY <1>1, <2>2 DEF IsProject
<1>5. ASSUME NEW p \in Switches PROVE IsProject(p)
  <2>1. PICK x : /\ DOMAIN x = {"source", "clone", "inPlace", "discard", "verify", "pathsOk",
                                "isoPathOk", "createIso", "answers", "tasks"}
                 /\ x.answers \in {<<>>, <<"removeMedia", "removeImage">>} /\ x.tasks \in 0..1
                 /\ p = BaseWith(x)
    BY DEF Switches
  <2>2. /\ p.inputs = Base.inputs /\ p.changes = Base.changes /\ p.removals = Base.removals
        /\ p.tasks = x.tasks /\ p.tweaks = Base.tweaks /\ p.postSetup = Base.postSetup
        /\ p.staged = Base.staged /\ p.answers = x.answers
    BY <1>2, <1>3, <2>1
  <2>3. x.answers \in Seq(answer)
    <3>1. CASE x.answers = <<>>
      BY <3>1
    <3>2. CASE x.answers = <<"removeMedia", "removeImage">>
      BY <3>2
    <3> QED
      BY <2>1, <3>1, <3>2
  <2>4. x.tasks \in Nat
    BY <2>1
  <2> QED
    BY <1>1, <2>2, <2>3, <2>4 DEF IsProject
<1>6. ASSUME NEW p \in Online PROVE IsProject(p)
  <2>1. PICK x : /\ DOMAIN x = {"online", "staged", "tweaks", "answers", "format"}
                 /\ x.staged \in {<<>>, <<"media">>, <<"image">>} /\ x.tweaks \in 0..2
                 /\ x.answers \in {<<>>, <<"apply">>}
                 /\ p = BaseWith(x)
    BY DEF Online
  <2>2. /\ p.inputs = Base.inputs /\ p.changes = Base.changes /\ p.removals = Base.removals
        /\ p.tasks = Base.tasks /\ p.tweaks = x.tweaks /\ p.postSetup = Base.postSetup
        /\ p.staged = x.staged /\ p.answers = x.answers
    BY <1>2, <1>3, <2>1
  <2>3. x.answers \in Seq(answer)
    <3>1. CASE x.answers = <<>>
      BY <3>1
    <3>2. CASE x.answers = <<"apply">>
      BY <3>2
    <3> QED
      BY <2>1, <3>1, <3>2
  <2>4. x.staged \in Seq(images)
    <3>1. CASE x.staged = <<>>
      BY <3>1
    <3>2. CASE x.staged = <<"media">>
      BY <3>2
    <3>3. CASE x.staged = <<"image">>
      BY <3>3
    <3> QED
      BY <2>1, <3>1, <3>2, <3>3
  <2>5. x.tweaks \in Nat
    BY <2>1
  <2> QED
    BY <1>1, <2>2, <2>3, <2>4, <2>5 DEF IsProject
<1> QED
  BY <1>4, <1>5, <1>6 DEF AllProjects

\* Of both together, as the run checks it: a plan orders what writes one tree, what is
\* published and what touches an image (ServicingPlan::build), and a script exported from
\* it keeps that order (AppController, exportPowerShell).
THEOREM OrderKept == MCSpec => []OrderIsKept
<1> DEFINE Both == IInv /\ PlansSound /\ PlanInv
<1>1. MCInit => Both
  <2> SUFFICES ASSUME MCInit PROVE Both
    OBVIOUS
  <2>1. Init /\ SP!Start /\ project \in AllProjects
    BY DEF MCInit, SP!Init
  <2> QED
    BY <2>1, InitIInv, InitPlansSound, PlanInit, EveryProject
<1>2. Both /\ [MCNext]_<<vars, buildVars, subject>> => Both'
  <2> SUFFICES ASSUME Both, [MCNext]_<<vars, buildVars, subject>> PROVE Both'
    OBVIOUS
  <2>1. [Next]_vars
    BY DEF MCNext
  <2>2. [SP!Next]_SP!vars
    BY DEF MCNext, buildVars, SP!vars, SP!builder
  <2>3. Typed
    BY DEF IInv
  <2> QED
    BY <2>1, <2>2, <2>3, StepIInv, StepPlansSound, PlanStep
<1>3. Both => OrderIsKept
  BY ScriptInOrder DEF OrderIsKept, PlansSound, PlanInv, Ordered
<1> HIDE DEF Both
<1> QED
  BY <1>1, <1>2, <1>3, PTL DEF MCSpec
=============================================================================
