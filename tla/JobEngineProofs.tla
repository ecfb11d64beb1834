--------------------------- MODULE JobEngineProofs ---------------------------
(***************************************************************************)
(* Theorems about JobEngine for every plan set, every number of            *)
(* operations and every number of runs.                                    *)
(***************************************************************************)
EXTENDS MCJobEngine, FiniteSetTheorems, TLAPS

USE NOpAssumption, PlansAssumption, RequestAssumption, MaxRunsAssumption,
    FaultsAssumption

-----------------------------------------------------------------------------
(* Types.                                                                  *)

LEMMA PlanType == Plans \cup {NoPlan} \subseteq Plan
<1>1. NoPlan \in Plan
  BY DEF NoPlan, Plan
<1>2. QED
  BY <1>1, PlansAssumption

LEMMA QueueType ==
  ASSUME state \in [Op -> OperationState]
  PROVE  cancelQueued \in [Op -> OperationState]
  BY DEF cancelQueued, OperationState

\* Whatever writeJournal does, the file holds a journal afterwards.
LEMMA WriteType ==
  ASSUME TypeOK, NEW run \in Nat, NEW states \in [Op -> OperationState],
         NEW status \in JournalStatus,
         writeJournal(run, status, states)
  PROVE  journal' \in Journal /\ journalStale' \in BOOLEAN
<1>1. [run |-> run, status |-> status, states |-> states] \in Journal
  BY DEF Journal
<1>2. journal \in Journal
  BY DEF TypeOK
<1>3. QED
  BY <1>1, <1>2 DEF writeJournal

LEMMA InitType == Init => TypeOK
<1> SUFFICES ASSUME Init
             PROVE  TypeOK
  OBVIOUS
<1>1. /\ running \in BOOLEAN /\ cancelling \in BOOLEAN
      /\ changed \in BOOLEAN /\ journalStale \in BOOLEAN
  BY DEF Init
<1>2. state \in [Op -> OperationState]
  BY DEF Init, OperationState
<1>3. /\ maximumParallel \in 1..16 /\ runId \in Nat /\ ticks \in Nat
      /\ launching \in 0..NOp
  BY NOpAssumption DEF Init
<1>4. /\ pc \in ProgramCounter /\ pc # "spawn"
      /\ result \in {"none"} \cup Message
  BY DEF Init, ProgramCounter
<1>5. /\ plan \in Plans \cup {NoPlan}
      /\ active \in SUBSET Op /\ killTimers \in SUBSET Op
      /\ child \in [Op -> {"none", "alive"} \cup Exited]
  BY DEF Init
<1>6. journal \in Journal
  BY DEF Init, NoJournal, Journal, JournalStatus, OperationState
<1>7. QED
  BY <1>1, <1>2, <1>3, <1>4, <1>5, <1>6 DEF TypeOK

LEMMA StartType ==
  ASSUME TypeOK, NEW p \in Plans, NEW n \in Requests, start(p, n)
  PROVE  TypeOK'
<1>1. state' \in [Op -> OperationState]
  BY DEF start, OperationState
<1>2. runId + 1 \in Nat
  BY DEF TypeOK
<1>3. /\ journal' \in Journal
      /\ journalStale' \in BOOLEAN
  BY <1>1, <1>2, WriteType DEF start, JournalStatus
<1>4. maximumParallel' \in 1..16
  <2>1. n \in Int
    BY RequestAssumption
  <2>2. qBound(1, n, 16) \in 1..16
    BY ONLY <2>1 DEF qBound
  <2>3. maximumParallel' = qBound(1, n, 16)
    BY DEF start
  <2>4. QED
    BY ONLY <2>2, <2>3
<1>5. /\ running' \in BOOLEAN /\ cancelling' \in BOOLEAN
      /\ changed' \in BOOLEAN
  BY DEF start, TypeOK
<1>6. ticks' \in Nat
  BY DEF start, TypeOK
<1>7. /\ plan' \in Plans \cup {NoPlan}
      /\ active' \in SUBSET Op /\ killTimers' \in SUBSET Op
      /\ runId' \in Nat
      /\ pc' \in ProgramCounter /\ pc' # "spawn"
      /\ launching' \in 0..NOp
      /\ result' \in {"none"} \cup Message
      /\ child' \in [Op -> {"none", "alive"} \cup Exited]
  BY <1>2 DEF start, TypeOK
<1>8. QED
  BY <1>1, <1>3, <1>4, <1>5, <1>6, <1>7 DEF TypeOK

LEMMA FinishOperationType ==
  ASSUME TypeOK, NEW i \in Op, NEW ok \in BOOLEAN, finishOperation(i, ok)
  PROVE  /\ state' \in [Op -> OperationState]
         /\ active' \in SUBSET Op
         /\ killTimers' \in SUBSET Op
         /\ ticks' \in Nat
         /\ journal' \in Journal
         /\ journalStale' \in BOOLEAN
<1>1. state' \in [Op -> OperationState]
  BY DEF finishOperation, TypeOK, OperationState
<1>2. liveStatus(cancelling) \in JournalStatus
  BY DEF liveStatus, JournalStatus
<1>3. writeJournal(runId, liveStatus(cancelling), state') /\ runId \in Nat
  BY DEF finishOperation, TypeOK
<1>4. /\ journal' \in Journal
      /\ journalStale' \in BOOLEAN
  BY <1>1, <1>2, <1>3, WriteType
<1>5. QED
  BY <1>1, <1>4 DEF finishOperation, TypeOK

LEMMA FinishRunType ==
  ASSUME TypeOK,
         NEW message \in Message,
         finishRun(message)
  PROVE  TypeOK'
<1>1. /\ journal' \in Journal
      /\ journalStale' \in BOOLEAN
  BY WriteType DEF finishRun, TypeOK, JournalStatus
<1>2. QED
  BY <1>1 DEF finishRun, TypeOK, ProgramCounter, Message

LEMMA RestartType ==
  ASSUME TypeOK, restart,
         journal' \in Journal,
         journalStale' \in BOOLEAN
  PROVE  TypeOK'
<1>1. /\ running' \in BOOLEAN /\ cancelling' \in BOOLEAN /\ changed' \in BOOLEAN
  BY DEF restart
<1>2. state' \in [Op -> OperationState]
  BY DEF restart, OperationState
<1>3. /\ maximumParallel' \in 1..16 /\ ticks' \in Nat /\ launching' \in 0..NOp
      /\ runId' \in Nat
  BY NOpAssumption DEF restart, TypeOK
<1>4. /\ pc' \in ProgramCounter /\ pc' # "spawn"
      /\ result' \in {"none"} \cup Message
  BY DEF restart, ProgramCounter
<1>5. /\ plan' \in Plans \cup {NoPlan}
      /\ active' \in SUBSET Op /\ killTimers' \in SUBSET Op
      /\ child' \in [Op -> {"none", "alive"} \cup Exited]
  BY DEF restart
<1>6. QED
  BY <1>1, <1>2, <1>3, <1>4, <1>5 DEF TypeOK

LEMMA TypeStep == TypeOK /\ [Next]_vars => TypeOK'
<1> SUFFICES ASSUME TypeOK, [Next]_vars
             PROVE  TypeOK'
  OBVIOUS
<1> DEFINE JournalType ==
      /\ journal \in Journal
      /\ journalStale \in BOOLEAN
<1>1. ASSUME NEW p \in Plans, NEW n \in Requests, start(p, n)
      PROVE  TypeOK'
  BY <1>1, StartType
<1>2. CASE scheduleIdle
  BY <1>2 DEF scheduleIdle, TypeOK
<1>3. CASE scheduleBegin
  <2>1. changed' \in BOOLEAN /\ running' \in BOOLEAN /\ cancelling' \in BOOLEAN
    BY <1>3 DEF scheduleBegin, TypeOK
  <2>2. ticks' \in Nat
    BY <1>3 DEF scheduleBegin, TypeOK
  <2>3. pc' \in ProgramCounter /\ pc' # "spawn"
    BY <1>3 DEF scheduleBegin, ProgramCounter
  <2>4. QED
    BY <1>3, <2>1, <2>2, <2>3 DEF scheduleBegin, TypeOK
<1>4. ASSUME NEW i \in Op, blockOne(i)
      PROVE  TypeOK'
  BY <1>4 DEF blockOne, TypeOK, OperationState
<1>5. ASSUME NEW i \in Op, launch(i)
      PROVE  TypeOK'
  <2>1. state' \in [Op -> OperationState]
    BY <1>5 DEF launch, TypeOK, OperationState
  <2>2. JournalType'
    BY <1>5, <2>1, WriteType DEF launch, TypeOK, JournalStatus
  <2>3. QED
    BY <1>5, <2>1, <2>2 DEF launch, TypeOK, ProgramCounter, Op
<1>6. CASE blockDone
  BY <1>6 DEF blockDone, TypeOK, ProgramCounter
<1>7. CASE spawn
  BY <1>7 DEF spawn, TypeOK, ProgramCounter, Exited
<1>8. CASE spawnFails
  <2>1. launching \in Op
    BY <1>8 DEF spawnFails, TypeOK
  <2>2. finishOperation(launching, FALSE)
    BY <1>8 DEF spawnFails
  <2>3. /\ state' \in [Op -> OperationState]
        /\ active' \in SUBSET Op /\ killTimers' \in SUBSET Op
        /\ ticks' \in Nat
        /\ JournalType'
    BY <2>1, <2>2, FinishOperationType
  <2>4. QED
    BY <1>8, <2>3 DEF spawnFails, TypeOK, ProgramCounter
<1>9. CASE scheduleFlush
  <2>1. JournalType'
    BY <1>9, WriteType DEF scheduleFlush, TypeOK, liveStatus, JournalStatus
  <2>2. QED
    BY <1>9, <2>1 DEF scheduleFlush, TypeOK, ProgramCounter
<1>10. CASE scheduleReturn
  BY <1>10 DEF scheduleReturn, TypeOK, ProgramCounter
<1>11. CASE scheduleFinish
  BY <1>11, FinishRunType DEF scheduleFinish, Message
<1>12. CASE cancel
  <2>1. JournalType'
    BY <1>12, WriteType, QueueType DEF cancel, TypeOK, JournalStatus
  <2>2. QED
    BY <1>12, <2>1, QueueType DEF cancel, TypeOK, ProgramCounter
<1>13. CASE cancelFinish
  BY <1>13, FinishRunType DEF cancelFinish, Message
<1>14. CASE closeJournal
  BY <1>14 DEF closeJournal, TypeOK, ProgramCounter, finalStatus, Journal,
     JournalStatus
<1>15. ASSUME NEW i \in Op, killTimer(i)
       PROVE  TypeOK'
  BY <1>15 DEF killTimer, TypeOK, Exited
<1>16. ASSUME NEW i \in Op, processFinished(i)
       PROVE  TypeOK'
  BY <1>16, FinishOperationType DEF processFinished, TypeOK
<1>17. ASSUME NEW i \in Op, NEW code \in Exited, childExit(i, code)
       PROVE  TypeOK'
  BY <1>17 DEF childExit, engineVars, TypeOK
<1>18. CASE crash
  BY <1>18, RestartType DEF crash, TypeOK
<1>19. CASE quit
  <2>1. JournalType'
    <3>1. cancelQueued \in [Op -> OperationState] /\ runId \in Nat
      BY QueueType DEF TypeOK
    <3>2. CASE UNCHANGED <<journal, journalStale>>
      BY <3>2 DEF TypeOK
    <3>3. ASSUME NEW status \in {"cancelling", "cancelled", "finished"},
                 writeJournal(runId, status, cancelQueued)
          PROVE  JournalType'
      BY <3>1, <3>3, WriteType DEF JournalStatus
    <3>4. CASE /\ journal' = [journal EXCEPT !.status = "cancelled"]
               /\ journalStale' = TRUE
      BY <3>4 DEF TypeOK, Journal, JournalStatus
    <3>5. QED
      BY <1>19, <3>2, <3>3, <3>4 DEF quit
  <2>2. QED
    BY <1>19, <2>1, RestartType DEF quit
<1>20. CASE UNCHANGED vars
  BY <1>20 DEF vars, engineVars, TypeOK
<1>21. QED
  BY <1>1, <1>2, <1>3, <1>4, <1>5, <1>6, <1>7, <1>8, <1>9, <1>10, <1>11, <1>12, <1>13,
     <1>14, <1>15, <1>16, <1>17, <1>18, <1>19, <1>20 DEF Next

\* Every variable keeps its type.
THEOREM TypeCorrect == Spec => []TypeOK
  BY InitType, TypeStep, PTL DEF Spec

-----------------------------------------------------------------------------
(* Ownership: the engine, the operating system and the plan agree on what  *)
(* is at work.                                                             *)

LEMMA InitOwnership == Init => Ownership
  BY DEF Init, Ownership

LEMMA FinishOperationOwnership ==
  ASSUME TypeOK, Ownership, NEW i \in active, NEW ok \in BOOLEAN,
         finishOperation(i, ok),
         UNCHANGED <<plan, running>>,
         \A j \in Op : child'[j] = "none" \/ (j # i /\ child'[j] = child[j]),
         pc' \in {"loop", "pick"}, pc' = "loop" \/ running
  PROVE  Ownership'
<1>1. i \in Op /\ state[i] = "running"
  BY DEF TypeOK, Ownership
<1>2. \A j \in Op : state'[j] = "running" <=> j \in active'
  BY <1>1 DEF finishOperation, TypeOK, Ownership
<1>3. \A j \in Op : child'[j] # "none" => j \in active'
  BY DEF finishOperation, Ownership
<1>4. QED
  BY <1>2, <1>3 DEF finishOperation, Ownership

LEMMA OwnershipStep == TypeOK /\ Ownership /\ Cancellation /\ [Next]_vars => Ownership'
<1> SUFFICES ASSUME TypeOK, Ownership, Cancellation, [Next]_vars
             PROVE  Ownership'
  OBVIOUS
<1>1. ASSUME NEW p \in Plans, NEW n \in Requests, start(p, n)
      PROVE  Ownership'
  BY <1>1 DEF start, Ownership
<1>2. CASE scheduleIdle
  BY <1>2 DEF scheduleIdle, Ownership
<1>3. CASE scheduleBegin
  BY <1>3 DEF scheduleBegin, Ownership
<1>4. ASSUME NEW i \in Op, blockOne(i)
      PROVE  Ownership'
  BY <1>4 DEF blockOne, First, blockable, Ownership, TypeOK
<1>5. ASSUME NEW i \in Op, launch(i)
      PROVE  Ownership'
  <2>1. /\ state[i] = "queued" /\ i \notin active
        /\ i \in plan.writes => active \cap plan.writes = {}
        /\ i \in plan.parallel \/ active = {}
    BY <1>5 DEF launch, First, candidates, ready, Ownership
  <2>2. child[i] = "none" /\ child' = child
    BY <1>5, <2>1 DEF launch, Ownership
  <2>3. \A j \in Op : state'[j] = "running" <=> j \in active'
    BY <1>5 DEF launch, Ownership, TypeOK
  <2>4. \A j, k \in active' \cap plan'.writes : j = k
    BY <1>5, <2>1 DEF launch, Ownership
  <2>5. QED
    BY <1>5, <2>1, <2>2, <2>3, <2>4 DEF launch, mayLaunch, Ownership
<1>6. CASE blockDone
  BY <1>6 DEF blockDone, Ownership
<1>7. CASE spawn
  BY <1>7 DEF spawn, Ownership, TypeOK
<1>8. CASE spawnFails
  BY <1>8, FinishOperationOwnership DEF spawnFails, Ownership
<1>9. CASE scheduleFlush
  BY <1>9 DEF scheduleFlush, Ownership
<1>10. CASE scheduleReturn
  BY <1>10 DEF scheduleReturn, Ownership
<1>11. CASE scheduleFinish
  BY <1>11 DEF scheduleFinish, allOver, finishRun, Ownership
<1>12. CASE cancel
  <2>1. \A i \in Op : state'[i] = "running" <=> state[i] = "running"
    BY <1>12 DEF cancel, cancelQueued
  <2>2. QED
    BY <1>12, <2>1 DEF cancel, Ownership
<1>13. CASE cancelFinish
  BY <1>13 DEF cancelFinish, finishRun, Ownership, Cancellation
<1>14. CASE closeJournal
  BY <1>14 DEF closeJournal, Ownership
<1>15. ASSUME NEW i \in Op, killTimer(i)
       PROVE  Ownership'
  BY <1>15 DEF killTimer, Ownership, TypeOK
<1>16. ASSUME NEW i \in Op, processFinished(i)
       PROVE  Ownership'
  <2>1. i \in active
    BY <1>16 DEF processFinished, Exited, Ownership
  <2>2. \A j \in Op : child'[j] = "none" \/ (j # i /\ child'[j] = child[j])
    BY <1>16 DEF processFinished, TypeOK
  <2>3. QED
    BY <1>16, <2>1, <2>2, FinishOperationOwnership DEF processFinished
<1>17. ASSUME NEW i \in Op, NEW code \in Exited, childExit(i, code)
       PROVE  Ownership'
  BY <1>17 DEF childExit, engineVars, Ownership, TypeOK
<1>18. CASE crash
  BY <1>18 DEF crash, restart, Ownership
<1>19. CASE quit
  BY <1>19 DEF quit, restart, Ownership
<1>20. CASE UNCHANGED vars
  BY <1>20 DEF vars, engineVars, Ownership
<1>21. QED
  BY <1>1, <1>2, <1>3, <1>4, <1>5, <1>6, <1>7, <1>8, <1>9, <1>10, <1>11, <1>12, <1>13,
     <1>14, <1>15, <1>16, <1>17, <1>18, <1>19, <1>20 DEF Next

LEMMA CancellationStep ==
  TypeOK /\ Ownership /\ Cancellation /\ [Next]_vars => Cancellation'
<1> SUFFICES ASSUME TypeOK, Ownership, Cancellation, [Next]_vars
             PROVE  Cancellation'
  OBVIOUS
<1>1. ASSUME NEW p \in Plans, NEW n \in Requests, start(p, n)
      PROVE  Cancellation'
  BY <1>1 DEF start, Cancellation
<1>2. CASE scheduleIdle
  BY <1>2 DEF scheduleIdle, Cancellation
<1>3. CASE scheduleBegin
  BY <1>3 DEF scheduleBegin, Cancellation
<1>4. ASSUME NEW i \in Op, blockOne(i)
      PROVE  Cancellation'
  BY <1>4 DEF blockOne, Cancellation, TypeOK
<1>5. ASSUME NEW i \in Op, launch(i)
      PROVE  Cancellation'
  BY <1>5 DEF launch, mayLaunch, Cancellation
<1>6. CASE blockDone
  BY <1>6 DEF blockDone, Cancellation
<1>7. CASE spawn
  BY <1>7 DEF spawn, Cancellation
<1>8. CASE spawnFails
  BY <1>8 DEF spawnFails, finishOperation, Cancellation, TypeOK
<1>9. CASE scheduleFlush
  BY <1>9 DEF scheduleFlush, Cancellation
<1>10. CASE scheduleReturn
  BY <1>10 DEF scheduleReturn, Cancellation
<1>11. CASE scheduleFinish
  BY <1>11 DEF scheduleFinish, finishRun, Cancellation
<1>12. CASE cancel
  BY <1>12 DEF cancel, cancelQueued, Cancellation
<1>13. CASE cancelFinish
  BY <1>13 DEF cancelFinish, finishRun, Cancellation
<1>14. CASE closeJournal
  BY <1>14 DEF closeJournal, Cancellation, Ownership
<1>15. ASSUME NEW i \in Op, killTimer(i)
       PROVE  Cancellation'
  BY <1>15 DEF killTimer, Cancellation
<1>16. ASSUME NEW i \in Op, processFinished(i)
       PROVE  Cancellation'
  BY <1>16 DEF processFinished, finishOperation, Cancellation, TypeOK
<1>17. ASSUME NEW i \in Op, NEW code \in Exited, childExit(i, code)
       PROVE  Cancellation'
  BY <1>17 DEF childExit, engineVars, Cancellation
<1>18. CASE crash
  BY <1>18 DEF crash, restart, Cancellation
<1>19. CASE quit
  BY <1>19 DEF quit, restart, Cancellation
<1>20. CASE UNCHANGED vars
  BY <1>20 DEF vars, engineVars, Cancellation
<1>21. QED
  BY <1>1, <1>2, <1>3, <1>4, <1>5, <1>6, <1>7, <1>8, <1>9, <1>10, <1>11, <1>12, <1>13,
     <1>14, <1>15, <1>16, <1>17, <1>18, <1>19, <1>20 DEF Next

\* The engine's book of active operations is exact at every step.
THEOREM OwnershipHolds == Spec => [](TypeOK /\ Ownership /\ Cancellation)
<1>1. Init => Cancellation
  BY DEF Init, Cancellation
<1>2. QED
  BY <1>1, InitType, InitOwnership, TypeStep, OwnershipStep, CancellationStep, PTL
     DEF Spec

\* No two processes write the mounted image at once.
THEOREM OneImageWriterHolds == Spec => []OneImageWriter
<1>1. TypeOK /\ Ownership => OneImageWriter
  BY DEF TypeOK, Ownership, OneImageWriter
<1>2. QED
  BY <1>1, OwnershipHolds, PTL

\* A process starts only while nobody cancelled, and one not marked parallel only
\* when nothing else is active.
THEOREM LaunchIsAllowedHolds == Spec => LaunchIsAllowed
<1> DEFINE Allowed ==
      \A i \in Op : child[i] = "none" /\ child'[i] = "alive" =>
        /\ ~cancelling
        /\ i \in plan.parallel \/ active = {i}
<1>1. ASSUME TypeOK, Ownership, [Next]_vars
      PROVE  [Allowed]_vars
  <2>1. CASE spawn
    BY <1>1, <2>1 DEF spawn, TypeOK, Ownership
  <2>2. ASSUME NEW i \in Op, killTimer(i)
        PROVE  Allowed
    BY <1>1, <2>2 DEF killTimer, TypeOK
  <2>3. ASSUME NEW i \in Op, processFinished(i)
        PROVE  Allowed
    BY <1>1, <2>3 DEF processFinished, TypeOK
  <2>4. ASSUME NEW i \in Op, NEW code \in Exited, childExit(i, code)
        PROVE  Allowed
    BY <1>1, <2>4 DEF childExit, TypeOK, Exited
  <2>5. CASE crash \/ quit
    BY <2>5 DEF crash, quit, restart
  <2>6. CASE child' = child
    BY <2>6
  <2>7. QED
    BY <1>1, <2>1, <2>2, <2>3, <2>4, <2>5, <2>6
       DEF Next, start, scheduleIdle, scheduleBegin, blockOne, blockDone, launch,
           spawnFails, scheduleFlush, scheduleReturn, scheduleFinish, finishRun,
           cancel, cancelFinish, closeJournal, vars
<1>2. QED
  BY <1>1, OwnershipHolds, PTL DEF Spec, LaunchIsAllowed

-----------------------------------------------------------------------------
(* The write-ahead journal.                                                *)

\* A write that happens records the run, its status and the active operations.
LEMMA WriteRecords ==
  ASSUME WriteAhead, running, NEW states,
         NEW status \in {"running", "cancelling"},
         writeJournal(runId, status, states),
         UNCHANGED <<runId, running>>,
         \A i \in active' : states[i] = "running"
  PROVE  WriteAhead'
<1>1. CASE /\ journal' = [run |-> runId, status |-> status, states |-> states]
           /\ journalStale' = FALSE
  BY <1>1 DEF WriteAhead, hasInterruptedRun
<1>2. CASE journalStale' = TRUE
  BY <1>2 DEF WriteAhead
<1>3. QED
  BY <1>1, <1>2 DEF writeJournal

LEMMA FinishOperationRecords ==
  ASSUME TypeOK, Ownership, WriteAhead, NEW i \in active, NEW ok \in BOOLEAN,
         finishOperation(i, ok), UNCHANGED <<runId, running>>
  PROVE  WriteAhead'
<1>1. running
  BY DEF Ownership
<1>2. \A j \in active' : state'[j] = "running"
  BY DEF finishOperation, TypeOK, Ownership
<1>3. liveStatus(cancelling) \in {"running", "cancelling"}
  BY DEF liveStatus
<1>4. QED
  BY <1>1, <1>2, <1>3, WriteRecords DEF finishOperation

LEMMA WriteAheadStep ==
  TypeOK /\ Ownership /\ Cancellation /\ WriteAhead /\ [Next]_vars => WriteAhead'
<1> SUFFICES ASSUME TypeOK, Ownership, Cancellation, WriteAhead, [Next]_vars
             PROVE  WriteAhead'
  OBVIOUS
<1>1. ASSUME NEW p \in Plans, NEW n \in Requests, start(p, n)
      PROVE  WriteAhead'
  BY <1>1 DEF start, writeJournal, WriteAhead, hasInterruptedRun
<1>2. CASE scheduleIdle
  BY <1>2 DEF scheduleIdle, WriteAhead, hasInterruptedRun
<1>3. CASE scheduleBegin
  BY <1>3 DEF scheduleBegin, WriteAhead, hasInterruptedRun
<1>4. ASSUME NEW i \in Op, blockOne(i)
      PROVE  WriteAhead'
  BY <1>4 DEF blockOne, WriteAhead, hasInterruptedRun
<1>5. ASSUME NEW i \in Op, launch(i)
      PROVE  WriteAhead'
  <2>1. running /\ \A j \in active' : state'[j] = "running"
    BY <1>5 DEF launch, TypeOK, Ownership
  <2>2. QED
    BY <1>5, <2>1, WriteRecords DEF launch
<1>6. CASE blockDone
  BY <1>6 DEF blockDone, WriteAhead, hasInterruptedRun
<1>7. CASE spawn
  BY <1>7 DEF spawn, WriteAhead, hasInterruptedRun
<1>8. CASE spawnFails
  <2>1. launching \in active
    BY <1>8 DEF spawnFails, Ownership
  <2>2. QED
    BY <1>8, <2>1, FinishOperationRecords DEF spawnFails
<1>9. CASE scheduleFlush
  <2>1. CASE changed
    <3>1. running /\ \A j \in active' : state[j] = "running"
      BY <1>9 DEF scheduleFlush, TypeOK, Ownership
    <3>2. liveStatus(cancelling) \in {"running", "cancelling"}
      BY DEF liveStatus
    <3>3. QED
      BY <1>9, <2>1, <3>1, <3>2, WriteRecords DEF scheduleFlush
  <2>2. CASE ~changed
    BY <1>9, <2>2 DEF scheduleFlush, WriteAhead, hasInterruptedRun
  <2>3. QED
    BY <2>1, <2>2
<1>10. CASE scheduleReturn
  BY <1>10 DEF scheduleReturn, WriteAhead, hasInterruptedRun
<1>11. CASE scheduleFinish
  BY <1>11 DEF scheduleFinish, finishRun, WriteAhead
<1>12. CASE cancel
  <2>1. running /\ \A j \in active' : cancelQueued[j] = "running"
    BY <1>12 DEF cancel, cancelQueued, TypeOK, Ownership
  <2>2. QED
    BY <1>12, <2>1, WriteRecords DEF cancel
<1>13. CASE cancelFinish
  BY <1>13 DEF cancelFinish, finishRun, WriteAhead
<1>14. CASE closeJournal
  BY <1>14 DEF closeJournal, Ownership, WriteAhead
<1>15. ASSUME NEW i \in Op, killTimer(i)
       PROVE  WriteAhead'
  BY <1>15 DEF killTimer, WriteAhead, hasInterruptedRun
<1>16. ASSUME NEW i \in Op, processFinished(i)
       PROVE  WriteAhead'
  <2>1. i \in active
    BY <1>16 DEF processFinished, Exited, Ownership
  <2>2. QED
    BY <1>16, <2>1, FinishOperationRecords DEF processFinished
<1>17. ASSUME NEW i \in Op, NEW code \in Exited, childExit(i, code)
       PROVE  WriteAhead'
  BY <1>17 DEF childExit, engineVars, WriteAhead, hasInterruptedRun
<1>18. CASE crash
  BY <1>18 DEF crash, restart, WriteAhead
<1>19. CASE quit
  BY <1>19 DEF quit, restart, WriteAhead
<1>20. CASE UNCHANGED vars
  BY <1>20 DEF vars, engineVars, WriteAhead, hasInterruptedRun
<1>21. QED
  BY <1>1, <1>2, <1>3, <1>4, <1>5, <1>6, <1>7, <1>8, <1>9, <1>10, <1>11, <1>12, <1>13,
     <1>14, <1>15, <1>16, <1>17, <1>18, <1>19, <1>20 DEF Next

\* Whenever a child process exists the journal names this run as interrupted and
\* this operation as running, unless the last write failed.
THEOREM LiveChildIsJournaledHolds == Spec => []LiveChildIsJournaled
<1>1. Init => WriteAhead
  BY DEF Init, WriteAhead
<1>2. TypeOK /\ Ownership /\ WriteAhead => LiveChildIsJournaled
  BY DEF Ownership, WriteAhead, LiveChildIsJournaled
<1>3. QED
  BY <1>1, <1>2, OwnershipHolds, WriteAheadStep, PTL DEF Spec

-----------------------------------------------------------------------------
(* Prerequisites.                                                          *)

\* If everything behind D is over and nothing behind it failed, then everything
\* behind it succeeded or was skipped.
LEMMA DoneAndClean ==
  ASSUME NEW deps \in [Op -> SUBSET Op], NEW st \in [Op -> OperationState],
         NEW D \in SUBSET Op, ChainDone(deps, st, D), ChainClean(deps, st, D)
  PROVE  \E S \in SUBSET Op : /\ D \subseteq S
                              /\ SkipClosed(deps, st, S)
                              /\ \A i \in S : st[i] \in {"done", "skipped"}
<1>1. PICK A \in SUBSET Op : /\ D \subseteq A
                             /\ SkipClosed(deps, st, A)
                             /\ \A i \in A : st[i] \in terminal
  BY DEF ChainDone
<1>2. PICK B \in SUBSET Op : /\ D \subseteq B
                             /\ SkipClosed(deps, st, B)
                             /\ \A i \in B : st[i] \notin Failing
  BY DEF ChainClean
<1>3. /\ D \subseteq A \cap B
      /\ SkipClosed(deps, st, A \cap B)
      /\ \A i \in A \cap B : st[i] \in {"done", "skipped"}
  BY <1>1, <1>2 DEF SkipClosed, terminal, Failing
<1>4. QED
  BY <1>3

\* What succeeded or was skipped stays so, and nothing else changes behind it.
LEMMA CleanIsStable ==
  ASSUME PrerequisitesFirst, UNCHANGED plan,
         \A d \in Op : state[d] \in {"done", "skipped"} => state'[d] = state[d],
         \A d \in Op : state'[d] \in {"running", "done"} =>
           state[d] \in {"running", "done"}
  PROVE  PrerequisitesFirst'
<1> SUFFICES ASSUME NEW i \in Op, state'[i] \in {"running", "done"}
             PROVE  \E S \in SUBSET Op :
                      /\ plan.deps[i] \subseteq S
                      /\ SkipClosed(plan.deps, state', S)
                      /\ \A d \in S : state'[d] \in {"done", "skipped"}
  BY DEF PrerequisitesFirst, SkipClosed
<1>1. PICK S \in SUBSET Op : /\ plan.deps[i] \subseteq S
                             /\ SkipClosed(plan.deps, state, S)
                             /\ \A d \in S : state[d] \in {"done", "skipped"}
  BY DEF PrerequisitesFirst
<1>2. \A d \in S : state'[d] = state[d]
  BY <1>1
<1>3. SkipClosed(plan.deps, state', S)
  BY <1>1, <1>2 DEF SkipClosed
<1>4. QED
  BY <1>1, <1>2, <1>3

LEMMA GraphType == TypeOK => plan.deps \in [Op -> SUBSET Op]
<1>1. TypeOK => plan \in Plan
  BY PlanType DEF TypeOK
<1>2. QED
  BY <1>1 DEF Plan

LEMMA FinishOperationPrerequisites ==
  ASSUME TypeOK, Ownership, PrerequisitesFirst, NEW i \in active, NEW ok \in BOOLEAN,
         finishOperation(i, ok), UNCHANGED plan
  PROVE  PrerequisitesFirst'
<1>1. i \in Op /\ state[i] = "running"
  BY DEF TypeOK, Ownership
<1>2. \A d \in Op : state[d] \in {"done", "skipped"} => state'[d] = state[d]
  BY <1>1 DEF finishOperation, TypeOK
<1>3. \A d \in Op : state'[d] \in {"running", "done"} => state[d] \in {"running", "done"}
  BY <1>1 DEF finishOperation, TypeOK
<1>4. QED
  BY <1>2, <1>3, CleanIsStable

LEMMA PrerequisitesStep ==
  TypeOK /\ Ownership /\ PrerequisitesFirst /\ [Next]_vars => PrerequisitesFirst'
<1> SUFFICES ASSUME TypeOK, Ownership, PrerequisitesFirst, [Next]_vars
             PROVE  PrerequisitesFirst'
  OBVIOUS
<1>1. ASSUME NEW p \in Plans, NEW n \in Requests, start(p, n)
      PROVE  PrerequisitesFirst'
  BY <1>1 DEF start, PrerequisitesFirst
<1>2. ASSUME NEW i \in Op, blockOne(i)
      PROVE  PrerequisitesFirst'
  <2>1. /\ \A d \in Op : state[d] \in {"done", "skipped"} => state'[d] = state[d]
        /\ \A d \in Op : state'[d] \in {"running", "done"} => state'[d] = state[d]
    BY <1>2 DEF blockOne, First, blockable, TypeOK
  <2>2. QED
    BY <1>2, <2>1, CleanIsStable DEF blockOne
<1>3. ASSUME NEW i \in Op, launch(i)
      PROVE  PrerequisitesFirst'
  <2>1. /\ state[i] = "queued"
        /\ ChainDone(plan.deps, state, plan.deps[i])
        /\ ChainClean(plan.deps, state, plan.deps[i])
    BY <1>3 DEF launch, First, candidates, ready, dependenciesDone, dependencyFailed
  <2>2. PICK S \in SUBSET Op : /\ plan.deps[i] \subseteq S
                               /\ SkipClosed(plan.deps, state, S)
                               /\ \A d \in S : state[d] \in {"done", "skipped"}
    <3>1. plan.deps[i] \in SUBSET Op /\ state \in [Op -> OperationState]
      BY GraphType DEF TypeOK
    <3>2. QED
      BY <2>1, <3>1, GraphType, DoneAndClean
  <2>3. plan' = plan /\ state' = [state EXCEPT ![i] = "running"]
    BY <1>3 DEF launch
  <2>4. \A j \in Op : j # i => state'[j] = state[j]
    BY <2>3 DEF TypeOK
  <2>5. SUFFICES ASSUME NEW j \in Op, state'[j] \in {"running", "done"}
                 PROVE  \E T \in SUBSET Op :
                          /\ plan.deps[j] \subseteq T
                          /\ SkipClosed(plan.deps, state, T)
                          /\ \A d \in T : state[d] \in {"done", "skipped"}
    <3>1. ASSUME NEW T \in SUBSET Op, SkipClosed(plan.deps, state, T),
                 \A d \in T : state[d] \in {"done", "skipped"}
          PROVE  /\ SkipClosed(plan.deps, state', T)
                 /\ \A d \in T : state'[d] \in {"done", "skipped"}
      <4>1. \A d \in T : state'[d] = state[d]
        BY <2>1, <2>4, <3>1
      <4>2. QED
        BY <3>1, <4>1 DEF SkipClosed
    <3>2. QED
      BY <2>3, <3>1 DEF PrerequisitesFirst, SkipClosed
  <2>6. CASE j = i
    BY <2>2, <2>6
  <2>7. CASE j # i
    BY <2>4, <2>5, <2>7 DEF PrerequisitesFirst
  <2>8. QED
    BY <2>6, <2>7
<1>4. CASE spawnFails
  BY <1>4, FinishOperationPrerequisites DEF spawnFails, Ownership
<1>5. CASE cancel
  <2>1. /\ \A d \in Op : state[d] \in {"done", "skipped"} => state'[d] = state[d]
        /\ \A d \in Op : state'[d] \in {"running", "done"} => state'[d] = state[d]
    BY <1>5 DEF cancel, cancelQueued
  <2>2. QED
    BY <1>5, <2>1, CleanIsStable DEF cancel
<1>6. ASSUME NEW i \in Op, processFinished(i)
      PROVE  PrerequisitesFirst'
  <2>1. i \in active
    BY <1>6 DEF processFinished, Exited, Ownership
  <2>2. QED
    BY <1>6, <2>1, FinishOperationPrerequisites DEF processFinished
<1>7. CASE crash \/ quit
  BY <1>7 DEF crash, quit, restart, PrerequisitesFirst
<1>8. CASE UNCHANGED <<plan, state>>
  BY <1>8 DEF PrerequisitesFirst, SkipClosed
<1>9. QED
  BY <1>1, <1>2, <1>3, <1>4, <1>5, <1>6, <1>7, <1>8
     DEF Next, scheduleIdle, scheduleBegin, blockDone, spawn, scheduleFlush,
         scheduleReturn, scheduleFinish, finishRun, cancelFinish, closeJournal,
         killTimer, childExit, engineVars, vars

\* An operation runs, or has succeeded, only over prerequisites that all succeeded
\* or were skipped over prerequisites that did.
THEOREM PrerequisitesFirstHolds == Spec => []PrerequisitesFirst
<1>1. Init => PrerequisitesFirst
  BY DEF Init, PrerequisitesFirst
<1>2. QED
  BY <1>1, OwnershipHolds, PrerequisitesStep, PTL DEF Spec

-----------------------------------------------------------------------------
(* The scheduler is always woken.                                          *)

\* If each member of D is over and everything behind its skipped members is over,
\* then everything behind D is over.
LEMMA ChainDoneByParts ==
  ASSUME NEW deps \in [Op -> SUBSET Op], NEW st \in [Op -> OperationState],
         NEW D \in SUBSET Op,
         \A d \in D : /\ st[d] \in terminal
                      /\ st[d] = "skipped" => ChainDone(deps, st, deps[d])
  PROVE  ChainDone(deps, st, D)
<1> DEFINE Over(T) == SkipClosed(deps, st, T) /\ \A i \in T : st[i] \in terminal
           Rest == {i \in Op : \E T \in SUBSET Op : Over(T) /\ i \in T}
<1>1. \A i \in Rest : /\ st[i] \in terminal
                      /\ st[i] = "skipped" => deps[i] \subseteq Rest
  BY DEF SkipClosed
<1>2. \A d \in D : st[d] = "skipped" => deps[d] \subseteq Rest
  BY DEF ChainDone
<1>3. /\ D \subseteq D \cup Rest
      /\ SkipClosed(deps, st, D \cup Rest)
      /\ \A i \in D \cup Rest : st[i] \in terminal
  BY <1>1, <1>2 DEF SkipClosed
<1>4. D \cup Rest \in SUBSET Op
  OBVIOUS
<1>5. QED
  BY <1>3, <1>4 DEF ChainDone

\* In an acyclic plan, if nothing runs and no queued operation has its
\* prerequisites over, then nothing is queued at all.
LEMMA NothingLeft ==
  ASSUME NEW deps \in [Op -> SUBSET Op], NEW st \in [Op -> OperationState],
         Acyclic(deps),
         \A i \in Op : st[i] # "running",
         \A i \in Op : st[i] = "queued" => ~ChainDone(deps, st, deps[i])
  PROVE  \A i \in Op : st[i] \in terminal
<1> DEFINE S == {i \in Op : \/ st[i] = "queued"
                            \/ st[i] = "skipped" /\ ~ChainDone(deps, st, deps[i])}
<1>1. S = {}
  <2>1. SUFFICES ASSUME S # {}
                 PROVE  FALSE
    OBVIOUS
  <2>2. PICK i \in S : deps[i] \cap S = {}
    BY <2>1 DEF Acyclic
  <2>3. \A d \in deps[i] : /\ st[d] \in terminal
                           /\ st[d] = "skipped" => ChainDone(deps, st, deps[d])
    BY <2>2 DEF terminal, OperationState
  <2>4. ChainDone(deps, st, deps[i])
    <3>1. deps[i] \in SUBSET Op
      OBVIOUS
    <3>2. QED
      BY <2>3, <3>1, ChainDoneByParts
  <2>5. QED
    BY <2>2, <2>4
<1>2. QED
  BY <1>1 DEF terminal, OperationState

\* Launching one operation makes no other one blockable.
LEMMA LaunchBlocksNothing ==
  ASSUME TypeOK, blockable = {}, NEW i \in Op, state[i] = "queued",
         state' = [state EXCEPT ![i] = "running"], UNCHANGED plan
  PROVE  blockable' = {}
<1>1. \A j \in Op : j # i => state'[j] = state[j]
  BY DEF TypeOK
<1>2. state'[i] = "running"
  BY DEF TypeOK
<1>3. ASSUME NEW D, ChainDone(plan.deps, state', D)
      PROVE  ChainDone(plan.deps, state, D)
  <2>1. PICK S \in SUBSET Op : /\ D \subseteq S
                               /\ SkipClosed(plan.deps, state', S)
                               /\ \A j \in S : state'[j] \in terminal
    BY <1>3 DEF ChainDone
  <2>2. \A j \in S : state'[j] = state[j]
    BY <1>1, <1>2, <2>1 DEF terminal
  <2>3. SkipClosed(plan.deps, state, S) /\ \A j \in S : state[j] \in terminal
    BY <2>1, <2>2 DEF SkipClosed
  <2>4. QED
    BY <2>1, <2>3 DEF ChainDone
<1>4. ASSUME NEW D, ChainClean(plan.deps, state, D)
      PROVE  ChainClean(plan.deps, state', D)
  <2>1. PICK S \in SUBSET Op : /\ D \subseteq S
                               /\ SkipClosed(plan.deps, state, S)
                               /\ \A j \in S : state[j] \notin Failing
    BY <1>4 DEF ChainClean
  <2>2. SkipClosed(plan.deps, state', S) /\ \A j \in S : state'[j] \notin Failing
    BY <1>1, <1>2, <2>1 DEF SkipClosed, Failing
  <2>3. QED
    BY <2>1, <2>2 DEF ChainClean
<1>5. SUFFICES ASSUME NEW j \in Op, j \in blockable'
               PROVE  FALSE
  BY DEF blockable
<1>6. /\ state'[j] = "queued"
      /\ ChainDone(plan.deps, state', plan.deps[j])
      /\ ~ChainClean(plan.deps, state', plan.deps[j])
  BY <1>5 DEF blockable, dependenciesDone, dependencyFailed
<1>7. /\ state[j] = "queued"
      /\ ChainDone(plan.deps, state, plan.deps[j])
      /\ ~ChainClean(plan.deps, state, plan.deps[j])
  BY <1>1, <1>2, <1>3, <1>4, <1>6
<1>8. QED
  BY <1>7 DEF blockable, dependenciesDone, dependencyFailed

\* When schedule leaves its launch loop with nothing active, nothing is left.
LEMMA FlushDrains ==
  ASSUME TypeOK, Ownership, Cancellation, Wakefulness, scheduleFlush,
         ticks = 0, active = {}
  PROVE  \A i \in Op : state[i] \in terminal
<1>1. running /\ pc = "pick"
  BY DEF scheduleFlush, Ownership
<1>2. \A i \in Op : state[i] # "running"
  BY DEF Ownership
<1>3. CASE cancelling
  <2>1. \A i \in Op : state[i] # "queued"
    BY <1>1, <1>3 DEF Cancellation
  <2>2. QED
    BY <1>2, <2>1 DEF TypeOK, OperationState, terminal
<1>4. CASE ~cancelling
  <2>1. candidates = {}
    <3>1. Cardinality(active) = 0
      BY FS_EmptySet
    <3>2. Cardinality(active) < maximumParallel
      BY <3>1 DEF TypeOK
    <3>3. QED
      BY <1>4, <3>2 DEF scheduleFlush, mayLaunch
  <2>2. ready = {}
    BY <2>1 DEF candidates
  <2>3. blockable = {}
    BY <1>1 DEF Wakefulness
  <2>4. \A i \in Op : state[i] = "queued" => ~ChainDone(plan.deps, state, plan.deps[i])
    BY <2>2, <2>3 DEF ready, blockable, dependenciesDone, dependencyFailed
  <2>5. Acyclic(plan.deps)
    BY <1>1 DEF Wakefulness
  <2>6. state \in [Op -> OperationState]
    BY DEF TypeOK
  <2>7. QED
    BY <1>2, <2>4, <2>5, <2>6, GraphType, NothingLeft
<1>5. QED
  BY <1>3, <1>4

LEMMA WakefulnessStep ==
  TypeOK /\ Ownership /\ Cancellation /\ Wakefulness /\ [Next]_vars => Wakefulness'
<1> SUFFICES ASSUME TypeOK, Ownership, Cancellation, Wakefulness, [Next]_vars
             PROVE  Wakefulness'
  OBVIOUS
<1>1. ASSUME NEW p \in Plans, NEW n \in Requests, start(p, n)
      PROVE  Wakefulness'
  BY <1>1 DEF start, Wakefulness, TypeOK
<1>2. CASE scheduleIdle
  BY <1>2 DEF scheduleIdle, Wakefulness
<1>3. CASE scheduleBegin
  BY <1>3 DEF scheduleBegin, Wakefulness
<1>4. ASSUME NEW i \in Op, blockOne(i)
      PROVE  Wakefulness'
  BY <1>4 DEF blockOne, Wakefulness
<1>5. ASSUME NEW i \in Op, launch(i)
      PROVE  Wakefulness'
  <2>1. state[i] = "queued"
    BY <1>5 DEF launch, First, candidates, ready
  <2>2. CASE ticks = 0
    <3>1. blockable = {}
      BY <1>5, <2>2 DEF launch, Wakefulness
    <3>2. blockable' = {}
      BY <1>5, <2>1, <3>1, LaunchBlocksNothing DEF launch
    <3>3. QED
      BY <1>5, <3>2 DEF launch, Wakefulness
  <2>3. CASE ticks # 0
    BY <1>5, <2>3 DEF launch, Wakefulness
  <2>4. QED
    BY <2>2, <2>3
<1>6. CASE blockDone
  BY <1>6 DEF blockDone, Wakefulness, blockable
<1>7. CASE spawn
  BY <1>7 DEF spawn, Wakefulness, blockable
<1>8. CASE spawnFails
  BY <1>8 DEF spawnFails, finishOperation, Wakefulness, TypeOK
<1>9. CASE scheduleFlush
  BY <1>9, FlushDrains DEF scheduleFlush, Wakefulness
<1>10. CASE scheduleReturn
  BY <1>10 DEF scheduleReturn, allOver, Wakefulness
<1>11. CASE scheduleFinish
  BY <1>11 DEF scheduleFinish, finishRun, Wakefulness
<1>12. CASE cancel
  BY <1>12 DEF cancel, Wakefulness
<1>13. CASE cancelFinish
  BY <1>13 DEF cancelFinish, finishRun, Wakefulness
<1>14. CASE closeJournal
  BY <1>14 DEF closeJournal, Ownership, Wakefulness
<1>15. ASSUME NEW i \in Op, killTimer(i)
       PROVE  Wakefulness'
  BY <1>15 DEF killTimer, Wakefulness
<1>16. ASSUME NEW i \in Op, processFinished(i)
       PROVE  Wakefulness'
  BY <1>16 DEF processFinished, finishOperation, Wakefulness, TypeOK
<1>17. ASSUME NEW i \in Op, NEW code \in Exited, childExit(i, code)
       PROVE  Wakefulness'
  BY <1>17 DEF childExit, engineVars, Wakefulness, blockable
<1>18. CASE crash
  BY <1>18 DEF crash, restart, Wakefulness
<1>19. CASE quit
  BY <1>19 DEF quit, restart, Wakefulness
<1>20. CASE UNCHANGED vars
  BY <1>20 DEF vars, engineVars, Wakefulness, blockable
<1>21. QED
  BY <1>1, <1>2, <1>3, <1>4, <1>5, <1>6, <1>7, <1>8, <1>9, <1>10, <1>11, <1>12, <1>13,
     <1>14, <1>15, <1>16, <1>17, <1>18, <1>19, <1>20 DEF Next

\* The scheduler never goes to sleep on a run: with no timer posted, a child is
\* there to wake it.
THEOREM SchedulerIsWokenHolds == Spec => []SchedulerIsWoken
<1>1. Init => Wakefulness
  BY DEF Init, Wakefulness
<1>2. Wakefulness => SchedulerIsWoken
  BY DEF Wakefulness, SchedulerIsWoken
<1>3. QED
  BY <1>1, <1>2, OwnershipHolds, WakefulnessStep, PTL DEF Spec

-----------------------------------------------------------------------------
(* What a journal closed as succeeded shows.                               *)

Good == {"done", "skipped"}

\* The journal file through a run: it is the run's own, says so, and what it shows
\* as over is over in memory too, however old its list is; between the two writes
\* of finishRun a run that completed has succeeded in memory, and in the file too
\* unless the first of them failed.
Completed ==
  /\ SucceededJournalIsComplete
  /\ journal.run <= runId
  /\ running => hasInterruptedRun
  /\ running \/ pc = "closing" =>
       /\ journal.run = runId
       /\ \A i \in Op : journal.states[i] \in terminal => state[i] = journal.states[i]
  /\ pc = "closing" /\ result = "completed" =>
       /\ \A i \in Op : state[i] \in Good
       /\ ~journalStale => \A i \in Op : journal.states[i] \in Good

\* A write of a live run leaves a journal of that run that shows nothing over but
\* what is, provided the operations over stay as they were.
LEMMA LiveWrite ==
  ASSUME TypeOK, Completed, running, NEW status \in {"running", "cancelling"},
         writeJournal(runId, status, state'), UNCHANGED runId,
         running', pc' # "closing",
         \A i \in Op : state[i] \in terminal => state'[i] = state[i]
  PROVE  Completed'
<1>1. CASE journal' = [run |-> runId, status |-> status, states |-> state'] /\ journalStale' = FALSE
  BY <1>1 DEF Completed, SucceededJournalIsComplete, hasInterruptedRun, TypeOK
<1>2. CASE UNCHANGED journal
  <2>1. journal.run = runId /\ journal.status # "succeeded"
    BY DEF Completed, hasInterruptedRun
  <2>2. \A i \in Op : journal.states[i] \in terminal => state'[i] = journal.states[i]
    BY DEF Completed
  <2>3. QED
    BY <1>2, <2>1, <2>2 DEF Completed, SucceededJournalIsComplete, hasInterruptedRun
<1>3. QED
  BY <1>1, <1>2 DEF writeJournal

\* So does a step of a live run that writes no journal.
LEMMA LiveStep ==
  ASSUME TypeOK, Completed, running,
         UNCHANGED <<journal, journalStale, runId, running>>, pc' # "closing",
         \A i \in Op : state[i] \in terminal => state'[i] = state[i]
  PROVE  Completed'
<1>1. journal.run = runId /\ journal.status # "succeeded"
  BY DEF Completed, hasInterruptedRun
<1>2. \A i \in Op : journal.states[i] \in terminal => state'[i] = journal.states[i]
  BY DEF Completed
<1>3. QED
  BY <1>1, <1>2 DEF Completed, SucceededJournalIsComplete, hasInterruptedRun

\* The first write of finishRun.
LEMMA FinishWrite ==
  ASSUME TypeOK, Completed, running, NEW message, finishRun(message),
         message = "completed" => \A i \in Op : state[i] \in Good
  PROVE  Completed'
<1>1. UNCHANGED <<state, runId>> /\ ~running' /\ pc' = "closing" /\ result' = message
  BY DEF finishRun
<1>2. CASE journal' = [run |-> runId, status |-> "finished", states |-> state]
  BY <1>1, <1>2 DEF Completed, SucceededJournalIsComplete, TypeOK
<1>3. CASE UNCHANGED journal /\ journalStale'
  BY <1>1, <1>3 DEF Completed, SucceededJournalIsComplete, hasInterruptedRun
<1>4. QED
  BY <1>2, <1>3 DEF finishRun, writeJournal

LEMMA CompletedStep == TypeOK /\ Ownership /\ Completed /\ [Next]_vars => Completed'
<1> SUFFICES ASSUME TypeOK, Ownership, Completed, [Next]_vars
             PROVE  Completed'
  OBVIOUS
<1> USE DEF terminal
<1>1. ASSUME NEW p \in Plans, NEW n \in Requests, start(p, n)
      PROVE  Completed'
  <2>1. CASE /\ journal' = [run |-> runId + 1, status |-> "running", states |-> state']
             /\ journalStale' = FALSE
    BY <1>1, <2>1 DEF start, Completed, SucceededJournalIsComplete, hasInterruptedRun, TypeOK
  <2>2. CASE UNCHANGED journal /\ journalStale'
    <3>1. journal.run # runId + 1 /\ runId' = runId + 1 /\ ~running' /\ pc' = "loop"
      BY <1>1, <2>2 DEF start, Completed, TypeOK, Journal
    <3>2. journal.run <= runId + 1
      BY DEF Completed, TypeOK, Journal
    <3>3. QED
      BY <2>2, <3>1, <3>2 DEF Completed, SucceededJournalIsComplete
  <2>3. QED
    BY <1>1, <2>1, <2>2 DEF start, writeJournal
<1>2. ASSUME NEW i \in Op, launch(i)
      PROVE  Completed'
  <2>1. state[i] = "queued" /\ running
    BY <1>2 DEF launch, First, candidates, ready, Ownership
  <2>2. QED
    BY <1>2, <2>1, LiveWrite DEF launch, TypeOK
<1>3. ASSUME NEW i \in Op, NEW success \in BOOLEAN, finishOperation(i, success),
             running, UNCHANGED <<running, runId>>, pc' # "closing"
      PROVE  Completed'
  <2>1. liveStatus(cancelling) \in {"running", "cancelling"}
    BY DEF liveStatus
  <2>2. QED
    BY <1>3, <2>1, LiveWrite DEF finishOperation, TypeOK
<1>4. CASE spawnFails
  <2>1. running /\ launching \in Op
    BY <1>4 DEF spawnFails, Ownership, TypeOK
  <2>2. QED
    BY <1>3, <1>4, <2>1 DEF spawnFails
<1>5. CASE scheduleFlush
  <2>1. running /\ liveStatus(cancelling) \in {"running", "cancelling"}
    BY <1>5 DEF scheduleFlush, Ownership, liveStatus
  <2>2. CASE UNCHANGED <<journal, journalStale>>
    BY <1>5, <2>1, <2>2, LiveStep DEF scheduleFlush
  <2>3. CASE writeJournal(runId, liveStatus(cancelling), state)
    BY <1>5, <2>1, <2>3, LiveWrite DEF scheduleFlush
  <2>4. QED
    BY <1>5, <2>2, <2>3 DEF scheduleFlush
<1>6. CASE scheduleFinish
  BY <1>6, FinishWrite DEF scheduleFinish, Ownership, Good
<1>7. CASE cancel
  BY <1>7, LiveWrite DEF cancel, cancelQueued, TypeOK
<1>8. CASE cancelFinish
  BY <1>8, FinishWrite DEF cancelFinish, Ownership
<1>9. CASE closeJournal
  <2>1. CASE journal' = [journal EXCEPT !.status = finalStatus]
    <3>1. /\ journal'.status = finalStatus
          /\ journal'.states = journal.states /\ journal'.run = journal.run
      BY <2>1 DEF TypeOK, Journal
    <3>2. journal'.status = "succeeded" => result = "completed"
      BY <3>1 DEF finalStatus
    <3>3. \A i \in Op : journal.states[i] \in terminal => state[i] = journal.states[i]
      BY <1>9 DEF closeJournal, Completed
    <3>4. /\ UNCHANGED <<state, runId, running, journalStale>>
          /\ ~running' /\ pc' = "loop" /\ pc = "closing"
      BY <1>9 DEF closeJournal, Ownership
    <3>5. result = "completed" =>
            /\ \A i \in Op : state[i] \in Good
            /\ \A i \in Op : journal.states[i] \notin Failing
            /\ ~journalStale => \A i \in Op : journal.states[i] \in Good
      BY <3>3, <3>4 DEF Completed, Good, Failing
    <3>6. SucceededJournalIsComplete'
      BY <3>1, <3>2, <3>4, <3>5 DEF SucceededJournalIsComplete, Good
    <3>7. QED
      BY <3>1, <3>4, <3>6 DEF Completed
  <2>2. CASE UNCHANGED journal
    BY <1>9, <2>2 DEF closeJournal, Completed, SucceededJournalIsComplete, Ownership
  <2>3. QED
    BY <1>9, <2>1, <2>2 DEF closeJournal
<1>10. ASSUME NEW i \in Op, processFinished(i)
       PROVE  Completed'
  <2>1. running /\ pc' # "closing" /\ UNCHANGED <<running, runId>>
    BY <1>10 DEF processFinished, Ownership, Exited
  <2>2. finishOperation(i, child[i] = "exited0")
    BY <1>10 DEF processFinished
  <2>3. QED
    BY <1>3, <2>1, <2>2
<1>11. CASE crash \/ quit
  <2>1. /\ state' = [i \in Op |-> "skipped"] /\ UNCHANGED runId
        /\ ~running' /\ pc' = "loop"
    BY <1>11 DEF crash, quit, restart
  <2>2. CASE UNCHANGED <<journal, journalStale>>
    BY <2>1, <2>2 DEF Completed, SucceededJournalIsComplete
  <2>3. CASE running /\ journal'.status # "succeeded" /\ journal'.run = runId
    BY <2>1, <2>3 DEF Completed, SucceededJournalIsComplete, TypeOK
  <2>4. ASSUME quit, running, NEW status \in {"cancelling", "cancelled", "finished"},
               writeJournal(runId, status, cancelQueued)
        PROVE  Completed'
    <3>1. UNCHANGED journal => journal.status # "succeeded" /\ journal.run = runId
      BY <2>4 DEF Completed, hasInterruptedRun
    <3>2. QED
      BY <2>3, <2>4, <3>1 DEF writeJournal
  <2>5. CASE running /\ journal' = [journal EXCEPT !.status = "cancelled"]
    <3>1. journal.run = runId
      BY <2>5 DEF Completed
    <3>2. QED
      BY <2>3, <2>5, <3>1 DEF TypeOK, Journal
  <2>6. QED
    BY <1>11, <2>2, <2>4, <2>5 DEF crash, quit
<1>12. ASSUME NEW i \in Op, blockOne(i)
       PROVE  Completed'
  BY <1>12, LiveStep DEF blockOne, First, blockable, Ownership, TypeOK
<1>13. CASE scheduleBegin \/ blockDone \/ spawn \/ scheduleReturn
  BY <1>13, LiveStep DEF scheduleBegin, blockDone, spawn, scheduleReturn, Ownership
<1>14. CASE UNCHANGED <<state, running, runId, journal, journalStale, pc, result>>
  BY <1>14 DEF Completed, SucceededJournalIsComplete, hasInterruptedRun
<1>15. QED
  BY <1>1, <1>2, <1>4, <1>5, <1>6, <1>7, <1>8, <1>9, <1>10, <1>11, <1>12, <1>13, <1>14
     DEF Next, scheduleIdle, killTimer, childExit, engineVars, vars

\* A journal closed as succeeded belongs to a run that succeeded, shows nothing
\* failed, and lists every operation as done or skipped unless the last write of
\* the operations failed.
THEOREM SucceededJournalIsCompleteHolds == Spec => []SucceededJournalIsComplete
<1>1. Init => Completed
  BY DEF Init, NoJournal, Completed, SucceededJournalIsComplete
<1>2. Completed => SucceededJournalIsComplete
  BY DEF Completed
<1>3. QED
  BY <1>1, <1>2, OwnershipHolds, CompletedStep, PTL DEF Spec

-----------------------------------------------------------------------------
(* What is over stays over.                                                *)

\* Only an engine that has not started anything holds the empty plan.
NothingStarted == plan = NoPlan => \A i \in Op : state[i] = "skipped"

LEMMA FinishOperationIsFinal ==
  ASSUME TypeOK, NEW i \in Op, NEW ok \in BOOLEAN, finishOperation(i, ok)
  PROVE  \A j \in Op : state[j] \in terminal => state'[j] = state[j]
  BY DEF finishOperation, TypeOK

LEMMA FinalStep ==
  TypeOK /\ NothingStarted /\ [Next]_vars =>
    /\ NothingStarted'
    /\ runId' = runId /\ plan' = plan =>
         \A i \in Op : state[i] \in terminal => state'[i] = state[i]
<1> SUFFICES ASSUME TypeOK, NothingStarted, [Next]_vars
             PROVE  /\ NothingStarted'
                    /\ runId' = runId /\ plan' = plan =>
                         \A i \in Op : state[i] \in terminal => state'[i] = state[i]
  OBVIOUS
<1>1. CASE \E p \in Plans, n \in Requests : start(p, n)
  <2>1. runId' # runId /\ plan'.allowed
    BY <1>1 DEF start, TypeOK
  <2>2. QED
    BY <2>1 DEF NoPlan, NothingStarted
<1>2. CASE crash \/ quit
  BY <1>2 DEF crash, quit, restart, NothingStarted
<1>3. ASSUME UNCHANGED plan,
             \A i \in Op : state[i] \in terminal => state'[i] = state[i]
      PROVE  /\ NothingStarted'
             /\ runId' = runId /\ plan' = plan =>
                  \A i \in Op : state[i] \in terminal => state'[i] = state[i]
  BY <1>3 DEF NothingStarted, terminal
<1>4. ASSUME NEW i \in Op, blockOne(i) \/ launch(i)
      PROVE  UNCHANGED plan /\ \A j \in Op : state[j] \in terminal => state'[j] = state[j]
  BY <1>4 DEF blockOne, launch, First, blockable, candidates, ready, terminal, TypeOK
<1>5. CASE spawnFails
  BY <1>3, <1>5, FinishOperationIsFinal DEF spawnFails, TypeOK
<1>6. ASSUME NEW i \in Op, processFinished(i)
      PROVE  UNCHANGED plan /\ \A j \in Op : state[j] \in terminal => state'[j] = state[j]
  BY <1>6, FinishOperationIsFinal DEF processFinished
<1>7. CASE cancel
  BY <1>3, <1>7 DEF cancel, cancelQueued, terminal
<1>8. CASE UNCHANGED <<plan, state>>
  BY <1>3, <1>8
<1>9. QED
  BY <1>1, <1>2, <1>3, <1>4, <1>5, <1>6, <1>7, <1>8
     DEF Next, scheduleIdle, scheduleBegin, blockDone, spawn, scheduleFlush,
         scheduleReturn, scheduleFinish, finishRun, cancelFinish, closeJournal,
         killTimer, childExit, engineVars, vars

\* Within a run an operation that is over stays as it is.
THEOREM TerminalIsFinalHolds == Spec => TerminalIsFinal
<1>1. Init => NothingStarted
  BY DEF Init, NothingStarted
<1>2. TypeOK /\ NothingStarted /\ [Next]_vars =>
        [runId' = runId /\ plan' = plan =>
           \A i \in Op : state[i] \in terminal => state'[i] = state[i]]_vars
  BY FinalStep
<1>3. TypeOK /\ NothingStarted /\ [Next]_vars => NothingStarted'
  BY FinalStep
<1>4. QED
  BY <1>1, <1>2, <1>3, TypeCorrect, PTL DEF Spec, TerminalIsFinal

-----------------------------------------------------------------------------
(* The limit on active operations.                                         *)

WithinLimit == Cardinality(active) <= maximumParallel

\* Operations are finitely many, and so are the active ones.
LEMMA ActiveIsFinite == TypeOK => IsFiniteSet(active)
<1>1. IsFiniteSet(Op)
  BY FS_Interval DEF Op
<1>2. QED
  BY <1>1, FS_Subset DEF TypeOK

LEMMA FinishOperationIsWithin ==
  ASSUME TypeOK, WithinLimit, NEW i \in Op, NEW ok \in BOOLEAN, finishOperation(i, ok),
         UNCHANGED maximumParallel
  PROVE  WithinLimit'
<1>1. IsFiniteSet(active)
  BY ActiveIsFinite
<1>2. active' = active \ {i}
  BY DEF finishOperation
<1>3. /\ Cardinality(active \ {i}) <= Cardinality(active)
      /\ Cardinality(active) \in Nat /\ Cardinality(active \ {i}) \in Nat
  <2>1. IsFiniteSet(active \ {i})
    BY <1>1, FS_Subset
  <2>2. /\ Cardinality(active \ {i}) <= Cardinality(active)
        /\ Cardinality(active) \in Nat
    BY <1>1, FS_Subset, FS_CardinalityType
  <2>3. QED
    BY <2>1, <2>2, FS_CardinalityType
<1>4. QED
  BY <1>2, <1>3 DEF WithinLimit, TypeOK

LEMMA NoneIsWithin ==
  ASSUME active' = {}, maximumParallel' \in 1..16
  PROVE  WithinLimit'
<1>1. Cardinality(active') = 0
  BY FS_EmptySet
<1>2. QED
  BY <1>1 DEF WithinLimit

LEMMA WithinStep == TypeOK /\ WithinLimit /\ [Next]_vars => WithinLimit'
<1> SUFFICES ASSUME TypeOK, WithinLimit, [Next]_vars
             PROVE  WithinLimit'
  OBVIOUS
<1>1. TypeOK'
  BY TypeStep
<1>2. ASSUME NEW p \in Plans, NEW n \in Requests, start(p, n)
      PROVE  WithinLimit'
  BY <1>1, <1>2, NoneIsWithin DEF start, TypeOK
<1>3. ASSUME NEW i \in Op, launch(i)
      PROVE  WithinLimit'
  <2>1. /\ Cardinality(active) < maximumParallel
        /\ active' = active \cup {i} /\ maximumParallel' = maximumParallel
    BY <1>3 DEF launch, mayLaunch
  <2>2. /\ Cardinality(active \cup {i}) <= Cardinality(active) + 1
        /\ Cardinality(active) \in Nat
    BY ActiveIsFinite, FS_AddElement, FS_CardinalityType
  <2>3. Cardinality(active \cup {i}) \in Nat /\ maximumParallel \in Nat
    BY ActiveIsFinite, FS_AddElement, FS_CardinalityType DEF TypeOK
  <2>4. QED
    BY <2>1, <2>2, <2>3 DEF WithinLimit
<1>4. CASE spawnFails
  BY <1>4, FinishOperationIsWithin DEF spawnFails, TypeOK
<1>5. ASSUME NEW i \in Op, processFinished(i)
      PROVE  WithinLimit'
  BY <1>5, FinishOperationIsWithin DEF processFinished
<1>6. CASE crash \/ quit
  BY <1>1, <1>6, NoneIsWithin DEF crash, quit, restart, TypeOK
<1>7. CASE UNCHANGED <<active, maximumParallel>>
  BY <1>7 DEF WithinLimit
<1>8. QED
  BY <1>2, <1>3, <1>4, <1>5, <1>6, <1>7
     DEF Next, scheduleIdle, scheduleBegin, blockOne, blockDone, spawn, scheduleFlush,
         scheduleReturn, scheduleFinish, finishRun, cancel, cancelFinish, closeJournal,
         killTimer, childExit, engineVars, vars

\* No process outlives its run or runs unknown to the engine, and there are never
\* more than the requested, bounded number.
THEOREM ChildrenOwnedHolds == Spec => []ChildrenOwned
<1>1. Init => WithinLimit
  <2>1. Init => Cardinality(active) = 0
    BY FS_EmptySet DEF Init
  <2>2. QED
    BY <2>1 DEF Init, WithinLimit
<1>2. Ownership /\ WithinLimit => ChildrenOwned
  BY DEF Ownership, WithinLimit, ChildrenOwned
<1>3. QED
  BY <1>1, <1>2, OwnershipHolds, WithinStep, PTL DEF Spec

-----------------------------------------------------------------------------
(* The engine implements ServicingRun.  Each lemma maps a step of the      *)
(* engine to the step of the abstract run it implements.                   *)

\* A cancelled run that waits for children has lost an operation, or will lose
\* the active ones: it cannot end as a success.
CancelSpoils ==
  running /\ cancelling /\ pc # "cancelled" =>
    active # {} \/ \E i \in Op : state[i] = "cancelled"

LEMMA FinishOperationSpoils ==
  ASSUME TypeOK, NEW i \in Op, NEW ok \in BOOLEAN, finishOperation(i, ok),
         UNCHANGED cancelling
  PROVE  CancelSpoils'
<1>1. cancelling => state'[i] = "cancelled"
  BY DEF finishOperation, TypeOK
<1>2. QED
  BY <1>1 DEF CancelSpoils

LEMMA CancelSpoilsStep ==
  TypeOK /\ Ownership /\ Cancellation /\ CancelSpoils /\ [Next]_vars => CancelSpoils'
<1> SUFFICES ASSUME TypeOK, Ownership, Cancellation, CancelSpoils, [Next]_vars
             PROVE  CancelSpoils'
  OBVIOUS
<1>1. CASE \E p \in Plans, n \in Requests : start(p, n)
  BY <1>1 DEF start, CancelSpoils
<1>2. ASSUME NEW i \in Op, blockOne(i) \/ launch(i)
      PROVE  CancelSpoils'
  <2>1. state[i] = "queued" /\ pc # "cancelled"
    BY <1>2 DEF blockOne, launch, First, blockable, candidates, ready
  <2>2. \A j \in Op : state[j] = "cancelled" => state'[j] = "cancelled"
    BY <1>2, <2>1 DEF blockOne, launch, TypeOK
  <2>3. active \subseteq active' /\ UNCHANGED <<running, cancelling>>
    BY <1>2 DEF blockOne, launch
  <2>4. QED
    BY <2>1, <2>2, <2>3 DEF CancelSpoils
<1>3. CASE spawnFails
  BY <1>3, FinishOperationSpoils DEF spawnFails, TypeOK
<1>4. ASSUME NEW i \in Op, processFinished(i)
      PROVE  CancelSpoils'
  BY <1>4, FinishOperationSpoils DEF processFinished
<1>5. CASE scheduleFinish \/ cancelFinish \/ crash \/ quit
  BY <1>5 DEF scheduleFinish, cancelFinish, finishRun, crash, quit, restart, CancelSpoils
<1>6. CASE cancel
  BY <1>6 DEF cancel, CancelSpoils
<1>7. CASE UNCHANGED <<running, cancelling, active, state>> /\ (pc' = pc \/ pc # "cancelled")
  BY <1>7 DEF CancelSpoils
<1>8. CASE closeJournal
  BY <1>8 DEF closeJournal, Ownership, CancelSpoils
<1>9. QED
  BY <1>1, <1>2, <1>3, <1>4, <1>5, <1>6, <1>7, <1>8
     DEF Next, scheduleIdle, scheduleBegin, blockDone, spawn, scheduleFlush,
         scheduleReturn, killTimer, childExit, engineVars, vars

\* What stops a consumer is a failed, blocked or cancelled operation somewhere.
LEMMA FailureHasACause ==
  ASSUME NEW deps \in [Op -> SUBSET Op], NEW i \in Op, dependencyFailed(deps, state, i)
  PROVE  \E j \in Op : state[j] \in Failing
<1> SUFFICES ASSUME \A j \in Op : state[j] \notin Failing
             PROVE  FALSE
  OBVIOUS
<1>1. SkipClosed(deps, state, Op) /\ deps[i] \subseteq Op
  BY DEF SkipClosed
<1>2. QED
  BY <1>1 DEF dependencyFailed, ChainClean

LEMMA StartBegins ==
  ASSUME TypeOK, Ownership, NEW p \in Plans, NEW n \in Requests, start(p, n)
  PROVE  Run!Next
<1>1. /\ ~running /\ result' = "none" /\ active' = {} /\ cancelling' = FALSE
      /\ \A i \in Op : state'[i] \notin Failing
  BY DEF start, Failing
<1>2. CASE running'
  <2>1. PICK chosen \in SUBSET Op : chosen = {i \in Op : state'[i] = "queued"}
    OBVIOUS
  <2>2. Run!Begin(chosen)
    BY <1>1, <1>2, <2>1 DEF Run!Begin
  <2>3. QED
    BY <2>2 DEF Run!Next
<1>3. CASE ~running'
  <2>1. Run!Refuse
    BY <1>1, <1>3 DEF Run!Refuse, Run!Rest
  <2>2. QED
    BY <2>1 DEF Run!Next
<1>4. QED
  BY <1>2, <1>3

LEMMA BlockWithdraws ==
  ASSUME TypeOK, Ownership, Cancellation, NEW i \in Op, blockOne(i)
  PROVE  Run!Withdraw(i)
<1>1. /\ running /\ state[i] = "queued" /\ dependencyFailed(plan.deps, state, i)
      /\ state' = [state EXCEPT ![i] = "blocked"]
      /\ UNCHANGED <<active, running, cancelling, result>>
  BY DEF blockOne, First, blockable, Ownership
<1>2. ~cancelling
  BY <1>1 DEF Cancellation
<1>3. \E j \in Op : state[j] \in Failing
  BY <1>1, GraphType, FailureHasACause
<1>4. /\ state'[i] = "blocked"
      /\ \A j \in Op : j # i => state'[j] = state[j]
  BY <1>1 DEF TypeOK
<1>5. \E j \in Op : state'[j] \in Failing
  BY <1>4 DEF Failing
<1>6. {j \in Op : running' /\ state'[j] = "queued"}
        = {j \in Op : running /\ state[j] = "queued"} \ {i}
  BY <1>1, <1>4
<1>7. QED
  BY <1>1, <1>2, <1>3, <1>5, <1>6 DEF Run!Withdraw

LEMMA LaunchTakes ==
  ASSUME TypeOK, Ownership, NEW i \in Op, launch(i)
  PROVE  Run!Take(i)
<1>1. /\ running /\ ~cancelling /\ state[i] = "queued"
      /\ state' = [state EXCEPT ![i] = "running"]
      /\ active' = active \cup {i}
      /\ UNCHANGED <<running, cancelling, result>>
  BY DEF launch, mayLaunch, First, candidates, ready, Ownership
<1>2. /\ state'[i] = "running"
      /\ \A j \in Op : j # i => state'[j] = state[j]
  BY <1>1 DEF TypeOK
<1>3. (\E j \in Op : state'[j] \in Failing) <=> (\E j \in Op : state[j] \in Failing)
  BY <1>1, <1>2 DEF Failing
<1>4. {j \in Op : running' /\ state'[j] = "queued"}
        = {j \in Op : running /\ state[j] = "queued"} \ {i}
  BY <1>1, <1>2
<1>5. {j \in Op : running' /\ j \in active'} = {j \in Op : running /\ j \in active} \cup {i}
  BY <1>1
<1>6. QED
  BY <1>1, <1>3, <1>4, <1>5 DEF Run!Take

LEMMA FinishOperationEnds ==
  ASSUME TypeOK, Ownership, NEW i \in active, NEW ok \in BOOLEAN,
         finishOperation(i, ok), UNCHANGED <<running, cancelling, result>>
  PROVE  Run!Succeed(i) \/ Run!Fail(i)
<1>1. i \in Op /\ running /\ state[i] = "running"
  BY DEF TypeOK, Ownership
<1>2. /\ state'[i] = IF cancelling THEN "cancelled" ELSE IF ok THEN "done" ELSE "failed"
      /\ \A j \in Op : j # i => state'[j] = state[j]
      /\ active' = active \ {i}
  BY <1>1 DEF finishOperation, TypeOK
<1>3. {j \in Op : running' /\ state'[j] = "queued"} = {j \in Op : running /\ state[j] = "queued"}
  BY <1>1, <1>2
<1>4. {j \in Op : running' /\ j \in active'} = {j \in Op : running /\ j \in active} \ {i}
  BY <1>2
<1>5. CASE ~cancelling /\ ok
  <2>1. (\E j \in Op : state'[j] \in Failing) <=> (\E j \in Op : state[j] \in Failing)
    BY <1>1, <1>2, <1>5 DEF Failing
  <2>2. QED
    BY <1>1, <1>3, <1>4, <1>5, <2>1 DEF Run!Succeed
<1>6. CASE cancelling \/ ~ok
  <2>1. \E j \in Op : state'[j] \in Failing
    BY <1>1, <1>2, <1>6 DEF Failing
  <2>2. QED
    BY <1>1, <1>3, <1>4, <2>1 DEF Run!Fail
<1>7. QED
  BY <1>5, <1>6

LEMMA CancelCancels ==
  ASSUME TypeOK, cancel
  PROVE  Run!Cancel
<1>1. /\ running /\ ~cancelling /\ cancelling' = TRUE
      /\ state' = cancelQueued
      /\ UNCHANGED <<active, running, result>>
  BY DEF cancel
<1>2. \A j \in Op : state'[j] = IF state[j] = "queued" THEN "cancelled" ELSE state[j]
  BY <1>1 DEF cancelQueued
<1>3. (\E j \in Op : state'[j] \in Failing) <=>
        \/ \E j \in Op : state[j] \in Failing
        \/ {j \in Op : running /\ state[j] = "queued"} # {}
  BY <1>1, <1>2 DEF Failing
<1>4. {j \in Op : running' /\ state'[j] = "queued"} = {}
  BY <1>2
<1>5. QED
  BY <1>1, <1>3, <1>4 DEF Run!Cancel

LEMMA ScheduleFinishes ==
  ASSUME TypeOK, Ownership, CancelSpoils, scheduleFinish
  PROVE  Run!Finish
<1>1. /\ running /\ active = {} /\ pc # "cancelled"
      /\ \A i \in Op : state[i] \in terminal
      /\ ~running'
      /\ result' \in Message
      /\ result' = "completed" <=> \A i \in Op : state[i] \in {"done", "skipped"}
  BY DEF scheduleFinish, allOver, finishRun, Ownership, Message
<1>2. (\A i \in Op : state[i] \in {"done", "skipped"}) <=>
        ~\E i \in Op : state[i] \in Failing
  BY <1>1 DEF terminal, Failing
<1>3. cancelling => \E i \in Op : state[i] \in Failing
  BY <1>1 DEF CancelSpoils, Failing
<1>4. {i \in Op : running /\ state[i] = "queued"} = {}
  BY <1>1 DEF terminal
<1>5. result' # "none"
  BY <1>1 DEF Message
<1>6. QED
  BY <1>1, <1>2, <1>3, <1>4, <1>5 DEF Run!Finish, Run!Rest

LEMMA CancelFinishes ==
  ASSUME TypeOK, Ownership, Cancellation, cancelFinish
  PROVE  Run!Finish
<1>1. /\ running /\ cancelling /\ active = {}
      /\ ~running' /\ result' = "cancelled before launch"
      /\ \A i \in Op : state[i] # "queued"
  BY DEF cancelFinish, finishRun, Ownership, Cancellation
<1>2. QED
  BY <1>1 DEF Run!Finish, Run!Rest

LEMMA RestartCrashes ==
  ASSUME restart
  PROVE  Run!Crash
  BY DEF restart, Run!Crash, Run!Rest

\* Every step of the engine is a step of the abstract run or changes nothing of it.
LEMMA RefinementStep ==
  TypeOK /\ Ownership /\ Cancellation /\ CancelSpoils /\ [Next]_vars
    => [Run!Next]_Run!vars
<1> SUFFICES ASSUME TypeOK, Ownership, Cancellation, CancelSpoils, [Next]_vars
             PROVE  Run!Next \/ UNCHANGED Run!vars
  OBVIOUS
<1>1. ASSUME NEW p \in Plans, NEW n \in Requests, start(p, n)
      PROVE  Run!Next
  BY <1>1, StartBegins
<1>2. ASSUME NEW i \in Op, blockOne(i) \/ launch(i)
      PROVE  Run!Next
  BY <1>2, BlockWithdraws, LaunchTakes DEF Run!Next
<1>3. CASE spawnFails
  <2>1. PICK i \in Op : i = launching /\ i \in active
    BY <1>3 DEF spawnFails, Ownership, TypeOK
  <2>2. finishOperation(i, FALSE)
    BY <1>3, <2>1 DEF spawnFails
  <2>3. Run!Succeed(i) \/ Run!Fail(i)
    BY <1>3, <2>1, <2>2, FinishOperationEnds DEF spawnFails
  <2>4. QED
    BY <2>3 DEF Run!Next
<1>4. ASSUME NEW i \in Op, processFinished(i)
      PROVE  Run!Next
  <2>1. i \in active
    BY <1>4 DEF processFinished, Exited, Ownership
  <2>2. Run!Succeed(i) \/ Run!Fail(i)
    BY <1>4, <2>1, FinishOperationEnds DEF processFinished
  <2>3. QED
    BY <2>2 DEF Run!Next
<1>5. CASE cancel
  BY <1>5, CancelCancels DEF Run!Next
<1>6. CASE scheduleFinish
  BY <1>6, ScheduleFinishes DEF Run!Next
<1>7. CASE cancelFinish
  BY <1>7, CancelFinishes DEF Run!Next
<1>8. CASE crash \/ quit
  BY <1>8, RestartCrashes DEF crash, quit, Run!Next
<1>9. CASE UNCHANGED <<state, active, running, cancelling, result>>
  BY <1>9 DEF Run!vars
<1>10. QED
  BY <1>1, <1>2, <1>3, <1>4, <1>5, <1>6, <1>7, <1>8, <1>9
     DEF Next, scheduleIdle, scheduleBegin, blockDone, spawn, scheduleFlush,
         scheduleReturn, closeJournal, killTimer, childExit, engineVars, vars

\* The engine implements the abstract run: for every plan, parallelism and number
\* of runs it takes work only before a cancellation, withdraws it only after a
\* failure, and reports success exactly when all it took succeeded.
THEOREM EngineImplementsRun == Spec => ImplementsRun
<1>1. Init => CancelSpoils
  BY DEF Init, CancelSpoils
<1>2. Init => Run!Init
  BY DEF Init, Run!Init, Run!Idle
<1>3. QED
  BY <1>1, <1>2, OwnershipHolds, CancelSpoilsStep, RefinementStep, PTL
     DEF Spec, ImplementsRun, Run!Spec

-----------------------------------------------------------------------------
(***************************************************************************)
(* The check of the graph (GraphCheck).  The recursion through skipped     *)
(* operations is a function that the sets Over and Clean, the largest      *)
(* closed sets of places that are over and that did not fail, satisfy the  *)
(* equation of; where the graph has no cycle nothing else does, because a  *)
(* set of operations with a wrong answer would have a first one.  For the  *)
(* loop, Layered says that what is ordered needs nothing else and has no   *)
(* cycle, and Counted that the degrees count what is not ordered.          *)
(***************************************************************************)

\* The places a walk through skipped operations may be at: all are over.
Over(deps, st) ==
  UNION {S \in SUBSET Op : SkipClosed(deps, st, S) /\ \A i \in S : st[i] \in terminal}

LEMMA OverIsClosed ==
  ASSUME NEW deps \in [Op -> SUBSET Op], NEW st
  PROVE  /\ Over(deps, st) \in SUBSET Op /\ SkipClosed(deps, st, Over(deps, st))
         /\ \A i \in Over(deps, st) : st[i] \in terminal
BY DEF Over, SkipClosed

LEMMA OverIsLargest ==
  ASSUME NEW deps \in [Op -> SUBSET Op], NEW st,
         NEW S \in SUBSET Op, SkipClosed(deps, st, S), \A i \in S : st[i] \in terminal
  PROVE  S \subseteq Over(deps, st)
BY DEF Over

LEMMA DoneIsOver ==
  ASSUME NEW deps \in [Op -> SUBSET Op], NEW st, NEW D \in SUBSET Op
  PROVE  ChainDone(deps, st, D) <=> D \subseteq Over(deps, st)
BY OverIsClosed, OverIsLargest DEF ChainDone

LEMMA OverUnfolds ==
  ASSUME NEW deps \in [Op -> SUBSET Op], NEW st, NEW i \in Op
  PROVE  i \in Over(deps, st) <=>
           \/ st[i] # "skipped" /\ st[i] \in terminal
           \/ st[i] = "skipped" /\ \A d \in deps[i] : d \in Over(deps, st)
<1>1. ASSUME i \in Over(deps, st)
      PROVE  \/ st[i] # "skipped" /\ st[i] \in terminal
             \/ st[i] = "skipped" /\ \A d \in deps[i] : d \in Over(deps, st)
  BY <1>1, OverIsClosed DEF SkipClosed
<1>2. ASSUME \/ st[i] # "skipped" /\ st[i] \in terminal
             \/ st[i] = "skipped" /\ \A d \in deps[i] : d \in Over(deps, st)
      PROVE  i \in Over(deps, st)
  <2> DEFINE S == Over(deps, st) \cup {i}
  <2>1. S \in SUBSET Op /\ SkipClosed(deps, st, S) /\ \A k \in S : st[k] \in terminal
    BY <1>2, OverIsClosed DEF SkipClosed, terminal
  <2> HIDE DEF S
  <2>2. S \subseteq Over(deps, st)
    BY <2>1, OverIsLargest
  <2> QED
    BY <2>2 DEF S
<1> QED
  BY <1>1, <1>2

\* The recursion of the code is well defined, and it finds exactly those places.
\* The equation of the recursion, for any graph and states.
DoneBy(f, deps, st) ==
  f = [i \in Op |-> \/ st[i] # "skipped" /\ st[i] \in terminal
                    \/ st[i] = "skipped" /\ \A d \in deps[i] : f[d]]

LEMMA DoneRecursion ==
  ASSUME NEW deps \in [Op -> SUBSET Op], NEW st, Acyclic(deps),
         NEW f, DoneBy(f, deps, st)
  PROVE  \A i \in Op : f[i] <=> i \in Over(deps, st)
<1> DEFINE wrong == {i \in Op : ~(f[i] <=> i \in Over(deps, st))}
<1> SUFFICES ASSUME wrong # {} PROVE FALSE
  OBVIOUS
<1>1. PICK i \in wrong : deps[i] \cap wrong = {}
  BY DEF Acyclic
<1>2. \A d \in deps[i] : d \in Op /\ (f[d] <=> d \in Over(deps, st))
  BY <1>1
<1>3. f[i] = (\/ st[i] # "skipped" /\ st[i] \in terminal
              \/ st[i] = "skipped" /\ \A d \in deps[i] : f[d])
  BY <1>1, Zenon DEF DoneBy
<1>4. i \in Over(deps, st) <=>
           \/ st[i] # "skipped" /\ st[i] \in terminal
           \/ st[i] = "skipped" /\ \A d \in deps[i] : d \in Over(deps, st)
  BY OverUnfolds, <1>1
<1> QED
  BY ONLY <1>1, <1>2, <1>3, <1>4, Zenon

LEMMA DoneExists ==
  ASSUME NEW deps \in [Op -> SUBSET Op], NEW st
  PROVE  \E f : DoneBy(f, deps, st)
<1> DEFINE f == [i \in Op |-> i \in Over(deps, st)]
           g == [i \in Op |-> \/ st[i] # "skipped" /\ st[i] \in terminal
                              \/ st[i] = "skipped" /\ \A d \in deps[i] : f[d]]
<1>1. ASSUME NEW i \in Op
      PROVE  f[i] = g[i]
  <2>1. f[i] = (i \in Over(deps, st)) /\ \A d \in deps[i] : f[d] = (d \in Over(deps, st))
    BY Zenon
  <2>2. g[i] = (\/ st[i] # "skipped" /\ st[i] \in terminal
                \/ st[i] = "skipped" /\ \A d \in deps[i] : d \in Over(deps, st))
    BY <2>1, Zenon
  <2>3. (i \in Over(deps, st)) <=>
           (\/ st[i] # "skipped" /\ st[i] \in terminal
            \/ st[i] = "skipped" /\ \A d \in deps[i] : d \in Over(deps, st))
    BY OverUnfolds, Zenon
  <2>4. CASE i \in Over(deps, st)
    <3>1. f[i] = TRUE
      BY <2>1, <2>4
    <3>2. (\/ st[i] # "skipped" /\ st[i] \in terminal
           \/ st[i] = "skipped" /\ \A d \in deps[i] : d \in Over(deps, st)) = TRUE
      BY <2>3, <2>4
    <3> QED
      BY <3>1, <3>2, <2>2
  <2>5. CASE i \notin Over(deps, st)
    <3>1. f[i] = FALSE
      <4>1. (i \in Over(deps, st)) = FALSE
        BY <2>5
      <4> QED
        BY <2>1, <4>1, Zenon
    <3>2. (\/ st[i] # "skipped" /\ st[i] \in terminal
           \/ st[i] = "skipped" /\ \A d \in deps[i] : d \in Over(deps, st)) = FALSE
      BY <2>3, <2>5
    <3> QED
      BY <3>1, <3>2, <2>2
  <2> QED
    BY <2>4, <2>5
<1>2. f = g
  BY <1>1, Zenon
<1> QED
  BY <1>2, Zenon DEF DoneBy

\* Likewise the places from which the walk meets no failure.
Clean(deps, st) ==
  UNION {S \in SUBSET Op : SkipClosed(deps, st, S) /\ \A i \in S : st[i] \notin Failing}

LEMMA CleanIsClosed ==
  ASSUME NEW deps \in [Op -> SUBSET Op], NEW st
  PROVE  /\ Clean(deps, st) \in SUBSET Op /\ SkipClosed(deps, st, Clean(deps, st))
         /\ \A i \in Clean(deps, st) : st[i] \notin Failing
BY DEF Clean, SkipClosed

LEMMA CleanIsLargest ==
  ASSUME NEW deps \in [Op -> SUBSET Op], NEW st,
         NEW S \in SUBSET Op, SkipClosed(deps, st, S), \A i \in S : st[i] \notin Failing
  PROVE  S \subseteq Clean(deps, st)
BY DEF Clean

LEMMA ChainIsClean ==
  ASSUME NEW deps \in [Op -> SUBSET Op], NEW st, NEW D \in SUBSET Op
  PROVE  ChainClean(deps, st, D) <=> D \subseteq Clean(deps, st)
BY CleanIsClosed, CleanIsLargest DEF ChainClean

LEMMA CleanUnfolds ==
  ASSUME NEW deps \in [Op -> SUBSET Op], NEW st, NEW i \in Op
  PROVE  i \notin Clean(deps, st) <=>
           \/ st[i] \in Failing
           \/ st[i] = "skipped" /\ \E d \in deps[i] : d \notin Clean(deps, st)
<1>1. ASSUME i \in Clean(deps, st)
      PROVE  ~(\/ st[i] \in Failing
               \/ st[i] = "skipped" /\ \E d \in deps[i] : d \notin Clean(deps, st))
  BY <1>1, CleanIsClosed DEF SkipClosed
<1>2. ASSUME ~(\/ st[i] \in Failing
               \/ st[i] = "skipped" /\ \E d \in deps[i] : d \notin Clean(deps, st))
      PROVE  i \in Clean(deps, st)
  <2> DEFINE S == Clean(deps, st) \cup {i}
  <2>1. S \in SUBSET Op /\ SkipClosed(deps, st, S) /\ \A k \in S : st[k] \notin Failing
    BY <1>2, CleanIsClosed DEF SkipClosed
  <2> HIDE DEF S
  <2>2. S \subseteq Clean(deps, st)
    BY <2>1, CleanIsLargest
  <2> QED
    BY <2>2 DEF S
<1> QED
  BY <1>1, <1>2

\* The equation of the recursion, for any graph and states.
FailedBy(f, deps, st) ==
  f = [i \in Op |-> \/ st[i] \in Failing
                    \/ st[i] = "skipped" /\ \E d \in deps[i] : f[d]]

LEMMA FailedRecursion ==
  ASSUME NEW deps \in [Op -> SUBSET Op], NEW st, Acyclic(deps),
         NEW f, FailedBy(f, deps, st)
  PROVE  \A i \in Op : f[i] <=> i \notin Clean(deps, st)
<1> DEFINE wrong == {i \in Op : ~(f[i] <=> i \notin Clean(deps, st))}
<1> SUFFICES ASSUME wrong # {} PROVE FALSE
  OBVIOUS
<1>1. PICK i \in wrong : deps[i] \cap wrong = {}
  BY DEF Acyclic
<1>2. \A d \in deps[i] : d \in Op /\ (f[d] <=> d \notin Clean(deps, st))
  BY <1>1
<1>3. f[i] = (\/ st[i] \in Failing
              \/ st[i] = "skipped" /\ \E d \in deps[i] : f[d])
  BY <1>1, Zenon DEF FailedBy
<1>4. i \notin Clean(deps, st) <=>
           \/ st[i] \in Failing
           \/ st[i] = "skipped" /\ \E d \in deps[i] : d \notin Clean(deps, st)
  BY CleanUnfolds, <1>1
<1> QED
  BY ONLY <1>1, <1>2, <1>3, <1>4, Zenon

LEMMA FailedExists ==
  ASSUME NEW deps \in [Op -> SUBSET Op], NEW st
  PROVE  \E f : FailedBy(f, deps, st)
<1> DEFINE f == [i \in Op |-> i \notin Clean(deps, st)]
           g == [i \in Op |-> \/ st[i] \in Failing
                              \/ st[i] = "skipped" /\ \E d \in deps[i] : f[d]]
<1>1. ASSUME NEW i \in Op
      PROVE  f[i] = g[i]
  <2>1. f[i] = (i \notin Clean(deps, st)) /\ \A d \in deps[i] : f[d] = (d \notin Clean(deps, st))
    BY Zenon
  <2>2. g[i] = (\/ st[i] \in Failing
                \/ st[i] = "skipped" /\ \E d \in deps[i] : d \notin Clean(deps, st))
    BY <2>1, Zenon
  <2>3. (i \notin Clean(deps, st)) =
           (\/ st[i] \in Failing
            \/ st[i] = "skipped" /\ \E d \in deps[i] : d \notin Clean(deps, st))
    BY CleanUnfolds
  <2> QED
    BY <2>1, <2>2, <2>3, Zenon
<1>2. f = g
  BY <1>1, Zenon
<1> QED
  BY <1>2, Zenon DEF FailedBy

\* RecursionAgrees, of a graph that was accepted.
LEMMA Agree ==
  ASSUME graph \in [Op -> SUBSET Op], Acyclic(graph)
  PROVE  \A i \in Op :
           /\ dependenciesDone(graph, observed, i) <=> \A d \in graph[i] : GC!dependencyChainDone[d]
           /\ dependencyFailed(graph, observed, i) <=> \E d \in graph[i] : GC!dependencyChainFailed[d]
<1>1. DoneBy(GC!dependencyChainDone, graph, observed)
  <2>1. \E f : DoneBy(f, graph, observed)
    BY DoneExists
  <2> QED
    BY <2>1, Zenon DEF DoneBy, GC!dependencyChainDone, GC!Op, GC!terminal, Op, terminal
<1>2. FailedBy(GC!dependencyChainFailed, graph, observed)
  <2>1. \E f : FailedBy(f, graph, observed)
    BY FailedExists
  <2> QED
    BY <2>1, Zenon DEF FailedBy, GC!dependencyChainFailed, GC!Op, GC!Failing, Op, Failing
<1> DEFINE done == GC!dependencyChainDone
           failed == GC!dependencyChainFailed
<1> HIDE DEF done, failed
<1>3. \A i \in Op : done[i] <=> i \in Over(graph, observed)
  BY <1>1, DoneRecursion DEF done
<1>4. \A i \in Op : failed[i] <=> i \notin Clean(graph, observed)
  BY <1>2, FailedRecursion DEF failed
<1> SUFFICES ASSUME NEW i \in Op
             PROVE  /\ dependenciesDone(graph, observed, i) <=> \A d \in graph[i] : done[d]
                    /\ dependencyFailed(graph, observed, i) <=> \E d \in graph[i] : failed[d]
  BY Zenon DEF done, failed
<1>5. dependenciesDone(graph, observed, i) <=> graph[i] \subseteq Over(graph, observed)
  BY DoneIsOver DEF dependenciesDone
<1>6. dependencyFailed(graph, observed, i) <=> ~(graph[i] \subseteq Clean(graph, observed))
  BY ChainIsClean DEF dependencyFailed
<1>7. graph[i] \subseteq Op
  OBVIOUS
<1> QED
  BY ONLY <1>3, <1>4, <1>5, <1>6, <1>7, Zenon

\* A set of natural numbers has a least member, for otherwise stepping down would map
\* a finite part of it into itself and miss one.
LEMMA Least ==
  ASSUME NEW S \in SUBSET Nat, S # {}
  PROVE  \E m \in S : \A k \in S : m <= k
<1>1. SUFFICES ASSUME \A m \in S : \E k \in S : k < m
               PROVE  FALSE
  OBVIOUS
<1>2. PICK n \in S : TRUE
  OBVIOUS
<1> DEFINE above == {m \in 0 .. n : \E k \in S : k <= m}
           down == [m \in above |-> m - 1]
<1>3. IsFiniteSet(above) /\ n \in above
  <2>1. n \in Int /\ 0 \in Int /\ above \in SUBSET (0 .. n) /\ n \in above
    BY <1>2
  <2> HIDE DEF above
  <2>2. IsFiniteSet(0 .. n)
    BY <2>1, FS_Interval
  <2> QED
    BY <2>1, <2>2, FS_Subset
<1>4. down \in Injection(above, above)
  <2>1. ASSUME NEW m \in above PROVE m - 1 \in above
    BY <1>1
  <2> QED
    BY <2>1 DEF Injection, IsInjective
<1>5. down \in Surjection(above, above)
  <2> HIDE DEF down, above
  <2> QED
    BY <1>3, <1>4, FS_Injection
<1>6. PICK m \in above : down[m] = n
  BY <1>3, <1>5 DEF Surjection
<1> QED
  BY <1>6

Dangling == \E i \in Op : 0 \in graph[i]

\* The degree of an operation counts what it waits for that is not ordered yet.
Counted ==
  \A i \in Op : /\ inDegree[i] = Cardinality(graph[i] \ ordered)
                /\ i \in readyNow <=> graph[i] \subseteq ordered /\ i \notin ordered

\* What is ordered depends on nothing else, and has no cycle.
Layered ==
  /\ \A i \in ordered : graph[i] \subseteq ordered
  /\ \A S \in (SUBSET ordered) \ {{}} : \E i \in S : graph[i] \cap S = {}

CheckInv ==
  /\ graph \in [Op -> SUBSET (Op \cup {0})]
  /\ inDegree \in [Op -> Int] /\ readyNow \in SUBSET Op /\ ordered \in SUBSET Op
  /\ verdict \in {"checking", "missing", "cycle", "ok"}
  /\ verdict = "missing" => Dangling
  /\ verdict \in {"cycle", "ok"} => ~Dangling /\ readyNow = {}
  /\ verdict = "cycle" => ordered # Op
  /\ verdict = "ok" => ordered = Op
  /\ ~Dangling => Counted /\ Layered

LEMMA Finite ==
  ASSUME NEW S \in SUBSET (Op \cup {0})
  PROVE  IsFiniteSet(S) /\ Cardinality(S) \in Nat /\ (Cardinality(S) = 0 <=> S = {})
<1>1. IsFiniteSet(0 .. NOp) /\ S \in SUBSET (0 .. NOp)
  BY NOpAssumption, FS_Interval DEF Op
<1>2. IsFiniteSet(S)
  BY <1>1, FS_Subset
<1> QED
  BY <1>2, FS_CardinalityType, FS_EmptySet

LEMMA AllOrdered ==
  ASSUME NEW S \in SUBSET Op
  PROVE  Cardinality(S) = NOp <=> S = Op
<1>1. IsFiniteSet(Op) /\ Cardinality(Op) = NOp
  BY NOpAssumption, FS_Interval DEF Op
<1> QED
  BY <1>1, FS_Subset

\* Counting is the same operator in the instance.
LEMMA SameCardinality == \A S : GC!Cardinality(S) = Cardinality(S)
BY DEF GC!Cardinality, Cardinality

LEMMA CheckInit == GC!Init => CheckInv
<1> SUFFICES ASSUME GC!Init PROVE CheckInv
  OBVIOUS
<1>1. GC!Op = Op
  BY DEF GC!Op, Op
<1>2. /\ graph \in [Op -> SUBSET (Op \cup {0})] /\ inDegree = [i \in Op |-> Cardinality(graph[i])]
      /\ readyNow = {i \in Op : graph[i] = {}} /\ ordered = {} /\ verdict = "checking"
  <2>1. GC!Missing = 0
    BY DEF GC!Missing
  <2> QED
    BY <1>1, <2>1, SameCardinality, Zenon DEF GC!Init
<1>3. \A i \in Op : Cardinality(graph[i]) \in Nat
  BY <1>2, Finite
<1>4. Counted
  <2>1. \A i \in Op : graph[i] \ ordered = graph[i] /\ inDegree[i] = Cardinality(graph[i])
    BY <1>2
  <2>2. \A i \in Op : i \in readyNow <=> graph[i] \subseteq ordered /\ i \notin ordered
    BY <1>2
  <2> QED
    BY <2>1, <2>2 DEF Counted
<1>5. Layered
  <2>1. \A S \in SUBSET ordered : S = {}
    BY <1>2
  <2> QED
    BY <1>2, <2>1 DEF Layered
<1> QED
  BY <1>2, <1>3, <1>4, <1>5 DEF CheckInv

LEMMA CheckTakes ==
  ASSUME CheckInv, GC!TakeReady
  PROVE  CheckInv'
<1>1. GC!Op = Op
  BY DEF GC!Op, Op
<1> DEFINE index == GC!least(readyNow)
<1>2. /\ verdict = "checking" /\ ~Dangling /\ readyNow # {}
      /\ inDegree' = [i \in Op |-> inDegree[i] - IF i \in GC!dependents(index) THEN 1 ELSE 0]
      /\ readyNow' = (readyNow \ {index})
                       \cup {i \in GC!dependents(index) : inDegree'[i] = 0}
      /\ ordered' = ordered \cup {index}
      /\ graph' = graph /\ verdict' = verdict
  <2>1. /\ verdict = "checking" /\ ~Dangling /\ readyNow # {} /\ graph' = graph /\ verdict' = verdict
    BY <1>1 DEF GC!TakeReady, Dangling, GC!Missing
  <2> QED
    BY <1>1, <2>1 DEF GC!TakeReady
<1>3. index \in readyNow
  <2>1. readyNow \in SUBSET Nat
    BY NOpAssumption DEF CheckInv, Op
  <2>2. \E m \in readyNow : \A k \in readyNow : m <= k
    BY <1>2, <2>1, Least
  <2> QED
    BY <2>2 DEF GC!least
<1>4. index \in Op /\ graph[index] \subseteq ordered /\ index \notin ordered
  BY <1>2, <1>3 DEF CheckInv, Counted
<1>5. GC!dependents(index) = {j \in Op : index \in graph[j]}
  BY <1>1 DEF GC!dependents
<1> HIDE DEF index
<1>6. ~Dangling /\ Counted /\ Layered /\ graph \in [Op -> SUBSET Op]
  BY <1>2 DEF CheckInv, Dangling
<1>7. ASSUME NEW i \in Op
      PROVE  /\ inDegree'[i] \in Int /\ inDegree'[i] = Cardinality(graph[i] \ ordered')
             /\ inDegree'[i] = 0 <=> graph[i] \subseteq ordered'
  <2> DEFINE open == graph[i] \ ordered
  <2>1. open \in SUBSET (Op \cup {0}) /\ graph[i] \ ordered' = open \ {index}
        /\ (index \in open <=> index \in graph[i])
    BY <1>2, <1>4, <1>6
  <2>2. inDegree[i] = Cardinality(open)
    BY <1>6 DEF Counted
  <2>3. inDegree'[i] = inDegree[i] - IF index \in graph[i] THEN 1 ELSE 0
    BY <1>2, <1>5
  <2> HIDE DEF open
  <2>4. /\ Cardinality(open) \in Nat
        /\ Cardinality(open \ {index}) = IF index \in open THEN Cardinality(open) - 1 ELSE Cardinality(open)
    BY <2>1, Finite, FS_RemoveElement
  <2>5. open \ {index} \in SUBSET (Op \cup {0})
    BY <2>1
  <2>6. Cardinality(open \ {index}) = 0 <=> open \ {index} = {}
    BY <2>5, Finite
  <2>7. inDegree'[i] = Cardinality(open \ {index}) /\ inDegree'[i] \in Int
    BY <2>1, <2>2, <2>3, <2>4
  <2>8. graph[i] \subseteq ordered' <=> open \ {index} = {}
    BY <2>1
  <2> QED
    BY <2>1, <2>6, <2>7, <2>8
<1>8. ASSUME NEW i \in Op
      PROVE  i \in readyNow' <=> graph[i] \subseteq ordered' /\ i \notin ordered'
  <2>1. i \in readyNow' <=> (i \in readyNow /\ i # index) \/ (index \in graph[i] /\ inDegree'[i] = 0)
    BY <1>2, <1>5
  <2>2. i \in readyNow <=> graph[i] \subseteq ordered /\ i \notin ordered
    BY <1>6 DEF Counted
  <2>3. index \in graph[i] => i \notin ordered /\ i # index
    BY <1>4, <1>6 DEF Layered
  <2>4. index \notin graph[i] => (graph[i] \subseteq ordered' <=> graph[i] \subseteq ordered)
    BY <1>2
  <2> QED
    BY <2>1, <2>2, <2>3, <2>4, <1>2, <1>4, <1>7
<1>9. Counted'
  BY <1>2, <1>7, <1>8 DEF Counted
<1>10. Layered'
  <2>1. \A i \in ordered' : graph[i] \subseteq ordered'
    BY <1>2, <1>4, <1>6 DEF Layered
  <2>2. ASSUME NEW S \in (SUBSET ordered') \ {{}}
        PROVE  \E i \in S : graph[i] \cap S = {}
    <3>1. CASE S \subseteq ordered
      BY <1>6, <2>2, <3>1 DEF Layered
    <3>2. CASE S = {index}
      BY <1>4, <3>2
    <3>3. CASE index \in S /\ S \ {index} # {}
      <4>1. S \ {index} \in (SUBSET ordered) \ {{}}
        BY <1>2, <3>3
      <4>2. PICK i \in S \ {index} : graph[i] \cap (S \ {index}) = {}
        BY <1>6, <4>1 DEF Layered
      <4>3. index \notin graph[i]
        BY <1>4, <1>6, <4>1, <4>2 DEF Layered
      <4> QED
        BY <4>2, <4>3
    <3> QED
      BY <1>2, <3>1, <3>2, <3>3
  <2> QED
    BY <1>2, <2>1, <2>2 DEF Layered
<1>11. inDegree' \in [Op -> Int] /\ readyNow' \in SUBSET Op /\ ordered' \in SUBSET Op
  <2>1. \A i \in Op : inDegree[i] - (IF i \in GC!dependents(index) THEN 1 ELSE 0) \in Int
    BY DEF CheckInv
  <2> QED
    BY <1>2, <1>4, <1>5, <2>1 DEF CheckInv
<1> QED
  BY <1>2, <1>6, <1>9, <1>10, <1>11 DEF CheckInv, Dangling

LEMMA CheckSteps == CheckInv /\ [GC!Next]_checkVars => CheckInv'
<1> SUFFICES ASSUME CheckInv, [GC!Next]_checkVars PROVE CheckInv'
  OBVIOUS
<1>0. GC!Op = Op
  BY DEF GC!Op, Op
<1>1. CASE GC!MissingDependency
  BY <1>0, <1>1 DEF GC!MissingDependency, GC!Missing, CheckInv, Dangling, Counted, Layered
<1>2. CASE GC!TakeReady
  BY <1>2, CheckTakes
<1>3. CASE GC!Conclude
  <2>1. ~Dangling /\ readyNow = {} /\ verdict' = (IF ordered = Op THEN "ok" ELSE "cycle")
    <3>1. ordered \in SUBSET Op
      BY DEF CheckInv
    <3>2. Cardinality(ordered) = NOp <=> ordered = Op
      BY <3>1, AllOrdered
    <3>3. ~Dangling
      BY <1>3 DEF GC!Conclude, GC!Missing, GC!Op, Op, Dangling
    <3>4. readyNow = {} /\ verdict' = IF Cardinality(ordered) = NOp THEN "ok" ELSE "cycle"
      BY <1>3, SameCardinality, Zenon DEF GC!Conclude
    <3> QED
      BY <3>2, <3>3, <3>4
  <2> QED
    BY <1>3, <2>1 DEF GC!Conclude, CheckInv, Dangling, Counted, Layered
<1>4. CASE GC!Observe
  BY <1>4 DEF GC!Observe, CheckInv, Dangling, Counted, Layered
<1>5. CASE UNCHANGED checkVars
  BY <1>5 DEF checkVars, CheckInv, Dangling, Counted, Layered
<1> QED
  BY <1>1, <1>2, <1>3, <1>4, <1>5 DEF GC!Next

LEMMA CheckCorrect == CheckInv => GraphCheckCorrect
<1> SUFFICES ASSUME CheckInv PROVE GraphCheckCorrect
  OBVIOUS
<1>0. GC!Op = Op /\ GC!Missing = 0
  BY DEF GC!Op, Op, GC!Missing
<1>1. \A g : GC!Acyclic(g) <=> Acyclic(g)
  BY <1>0 DEF GC!Acyclic, Acyclic
<1>2. verdict = "ok" => Acyclic(graph) /\ ~Dangling
  BY DEF CheckInv, Layered, Acyclic
<1>3. GC!VerdictCorrect
  <2>1. ASSUME verdict = "cycle" PROVE ~Acyclic(graph)
    <3> DEFINE left == Op \ ordered
    <3>1. ordered \in SUBSET Op /\ ordered # Op /\ readyNow = {} /\ Counted /\ graph \in [Op -> SUBSET Op]
      BY <2>1 DEF CheckInv, Dangling
    <3>2. left \in SUBSET Op /\ left # {}
      <4>1. \E i \in Op : i \notin ordered
        BY <3>1
      <4> QED
        BY <4>1
    <3>3. \A i \in left : graph[i] \cap left # {}
      BY <3>1 DEF Counted
    <3> HIDE DEF left
    <3> QED
      BY <3>2, <3>3 DEF Acyclic
  <2>2. verdict = "missing" => Dangling
    BY DEF CheckInv
  <2> QED
    BY <1>0, <1>1, <1>2, <2>1, <2>2 DEF GC!VerdictCorrect, Dangling
<1>4. GC!DegreeCountsUnordered
  <2>1. (\A i \in Op : 0 \notin graph[i]) => Counted
    BY DEF CheckInv, Dangling
  <2> QED
    BY <1>0, <2>1, SameCardinality, Zenon DEF GC!DegreeCountsUnordered, Counted
<1>5. GC!RecursionAgrees
  <2> SUFFICES ASSUME verdict = "ok", NEW i \in Op
               PROVE  /\ GC!dependenciesDone(graph, observed, i)
                            <=> \A d \in graph[i] : GC!dependencyChainDone[d]
                      /\ GC!dependencyFailed(graph, observed, i)
                            <=> \E d \in graph[i] : GC!dependencyChainFailed[d]
    BY <1>0 DEF GC!RecursionAgrees
  <2>1. graph \in [Op -> SUBSET Op]
    BY <1>2 DEF CheckInv, Dangling
  <2>2. GC!dependenciesDone(graph, observed, i) <=> dependenciesDone(graph, observed, i)
    BY DEF GC!dependenciesDone, dependenciesDone, GC!ChainDone, ChainDone, GC!SkipClosed, SkipClosed,
           GC!Op, Op, GC!terminal, terminal
  <2>3. GC!dependencyFailed(graph, observed, i) <=> dependencyFailed(graph, observed, i)
    BY DEF GC!dependencyFailed, dependencyFailed, GC!ChainClean, ChainClean, GC!SkipClosed, SkipClosed,
           GC!Op, Op, GC!Failing, Failing
  <2> QED
    BY <1>2, <2>1, <2>2, <2>3, Agree, Zenon
<1> QED
  BY <1>3, <1>4, <1>5 DEF GraphCheckCorrect

\* The check of a plan accepts exactly the graphs without a cycle and without a dangling
\* dependency, and the recursion through skipped operations is well defined on them and
\* finds what the closed sets say (operationGraphError, dependencyChainDone, dependencyChainFailed).
THEOREM GraphChecked == MCSpec => []GraphCheckCorrect
<1>1. MCInit => CheckInv
  BY CheckInit DEF MCInit
<1>2. CheckInv /\ [MCNext]_<<vars, checkVars, subject>> => CheckInv'
  BY CheckSteps DEF MCNext, checkVars
<1> QED
  BY <1>1, <1>2, CheckCorrect, PTL DEF MCSpec
=============================================================================
