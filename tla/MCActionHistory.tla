--------------------------- MODULE MCActionHistory ---------------------------
(* Two windows on one history. A behaviour remembers whether the calls of the  *)
(* two were ever under way at the same time: some properties need the calls    *)
(* to come one after the other.                                                *)
EXTENDS ActionHistory, TLC

CONSTANTS w1, w2

TwoWindows == {w1, w2}
TwoLanes == {"main", "experiment"}
\* Reverts meet calls, faults and crashes, but not all of each at once; and a second
\* failure meets neither reverts nor crashes.
FewAtOnce ==
  /\ reverts > 0 => calls <= 2
  /\ faults > 1 => reverts = 0 /\ crashes = 0

Symmetry == Permutations(TwoWindows)

\* No two processes are inside a call.
Alone == \A u, v \in Window : u = v \/ idle(u) \/ idle(v)

VARIABLE overlapped
MCInit == Init /\ overlapped = FALSE
MCNext == Next /\ overlapped' = (overlapped \/ ~Alone')
MCSpec == MCInit /\ [][MCNext]_<<vars, overlapped>>

\* JournalIsWhole holds whatever the two windows do together.  What the mutations
\* decide before they call append(), outside its lock, holds as long as no two
\* calls overlap, over failures and crashes of each: undo and redo alternate,
AlternatesInTurn == ~overlapped => CompensationTargetsTail
\* lanes are created once and change only on purpose,
LanesInTurn == ~overlapped => LaneChangesOnPurpose /\ LaneCreatedOnce
\* and stepping back through the saves of project.json discards no event.
OlderActionsStayInTurn == ~overlapped => OlderActionsStay
=============================================================================
