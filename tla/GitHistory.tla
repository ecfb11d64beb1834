----------------------------- MODULE GitHistory -----------------------------
(***************************************************************************)
(* One project folder's local Git repository, as WimForge drives it: two   *)
(* state files, each committed by a GitHistory object of its own that      *)
(* tracks only its file, over one index and one line of commits.           *)
(* Nothing but Git's own short-lived locks orders these objects, so every  *)
(* operator is one Git command and others may run between any two.         *)
(***************************************************************************)
EXTENDS Integers, Sequences

VARIABLES
  work,      \* the state files in the project folder
  index,     \* the same files as staged in the Git index
  commits    \* HEAD's line of commits, oldest first

gitVars == <<work, index, commits>>

Path == {"journal", "project"}

NoEvent == 0      \* the subject of a commit that records no history event

HEAD == commits[Len(commits)].tree
HEADparent == commits[Len(commits) - 1].tree

mutantStageNothing(tracked) == index

\* stageTrackedFilesWithoutFilters(): the tracked files replace their index
\* entries, the entries of other files stay as somebody left them.
staged(tracked) == [p \in Path |-> IF p \in tracked THEN work[p] ELSE index[p]]

stage(tracked) == index' = staged(tracked) /\ UNCHANGED <<work, commits>>

\* "git commit": the whole index becomes the new HEAD.
commitIndex(event) ==
  /\ commits' = Append(commits, [tree |-> index, event |-> event])
  /\ UNCHANGED <<work, index>>

-----------------------------------------------------------------------------
\* What revertLatest() asks before it changes anything.
unsaved(tracked) == \E p \in tracked : work[p] # index[p] \/ index[p] # HEAD[p]

mutantTouchesAnything(tracked) == TRUE

touchesOnly(tracked) == \A p \in Path \ tracked : HEAD[p] = HEADparent[p]

revertable(tracked) ==
  Len(commits) >= 2 /\ ~unsaved(tracked) /\ touchesOnly(tracked)

\* "git revert --no-commit HEAD": undoes what HEAD changed, in the index and
\* in the folder, unless a file it has to touch holds other changes.
undone == {p \in Path : HEAD[p] # HEADparent[p]}
revertApplies == \A p \in undone : work[p] = index[p] /\ index[p] = HEAD[p]

revertNoCommit ==
  /\ revertApplies
  /\ index' = [p \in Path |-> IF p \in undone THEN HEADparent[p] ELSE index[p]]
  /\ work'  = [p \in Path |-> IF p \in undone THEN HEADparent[p] ELSE work[p]]
  /\ UNCHANGED commits

\* "git revert --abort": back to HEAD, or nothing at all when a staged file
\* that differs from HEAD has been changed in the folder since.
revertAbort ==
  LET stagedPaths == {p \in Path : index[p] # HEAD[p]}
      possible    == \A p \in stagedPaths : work[p] = index[p]
  IN  /\ index' = IF possible THEN HEAD ELSE index
      /\ work'  = IF possible
                  THEN [p \in Path |-> IF p \in stagedPaths THEN HEAD[p] ELSE work[p]]
                  ELSE work
      /\ UNCHANGED commits
=============================================================================
