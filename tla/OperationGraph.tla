--------------------------- MODULE OperationGraph ---------------------------
(***************************************************************************)
(* The dependency graph of a servicing plan, as JobEngine reads it.        *)
(* An operation is its index in the plan (1..NOp); deps[i] is the set of   *)
(* indices its dependsOn names.  The engine accepts only acyclic graphs    *)
(* and answers two questions about them: are the prerequisites of an       *)
(* operation over, and did one of them fail.  A skipped operation is       *)
(* transparent in both: its own prerequisites stand in for it.             *)
(*                                                                         *)
(* The code answers by recursion through skipped operations.  Here the     *)
(* same answers are stated with the set the recursion visits, a set closed *)
(* under "prerequisites of a skipped member", so that theorems can be      *)
(* proved about them; GraphCheck compares them with the recursion.         *)
(***************************************************************************)
EXTENDS Integers

CONSTANT NOp            \* operations in a plan
ASSUME NOpAssumption == NOp \in Nat \ {0}

Op == 1..NOp

\* OperationState, by its operationStateName.
OperationState ==
  {"queued", "running", "done", "failed", "skipped", "blocked", "cancelled"}

terminal == {"done", "failed", "skipped", "blocked", "cancelled"}

\* The terminal states that stop a consumer.
Failing == {"failed", "blocked", "cancelled"}

mutantSelfLoopOnly(deps) == \A i \in Op : i \notin deps[i]

\* No cycle: every nonempty set of operations has one that depends on none of it.
Acyclic(deps) ==
  \A S \in (SUBSET Op) \ {{}} : \E i \in S : deps[i] \cap S = {}

\* S holds the prerequisites of every skipped operation in it.
SkipClosed(deps, state, S) ==
  \A i \in S : state[i] = "skipped" => deps[i] \subseteq S

\* Everything the recursion visits from the set D is over.
ChainDone(deps, state, D) ==
  \E S \in SUBSET Op : /\ D \subseteq S
                       /\ SkipClosed(deps, state, S)
                       /\ \A i \in S : state[i] \in terminal

\* Nothing the recursion visits from the set D failed.
ChainClean(deps, state, D) ==
  \E S \in SUBSET Op : /\ D \subseteq S
                       /\ SkipClosed(deps, state, S)
                       /\ \A i \in S : state[i] \notin Failing

mutantDirectFailure(deps, state, i) == \E d \in deps[i] : state[d] \in Failing

dependenciesDone(deps, state, i) == ChainDone(deps, state, deps[i])
dependencyFailed(deps, state, i) == ~ChainClean(deps, state, deps[i])

=============================================================================
