----------------------------- MODULE GraphCheck -----------------------------
(***************************************************************************)
(* operationGraphError, the check JobEngine::start runs on a plan before   *)
(* it accepts it: every dependency exists, and Kahn's algorithm orders     *)
(* every operation.  One action per turn of the loop.  After an accepted   *)
(* plan, Observe picks operation states as a run would reach them, and the *)
(* recursion of the code is compared with the definitions of               *)
(* OperationGraph that the engine's model and its theorems use.            *)
(***************************************************************************)
EXTENDS OperationGraph, FiniteSets

Missing == 0            \* an id in dependsOn that names no operation

VARIABLES
  graph,      \* dependsOn of each operation
  inDegree,   \* dependencies not yet ordered
  ready,      \* the members of the ready list, which is kept sorted
  ordered,    \* operations taken from it
  verdict,    \* "checking", "missing", "cycle" or "ok"
  state       \* operation states under an accepted plan

vars == <<graph, inDegree, ready, ordered, verdict, state>>

mutantForwardOnly(i) == {j \in Op : i \in graph[j] /\ i < j}

dependents(i) == {j \in Op : i \in graph[j]}

\* The first of the sorted list.
least(list) == CHOOSE i \in list : \A j \in list : i <= j

Init ==
  /\ graph \in [Op -> SUBSET (Op \cup {Missing})]
  /\ inDegree = [i \in Op |-> Cardinality(graph[i])]
  /\ ready = {i \in Op : graph[i] = {}}
  /\ ordered = {}
  /\ verdict = "checking"
  /\ state = [i \in Op |-> "queued"]

MissingDependency ==
  /\ verdict = "checking"
  /\ ordered = {}
  /\ \E i \in Op : Missing \in graph[i]
  /\ verdict' = "missing"
  /\ UNCHANGED <<graph, inDegree, ready, ordered, state>>

\* One turn of the while loop: take the first ready operation, release its dependents.
TakeReady ==
  /\ verdict = "checking"
  /\ \A i \in Op : Missing \notin graph[i]
  /\ ready # {}
  /\ LET index == least(ready)
         left  == [i \in Op |-> inDegree[i] - IF i \in dependents(index) THEN 1 ELSE 0]
         freed == {i \in dependents(index) : left[i] = 0}
     IN /\ inDegree' = left
        /\ ready' = (ready \ {index}) \cup freed
        /\ ordered' = ordered \cup {index}
  /\ UNCHANGED <<graph, verdict, state>>

Conclude ==
  /\ verdict = "checking"
  /\ \A i \in Op : Missing \notin graph[i]
  /\ ready = {}
  /\ verdict' = IF Cardinality(ordered) = NOp THEN "ok" ELSE "cycle"
  /\ UNCHANGED <<graph, inDegree, ready, ordered, state>>

\* The states a run of the accepted plan may hold when the scheduler looks.
Observe ==
  /\ verdict = "ok"
  /\ state' \in [Op -> {"queued", "running", "done", "failed", "skipped"}]
  /\ UNCHANGED <<graph, inDegree, ready, ordered, verdict>>

Next == MissingDependency \/ TakeReady \/ Conclude \/ Observe

Spec == Init /\ [][Next]_vars

-----------------------------------------------------------------------------
\* The recursion as the code writes it.
dependencyChainDone[i \in Op] ==
  \/ state[i] # "skipped" /\ state[i] \in terminal
  \/ state[i] = "skipped" /\ \A d \in graph[i] : dependencyChainDone[d]

dependencyChainFailed[i \in Op] ==
  \/ state[i] \in Failing
  \/ state[i] = "skipped" /\ \E d \in graph[i] : dependencyChainFailed[d]

-----------------------------------------------------------------------------
\* The loop accepts exactly the graphs without a cycle and without a dangling
\* dependency: an accepted plan can always be run to its end.
VerdictCorrect ==
  /\ verdict = "ok" => Acyclic(graph) /\ \A i \in Op : Missing \notin graph[i]
  /\ verdict = "cycle" => ~Acyclic(graph)
  /\ verdict = "missing" => \E i \in Op : Missing \in graph[i]

\* Kahn's bookkeeping: an unordered operation waits for exactly its unordered
\* dependencies, and it is in the ready list exactly when there are none.
DegreeCountsUnordered ==
  (\A i \in Op : Missing \notin graph[i]) =>
    \A i \in Op : /\ inDegree[i] = Cardinality(graph[i] \ ordered)
                  /\ i \in ready <=> graph[i] \subseteq ordered /\ i \notin ordered

\* The recursive questions of the scheduler and their closed-set statements
\* agree for every operation of every accepted plan in every state.
RecursionAgrees ==
  verdict = "ok" =>
    \A i \in Op :
      /\ dependenciesDone(graph, state, i)
           <=> \A d \in graph[i] : dependencyChainDone[d]
      /\ dependencyFailed(graph, state, i)
           <=> \E d \in graph[i] : dependencyChainFailed[d]

=============================================================================
