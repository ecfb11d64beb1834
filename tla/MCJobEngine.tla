----------------------------- MODULE MCJobEngine -----------------------------
(* The engine on plans of three operations, one for each way operations can *)
(* interfere, and the check of every graph of three operations. A behaviour *)
(* is of one of the two.                                                    *)
EXTENDS JobEngine, TLC

VARIABLES graph, inDegree, readyNow, ordered, verdict, observed,
          subject     \* which of the two this behaviour is about
checkVars == <<graph, inDegree, readyNow, ordered, verdict, observed>>
GC == INSTANCE GraphCheck WITH ready <- readyNow, state <- observed

None == [i \in Op |-> {}]

base == [deps |-> None, writes |-> {}, parallel |-> Op, skipped |-> {}, allowed |-> TRUE]

\* a chain of writers, as the planner builds for image changes
chain == [base EXCEPT !.deps = (1 :> {}) @@ (2 :> {1}) @@ (3 :> {2}),
                      !.writes = Op, !.parallel = {}]
\* two parallel verifications before a write
join == [base EXCEPT !.deps[3] = {1, 2}, !.writes = {3}, !.parallel = {1, 2}]
\* a skipped operation between a producer and its consumer, listed first
throughSkip == [base EXCEPT !.deps = (1 :> {2}) @@ (2 :> {3}) @@ (3 :> {}),
                            !.skipped = {2}]
\* an imported plan that forgot to order its writers
unordered == [base EXCEPT !.writes = {1, 2}]
\* one operation that must run alone
alone == [base EXCEPT !.parallel = {1, 3}]
\* rejected by start
cyclic == [base EXCEPT !.deps[1] = {2}, !.deps[2] = {1}]
forbidden == [base EXCEPT !.allowed = FALSE]
\* nothing left to do
allSkipped == [base EXCEPT !.skipped = Op]

AllPlans == {chain, join, throughSkip, unordered, alone, cyclic, forbidden, allSkipped}

MCInit ==
  /\ subject \in {"engine", "check"}
  /\ Init /\ GC!Init
  /\ (subject = "check" \/ graph = None)
MCNext ==
  \/ subject = "engine" /\ Next /\ UNCHANGED <<checkVars, subject>>
  \/ subject = "check" /\ GC!Next /\ UNCHANGED <<vars, subject>>
  \/ subject = "check" /\ verdict # "checking" /\ UNCHANGED <<vars, checkVars, subject>>  \* at its end
MCSpec == MCInit /\ [][MCNext]_<<vars, checkVars, subject>> /\ Fairness

\* GraphCheck's properties, stated there: the verdict, the count of open
\* dependencies it rests on, and the questions asked of an accepted graph.
GraphCheckCorrect == GC!VerdictCorrect /\ GC!DegreeCountsUnordered /\ GC!RecursionAgrees
=============================================================================
