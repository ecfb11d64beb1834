----------------------------- MODULE ServicingRun -----------------------------
(***************************************************************************)
(* What a servicing run promises to the one who started it, whatever the   *)
(* scheduling: work is taken from what is pending, never after a           *)
(* cancellation; a job is withdrawn only because something went wrong; the *)
(* run ends only when nothing is at work; and it ends as a success exactly *)
(* when every job it took succeeded and none was left out.  A crash        *)
(* forgets the run.                                                        *)
(***************************************************************************)
CONSTANT Jobs

VARIABLES
  phase,      \* "idle", "running" or "cancelling"
  pending,    \* jobs not yet taken
  working,    \* jobs at work
  spoilt,     \* did a job fail, or was one withdrawn or cancelled?
  verdict     \* how the last run ended: "none", "success" or "stopped"

vars == <<phase, pending, working, spoilt, verdict>>

Idle ==
  /\ phase = "idle"
  /\ pending = {}
  /\ working = {}
  /\ spoilt = FALSE

Init == Idle /\ verdict = "none"

Rest(result) ==
  /\ phase' = "idle"
  /\ pending' = {}
  /\ working' = {}
  /\ spoilt' = FALSE
  /\ verdict' = result

Begin(chosen) ==
  /\ phase = "idle"
  /\ phase' = "running"
  /\ pending' = chosen
  /\ working' = {}
  /\ spoilt' = FALSE
  /\ verdict' = "none"

\* A start that fails halfway leaves no run behind.
Refuse == phase = "idle" /\ Rest("none")

Take(j) ==
  /\ phase = "running" /\ j \in pending
  /\ pending' = pending \ {j}
  /\ working' = working \cup {j}
  /\ UNCHANGED <<phase, spoilt, verdict>>

Succeed(j) ==
  /\ phase = "running" /\ j \in working
  /\ working' = working \ {j}
  /\ UNCHANGED <<phase, pending, spoilt, verdict>>

Fail(j) ==
  /\ j \in working
  /\ working' = working \ {j}
  /\ spoilt' = TRUE
  /\ UNCHANGED <<phase, pending, verdict>>

Withdraw(j) ==
  /\ phase = "running" /\ spoilt /\ j \in pending
  /\ pending' = pending \ {j}
  /\ UNCHANGED <<phase, working, spoilt, verdict>>

Cancel ==
  /\ phase = "running"
  /\ phase' = "cancelling"
  /\ pending' = {}
  /\ spoilt' = (spoilt \/ pending # {})
  /\ UNCHANGED <<working, verdict>>

Finish ==
  /\ phase # "idle" /\ pending = {} /\ working = {}
  /\ Rest(IF phase = "running" /\ ~spoilt THEN "success" ELSE "stopped")

Crash == Rest("none")

Next ==
  \/ \E chosen \in SUBSET Jobs : Begin(chosen)
  \/ \E j \in Jobs : Take(j) \/ Succeed(j) \/ Fail(j) \/ Withdraw(j)
  \/ Refuse \/ Cancel \/ Finish \/ Crash

Spec == Init /\ [][Next]_vars

=============================================================================
