------------------------------ MODULE OpenCode ------------------------------
(***************************************************************************)
(* OpenCodeSetup finds, installs and verifies the opencode program, once   *)
(* the operator has approved it, and AppController runs requests with it,  *)
(* one at a time from a queue. Programs on the machine come and go outside *)
(* this one. Every process is started with a time limit; past it, it is    *)
(* asked to end and then killed. Everything runs on one event loop.        *)
(***************************************************************************)
EXTENDS Naturals, Sequences

CONSTANTS MaxCalls,     \* bound: calls of ensureReady(), retry() and runOpenCode()
          MaxChanges    \* bound: programs that come or go by themselves

VARIABLES
  machine,      \* the programs found on the machine: of "opencode", "npm", "winget"
  setup,        \* m_state
  authorized,   \* m_explicitSetupAuthorized
  shuttingDown, \* m_shuttingDown
  attempt,      \* the process of the attempt: "none", "winget", "npm", "verify"
  path,         \* whether m_executablePath holds a path
  callers,      \* the number of m_pending completions
  requests,     \* the length of m_openCodeRequests
  request,      \* m_openCodeProcess: "none", "running" or "overdue"
  verified,     \* history: a verification succeeded in the last attempt
  calls, changes
attempts == <<setup, attempt, path, callers, verified>>
asking == <<requests, request>>
vars == <<machine, attempts, authorized, shuttingDown, asking, calls, changes>>

programs == {"opencode", "npm", "winget"}
ready == setup = "Ready"
busy == setup \in {"Installing", "Verifying"}

TypeOK ==
  /\ machine \subseteq programs
  /\ setup \in {"Absent", "Installing", "Verifying", "Ready", "Failed"}
  /\ {authorized, shuttingDown, path, verified} \subseteq BOOLEAN
  /\ attempt \in {"none", "winget", "npm", "verify"}
  /\ request \in {"none", "running", "overdue"}
  /\ callers \in 0 .. MaxCalls /\ requests \in 0 .. MaxCalls
  /\ calls \in 0 .. MaxCalls /\ changes \in 0 .. MaxChanges

Init ==
  /\ machine \in SUBSET programs
  /\ setup = "Absent" /\ authorized = FALSE /\ shuttingDown = FALSE
  /\ attempt = "none" /\ path = FALSE /\ callers = 0 /\ verified = FALSE
  /\ requests = 0 /\ request = "none" /\ calls = 0 /\ changes = 0

-----------------------------------------------------------------------------
(* An attempt. Each definition says what it makes of attempts, given the    *)
(* number of completions that wait by then.                                 *)

mutantForgetCallers(waiting) ==
  /\ setup' = "Failed" /\ attempt' = "none" /\ path' = FALSE
  /\ callers' = waiting /\ verified' = FALSE
finishFailed(waiting) ==
  /\ setup' = "Failed" /\ attempt' = "none" /\ path' = FALSE
  /\ callers' = 0 /\ verified' = FALSE

finishReady ==
  /\ setup' = "Ready" /\ attempt' = "none" /\ callers' = 0 /\ verified' = TRUE
  /\ UNCHANGED path

startVerification(found, waiting) ==
  IF "opencode" \in found
  THEN /\ setup' = "Verifying" /\ attempt' = "verify" /\ path' = TRUE
       /\ callers' = waiting /\ verified' = FALSE
  ELSE finishFailed(waiting)

install(tool, waiting) ==
  /\ setup' = "Installing" /\ attempt' = tool /\ callers' = waiting
  /\ path' = FALSE /\ verified' = FALSE

startNpmInstall(found, waiting) ==
  IF "npm" \in found THEN install("npm", waiting) ELSE finishFailed(waiting)

startAttempt(waiting) ==
  CASE "opencode" \in machine -> startVerification(machine, waiting)
    [] "opencode" \notin machine /\ "npm" \in machine -> install("npm", waiting)
    [] machine = {"winget"} -> install("winget", waiting)
    [] OTHER -> finishFailed(waiting)

(* ensureReady(): refused at once without approval or during shutdown; a    *)
(* caller joins an attempt that is going on. Once ready, whatever opencode  *)
(* is found by now is taken, without another verification.                  *)
ensureReady ==
  CASE ready /\ "opencode" \in machine ->
         /\ callers' = 0 /\ path' = TRUE /\ UNCHANGED <<setup, attempt, verified>>
    [] ~ready /\ busy ->
         /\ callers' = callers + 1 /\ UNCHANGED <<setup, attempt, path, verified>>
    [] OTHER -> startAttempt(callers + 1)

EnsureReady ==
  /\ calls < MaxCalls /\ calls' = calls + 1
  /\ \E retry \in BOOLEAN :
       /\ authorized' = (authorized \/ retry)
       /\ IF ~shuttingDown /\ authorized' THEN ensureReady ELSE UNCHANGED attempts
  /\ UNCHANGED <<machine, shuttingDown, asking, changes>>

(* The end of a process of the attempt, with what it left on the machine. A *)
(* failure to start and a time limit are failures like any other.           *)
winGetEnds == startNpmInstall(machine', callers)
npmEnds == startVerification(machine', callers)
ProcessEnds ==
  /\ attempt # "none" /\ ~shuttingDown
  /\ \/ /\ finishFailed(callers) /\ UNCHANGED machine
     \/ /\ attempt = "winget" /\ machine' \in {machine, machine \cup {"npm"}}
        /\ winGetEnds
     \/ /\ attempt = "npm" /\ machine' \in {machine, machine \cup {"opencode"}}
        /\ npmEnds
     \/ /\ attempt = "verify" /\ finishReady /\ UNCHANGED machine
  /\ UNCHANGED <<authorized, shuttingDown, asking, calls, changes>>

(* Programs are installed and removed outside this program too. *)
MachineChanges ==
  /\ changes < MaxChanges /\ changes' = changes + 1
  /\ \E p \in programs :
       machine' = IF p \in machine THEN machine \ {p} ELSE machine \cup {p}
  /\ UNCHANGED <<attempts, authorized, shuttingDown, asking, calls>>

(* shutdown(): ends the process of the attempt and answers every caller; it *)
(* is part of the controller's end, which ends the request as well.         *)
Shutdown ==
  /\ ~shuttingDown /\ shuttingDown' = TRUE
  /\ attempt' = "none" /\ callers' = 0 /\ request' = "none" /\ requests' = 0
  /\ UNCHANGED <<machine, setup, path, verified, authorized, calls, changes>>

-----------------------------------------------------------------------------
(* The requests. *)

(* processNextOpenCodeRequest(): when nothing runs, starts the next of the  *)
(* waiting requests, or drops them all if opencode is no longer ready.      *)
processNext(waiting) ==
  IF waiting > 0 /\ ready /\ path
  THEN requests' = waiting - 1 /\ request' = "running"
  ELSE requests' = 0 /\ request' = "none"

RunOpenCode ==
  /\ calls < MaxCalls /\ ~shuttingDown
  /\ calls' = calls + 1
  /\ IF ~ready THEN UNCHANGED asking
     ELSE IF request = "none" THEN processNext(requests + 1)
     ELSE requests' = requests + 1 /\ UNCHANGED request
  /\ UNCHANGED <<machine, attempts, authorized, shuttingDown, changes>>

(* After five minutes the process is asked to end, and then killed. *)
RequestOverdue ==
  /\ request = "running" /\ request' = "overdue"
  /\ UNCHANGED <<machine, attempts, authorized, shuttingDown, requests, calls, changes>>

(* It ends, with an answer or without, or it could not be started at all. *)
RequestEnds ==
  /\ request # "none" /\ processNext(requests)
  /\ UNCHANGED <<machine, attempts, authorized, shuttingDown, calls, changes>>

Next ==
  \/ EnsureReady \/ ProcessEnds \/ MachineChanges \/ Shutdown
  \/ RunOpenCode \/ RequestOverdue \/ RequestEnds

(* Every process ends: at its time limit it is killed. *)
Fairness ==
  /\ WF_vars(ProcessEnds) /\ WF_vars(RequestOverdue)
  /\ WF_vars(request = "overdue" /\ RequestEnds)
Spec == Init /\ [][Next]_vars /\ Fairness

-----------------------------------------------------------------------------
(* Ready means that an opencode answered a verification in the attempt that *)
(* reported it: neither an installer that says it succeeded nor a program   *)
(* that is found is enough. Which program that was is not kept: one that    *)
(* takes its place later is used unverified by the next ensureReady().      *)
(* (finishReady, docs/wiki/Package-Studio.md)                               *)
ReadyIsVerified == ready => verified /\ path

(* Whoever asks for readiness is answered: completions that join an attempt *)
(* are called when it succeeds, fails, or is cut off. (completePending)     *)
CallersAnswered == (callers > 0) ~> (callers = 0)

(* A queued request is run or dropped: no request waits for ever because    *)
(* the one before it failed, could not start or hung.                       *)
RequestsEnd == (requests > 0) ~> (requests = 0)
=============================================================================
