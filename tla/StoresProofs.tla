---------------------------- MODULE StoresProofs ----------------------------
(***************************************************************************)
(* What command lines may do to one project folder and one image, and what *)
(* survives in the two stores that they share with a window, for any       *)
(* number of clients, operations, failures and kills.                      *)
(*                                                                         *)
(* Command lines: a process in the middle of its plan is the one that      *)
(* mounted the image: then no other process can be past its mount.  What   *)
(* is staged, or about to be written, is valid too, and the stamps on disk *)
(* and in the index only grow until a history command touches the folder.  *)
(* While only one command is under way, the journal is committed as soon   *)
(* as it is staged, and a step of a save or revert still has what the one  *)
(* before it looked at (Alone).                                            *)
(*                                                                         *)
(* Validation runs: every file carries every run that anyone knows of -    *)
(* saved, read or on display - and so does the list that the owner of the  *)
(* lock is about to write, and the backup it would put back.  Of one       *)
(* revision of a run there is one version only, so that what a user has    *)
(* read is still there, or has been replaced by a later revision.          *)
(*                                                                         *)
(* Notifications: what was reported as done is in the files, and in the    *)
(* files the owner of the lock would put back, since only the owner        *)
(* changes them; every pair of files that nobody is at, that was committed *)
(* or that is kept for a rollback says the same in its state as in its     *)
(* events.                                                                 *)
(***************************************************************************)
EXTENDS MCStores, FiniteSetTheorems, SequenceTheorems, TLAPS

-----------------------------------------------------------------------------
(* The command lines. *)

Programs == {"mount", "enable", "disable", "commit", "discard"}

Fields == {"command", "pc", "project", "stamp", "plan", "completed", "executed", "code"}
isCall(r) == DOMAIN r = Fields /\ r = [f \in Fields |-> r[f]]

(* The record r of process p, with `mounter` having mounted the image. *)
AppliesAs(p, r, mounter) ==
  /\ isCall(r) /\ r.plan \in Seq(Programs) /\ r.executed \in Seq(Programs)
  /\ r.pc \notin {"idle", "execute"} => r.executed = <<>> /\ r.completed = {}
  /\ r.pc = "execute" \/ r.executed # <<>> =>
       r.plan = build(r.project) /\ confirmed(r.command, r.plan)
       /\ "paths" \in r.project /\ "dryRun" \notin r.project
  /\ r.executed # <<>> => Len(r.executed) <= Len(r.plan)
  /\ \A i \in 1 .. Len(r.executed) : r.executed[i] = r.plan[i] /\ (i > 1 => i - 1 \in r.completed)
  /\ r.pc = "execute" => r.completed = 1 .. Len(r.executed)
  /\ r.pc = "execute" /\ r.executed # <<>> /\ Len(r.executed) < Len(r.plan) => mounter = p

AppliesInv ==
  /\ call = [p \in Shell |-> call[p]]
  /\ \A p \in Shell : AppliesAs(p, call[p], mountedBy)
  /\ serviced \in Seq(Shell) /\ OneServicer

-----------------------------------------------------------------------------
\* A plan mounts first and only then, and unmounts last and only then.
LEMMA PlanShape ==
  ASSUME NEW d
  PROVE  /\ build(d) \in Seq(Programs) /\ Len(build(d)) \in 2 .. 4
         /\ build(d)[1] = "mount"
         /\ \A i \in 2 .. Len(build(d)) - 1 : build(d)[i] \in {"enable", "disable"}
         /\ build(d)[Len(build(d))] \in {"commit", "discard"}
<1> DEFINE mount == <<"mount">>
           enable == IF "enable" \in d THEN <<"enable">> ELSE <<>>
           disable == IF "disable" \in d THEN <<"disable">> ELSE <<>>
           end == <<IF "discard" \in d THEN "discard" ELSE "commit">>
           middle == mount \o enable
           changed == middle \o disable
<1>1. /\ mount \in Seq(Programs) /\ Len(mount) = 1 /\ mount[1] = "mount"
      /\ end \in Seq(Programs) /\ Len(end) = 1 /\ end[1] \in {"commit", "discard"}
  BY DEF Programs
<1>2. /\ enable \in Seq(Programs) /\ Len(enable) \in 0 .. 1
      /\ \A i \in 1 .. Len(enable) : enable[i] = "enable"
  <2>1. CASE "enable" \in d
    BY <2>1 DEF Programs
  <2>2. CASE "enable" \notin d
    BY <2>2
  <2> QED
    BY <2>1, <2>2
<1>3. /\ disable \in Seq(Programs) /\ Len(disable) \in 0 .. 1
      /\ \A i \in 1 .. Len(disable) : disable[i] = "disable"
  <2>1. CASE "disable" \in d
    BY <2>1 DEF Programs
  <2>2. CASE "disable" \notin d
    BY <2>2
  <2> QED
    BY <2>1, <2>2
<1>4. build(d) = changed \o end /\ changed = middle \o disable /\ middle = mount \o enable
  BY DEF build
<1> HIDE DEF mount, enable, disable, end, middle, changed
<1>5. ASSUME NEW s \in Seq(Programs), NEW t \in Seq(Programs)
      PROVE  /\ s \o t \in Seq(Programs) /\ Len(s \o t) = Len(s) + Len(t)
             /\ \A i \in 1 .. Len(s) + Len(t) :
                  (s \o t)[i] = IF i <= Len(s) THEN s[i] ELSE t[i - Len(s)]
  BY ConcatProperties
<1>6. /\ middle \in Seq(Programs) /\ Len(middle) \in 1 .. 2 /\ middle[1] = "mount"
      /\ \A i \in 2 .. Len(middle) : middle[i] \in {"enable", "disable"}
  <2>1. /\ middle \in Seq(Programs) /\ Len(middle) = 1 + Len(enable)
        /\ \A i \in 1 .. 1 + Len(enable) : middle[i] = IF i <= 1 THEN mount[i] ELSE enable[i - 1]
    <3>1. mount \in Seq(Programs) /\ enable \in Seq(Programs) /\ Len(mount) = 1
      BY <1>1, <1>2
    <3>2. /\ mount \o enable \in Seq(Programs) /\ Len(mount \o enable) = Len(mount) + Len(enable)
          /\ \A i \in 1 .. Len(mount) + Len(enable) :
               (mount \o enable)[i] = IF i <= Len(mount) THEN mount[i] ELSE enable[i - Len(mount)]
      BY <3>1, <1>5
    <3> QED
      BY <3>1, <3>2, <1>4
  <2>2. ASSUME NEW i \in 2 .. Len(middle) PROVE middle[i] \in {"enable", "disable"}
    BY <1>2, <2>1
  <2> QED
    BY <1>1, <1>2, <2>1, <2>2
<1>7. /\ changed \in Seq(Programs) /\ Len(changed) \in 1 .. 3 /\ changed[1] = "mount"
      /\ \A i \in 2 .. Len(changed) : changed[i] \in {"enable", "disable"}
  <2>1. /\ changed \in Seq(Programs) /\ Len(changed) = Len(middle) + Len(disable)
        /\ \A i \in 1 .. Len(middle) + Len(disable) :
             changed[i] = IF i <= Len(middle) THEN middle[i] ELSE disable[i - Len(middle)]
    BY <1>3, <1>4, <1>5, <1>6
  <2>2. ASSUME NEW i \in 2 .. Len(changed) PROVE changed[i] \in {"enable", "disable"}
    <3>1. CASE i <= Len(middle)
      BY <1>3, <1>6, <2>1, <3>1
    <3>2. CASE i > Len(middle)
      <4>1. i - Len(middle) \in 1 .. Len(disable) /\ changed[i] = disable[i - Len(middle)]
        BY <1>3, <1>6, <2>1, <3>2
      <4> QED
        BY <1>3, <4>1
    <3> QED
      BY <3>1, <3>2, <1>6
  <2> QED
    BY <1>3, <1>6, <2>1, <2>2
<1> QED
  <2>1. /\ build(d) \in Seq(Programs) /\ Len(build(d)) = Len(changed) + 1
        /\ \A i \in 1 .. Len(changed) + 1 :
             build(d)[i] = IF i <= Len(changed) THEN changed[i] ELSE end[i - Len(changed)]
    <3>1. end \in Seq(Programs) /\ changed \in Seq(Programs) /\ Len(end) = 1
      BY <1>1, <1>7
    <3>2. /\ changed \o end \in Seq(Programs) /\ Len(changed \o end) = Len(changed) + Len(end)
          /\ \A i \in 1 .. Len(changed) + Len(end) :
               (changed \o end)[i] = IF i <= Len(changed) THEN changed[i] ELSE end[i - Len(changed)]
      BY <3>1, <1>5
    <3> QED
      BY <3>1, <3>2, <1>4
  <2>2. build(d)[Len(build(d))] = end[1] /\ build(d)[1] = changed[1]
    BY <1>7, <2>1
  <2>3. ASSUME NEW i \in 2 .. Len(build(d)) - 1 PROVE build(d)[i] = changed[i]
    BY <1>7, <2>1
  <2>4. Len(build(d)) \in 2 .. 4 /\ Len(build(d)) - 1 = Len(changed)
    BY <1>7, <2>1
  <2> QED
    BY <1>1, <1>7, <2>1, <2>2, <2>3, <2>4

\* A plan that was confirmed without --yes destroys nothing.
LEMMA ConfirmedPlans ==
  ASSUME NEW c, NEW plan \in Seq(Programs), confirmed(c, plan), NEW i \in DOMAIN plan,
         destructive(plan[i])
  PROVE  c.yes
<1> DEFINE S == {j \in DOMAIN plan : destructive(plan[j])}
<1>1. IsFiniteSet(S)
  <2>1. IsFiniteSet(1 .. Len(plan))
    BY FS_Interval
  <2>2. S \subseteq 1 .. Len(plan)
    OBVIOUS
  <2> QED
    BY <2>1, <2>2, FS_Subset
<1>2. S # {}
  OBVIOUS
<1>3. Cardinality(S) # 0
  BY <1>1, <1>2, FS_EmptySet
<1> QED
  BY <1>3 DEF confirmed, destructiveCount

-----------------------------------------------------------------------------
\* A command that has just started, wherever it begins.
LEMMA StartedApplies ==
  ASSUME NEW p, NEW c, NEW pc, NEW mounter, pc # "execute"
  PROVE  AppliesAs(p, started(c, pc), mounter)
<1> DEFINE r == started(c, pc)
<1>1. isCall(r) /\ r.plan = <<>> /\ r.executed = <<>> /\ r.completed = {} /\ r.pc = pc
  BY DEF started, isCall, Fields
<1> HIDE DEF r
<1>2. AppliesAs(p, r, mounter)
  BY <1>1 DEF AppliesAs
<1> QED
  BY <1>2 DEF r

LEMMA InitApplies == Init => AppliesInv
<1> SUFFICES ASSUME Init PROVE AppliesInv
  OBVIOUS
<1>1. \A p \in Shell : AppliesAs(p, started([verb |-> "none"], "idle"), mountedBy)
  BY StartedApplies
<1>2. call = [p \in Shell |-> started([verb |-> "none"], "idle")]
  BY DEF Init
<1>3. \A p \in Shell : AppliesAs(p, call[p], mountedBy)
  BY <1>1, <1>2
<1>4. call = [p \in Shell |-> call[p]] /\ serviced \in Seq(Shell) /\ OneServicer
  BY <1>2 DEF Init, OneServicer
<1> QED
  BY <1>3, <1>4 DEF AppliesInv

\* A process that goes on without touching the image leaves the others as they were.
LEMMA OneGoesOn ==
  ASSUME AppliesInv, NEW p \in Shell, NEW r, goOn(p, r), AppliesAs(p, r, mountedBy), UNCHANGED target
  PROVE  AppliesInv'
<1>1. call' = [q \in Shell |-> IF q = p THEN r ELSE call[q]]
  BY DEF AppliesInv, goOn
<1>2. \A q \in Shell : AppliesAs(q, call'[q], mountedBy)
  BY <1>1 DEF AppliesInv
<1>3. call' = [q \in Shell |-> call'[q]] /\ UNCHANGED <<mountedBy, serviced>>
  BY <1>1 DEF target
<1> QED
  BY <1>2, <1>3 DEF AppliesInv, OneServicer

\* A step of a process that has executed nothing, to a place where nothing is executed.
LEMMA QuietStep ==
  ASSUME AppliesInv, NEW p \in Shell, NEW r, goOn(p, r), UNCHANGED target,
         isCall(r), r.plan \in Seq(Programs), r.executed = <<>>, r.completed = {}, r.pc # "execute"
  PROVE  AppliesInv'
<1>1. AppliesAs(p, r, mountedBy)
  BY DEF AppliesAs
<1> QED
  BY <1>1, OneGoesOn

LEMMA ExitStep ==
  ASSUME AppliesInv, NEW p \in Shell, NEW code, exit(p, code), UNCHANGED target
  PROVE  AppliesInv'
<1>0. AppliesAs(p, call[p], mountedBy)
  BY DEF AppliesInv
<1> DEFINE s == [call[p] EXCEPT !.pc = "idle", !.code = code]
<1>1. /\ isCall(s) /\ s.pc = "idle" /\ s.command = call[p].command /\ s.project = call[p].project
      /\ s.plan = call[p].plan /\ s.completed = call[p].completed /\ s.executed = call[p].executed
  BY <1>0 DEF AppliesAs, isCall, Fields
<1> HIDE DEF s
<1>2. AppliesAs(p, s, mountedBy)
  BY <1>0, <1>1 DEF AppliesAs
<1> USE DEF s
<1> QED
  BY <1>2, OneGoesOn DEF exit

\* A command that is at one of its steps, and is not an apply at work, moves on.
LEMMA ToStep ==
  ASSUME AppliesInv, NEW p \in Shell, NEW pc, to(p, pc), UNCHANGED target,
         call[p].pc \notin {"idle", "execute"}, pc # "execute"
  PROVE  AppliesInv'
<1>0. AppliesAs(p, call[p], mountedBy)
  BY DEF AppliesInv
<1> DEFINE s == [call[p] EXCEPT !.pc = pc]
<1>1. /\ isCall(s) /\ s.pc = pc /\ s.command = call[p].command /\ s.project = call[p].project
      /\ s.plan = call[p].plan /\ s.completed = call[p].completed /\ s.executed = call[p].executed
  BY <1>0 DEF AppliesAs, isCall, Fields
<1> HIDE DEF s
<1>2. AppliesAs(p, s, mountedBy)
  BY <1>0, <1>1 DEF AppliesAs
<1> USE DEF s
<1> QED
  BY <1>2, OneGoesOn DEF to

LEMMA OtherCommandsKeepApplies ==
  ASSUME AppliesInv, NEW p \in Shell,
         \/ run(p) \/ loadProject(p) \/ write(p) \/ commit(p)
         \/ historyLatest(p) \/ revertLatest(p) \/ toggle(p) \/ finish(p) \/ kill(p)
  PROVE  AppliesInv'
<1>0. UNCHANGED target
  BY DEF run, loadProject, write, commit, historyLatest, revertLatest, toggle, finish, kill
<1>a. AppliesAs(p, call[p], mountedBy)
  BY DEF AppliesInv
<1>1. CASE run(p)
  <2>1. PICK c \in Command : goOn(p, started(c, firstStep(c.verb)))
    BY <1>1 DEF run
  <2>2. firstStep(c.verb) # "execute"
    BY DEF firstStep
  <2> QED
    BY <1>0, <2>1, <2>2, StartedApplies, OneGoesOn
<1>2. CASE loadProject(p)
  <2>1. CASE \E code : exit(p, code)
    BY <1>0, <2>1, ExitStep
  <2>2. ASSUME NEW d, goOn(p, [call[p] EXCEPT !.pc = "write", !.project = d])
        PROVE  AppliesInv'
    <3> DEFINE r == [call[p] EXCEPT !.pc = "write", !.project = d]
    <3>1. isCall(r) /\ r.plan = call[p].plan /\ r.executed = call[p].executed
          /\ r.completed = call[p].completed /\ r.pc = "write"
      BY <1>a DEF AppliesAs, isCall, Fields
    <3>2. call[p].executed = <<>> /\ call[p].completed = {} /\ call[p].plan \in Seq(Programs)
      BY <1>a, <1>2 DEF AppliesAs, loadProject
    <3> HIDE DEF r
    <3>3. isCall(r) /\ r.plan \in Seq(Programs) /\ r.executed = <<>> /\ r.completed = {} /\ r.pc # "execute"
      BY <3>1, <3>2
    <3>4. goOn(p, r)
      BY <2>2 DEF r
    <3> QED
      BY <1>0, <3>3, <3>4, QuietStep
  <2> QED
    BY <1>2, <2>1, <2>2 DEF loadProject
<1>3. CASE write(p)
  <2>1. ASSUME NEW n, goOn(p, [call[p] EXCEPT !.pc = "stage", !.stamp = n])
        PROVE  AppliesInv'
    <3> DEFINE r == [call[p] EXCEPT !.pc = "stage", !.stamp = n]
    <3>1. isCall(r) /\ r.plan = call[p].plan /\ r.executed = call[p].executed
          /\ r.completed = call[p].completed /\ r.pc = "stage"
      BY <1>a DEF AppliesAs, isCall, Fields
    <3>2. call[p].executed = <<>> /\ call[p].completed = {} /\ call[p].plan \in Seq(Programs)
      BY <1>a, <1>3 DEF AppliesAs, write
    <3> HIDE DEF r
    <3>3. isCall(r) /\ r.plan \in Seq(Programs) /\ r.executed = <<>> /\ r.completed = {} /\ r.pc # "execute"
      BY <3>1, <3>2
    <3>4. goOn(p, r)
      BY <2>1 DEF r
    <3> QED
      BY <1>0, <3>3, <3>4, QuietStep
  <2> QED
    BY <1>0, <1>3, <2>1, ExitStep DEF write
<1>4. CASE commit(p)
  BY <1>0, <1>4, ExitStep, ToStep DEF commit
<1>5. CASE historyLatest(p)
  BY <1>0, <1>5, ExitStep, ToStep DEF historyLatest
<1>6. CASE revertLatest(p)
  BY <1>0, <1>6, ExitStep, ToStep DEF revertLatest
<1>7. CASE toggle(p)
  <2>1. ASSUME NEW d, goOn(p, [call[p] EXCEPT !.pc = "write", !.project = d])
        PROVE  AppliesInv'
    <3> DEFINE r == [call[p] EXCEPT !.pc = "write", !.project = d]
    <3>1. isCall(r) /\ r.plan = call[p].plan /\ r.executed = call[p].executed
          /\ r.completed = call[p].completed /\ r.pc = "write"
      BY <1>a DEF AppliesAs, isCall, Fields
    <3>2. call[p].executed = <<>> /\ call[p].completed = {} /\ call[p].plan \in Seq(Programs)
      BY <1>a, <1>7 DEF AppliesAs, toggle
    <3> HIDE DEF r
    <3>3. isCall(r) /\ r.plan \in Seq(Programs) /\ r.executed = <<>> /\ r.completed = {} /\ r.pc # "execute"
      BY <3>1, <3>2
    <3>4. goOn(p, r)
      BY <2>1 DEF r
    <3> QED
      BY <1>0, <3>3, <3>4, QuietStep
  <2> QED
    BY <1>0, <1>7, <2>1, ExitStep DEF toggle
<1>8. CASE finish(p)
  BY <1>0, <1>8, ExitStep DEF finish
<1>9. CASE kill(p)
  BY <1>0, <1>9, ExitStep DEF kill
<1> QED
  BY <1>1, <1>2, <1>3, <1>4, <1>5, <1>6, <1>7, <1>8, <1>9

-----------------------------------------------------------------------------
(* An apply. *)

LEMMA RunPlanKeepsApplies ==
  ASSUME AppliesInv, NEW p \in Shell, runPlan(p)
  PROVE  AppliesInv'
<1>0. UNCHANGED target /\ AppliesAs(p, call[p], mountedBy) /\ call[p].pc = "load"
  BY DEF runPlan, AppliesInv
<1>1. CASE \E code : exit(p, code)
  BY <1>0, <1>1, ExitStep
<1>2. CASE ~\E code : exit(p, code)
  <2> DEFINE d == work.project.doc
             r == [call[p] EXCEPT !.pc = "execute", !.project = d, !.plan = build(d)]
  <2>1. /\ ~previewOnly(call[p].command, d) /\ validateForExecution(d)
        /\ confirmed(call[p].command, build(d)) /\ goOn(p, r)
    BY <1>2 DEF runPlan
  <2>2. call[p].executed = <<>> /\ isCall(call[p])
    BY <1>0 DEF AppliesAs
  <2>3. /\ isCall(r) /\ r.pc = "execute" /\ r.project = d /\ r.plan = build(d)
        /\ r.executed = <<>> /\ r.command = call[p].command /\ r.completed = call[p].completed
    BY <2>2 DEF isCall, Fields
  <2>4. "paths" \in d /\ "dryRun" \notin d
    BY <2>1 DEF previewOnly, validateForExecution
  <2>5. build(d) \in Seq(Programs)
    BY PlanShape
  <2>6. call[p].completed = {}
    BY <1>0 DEF AppliesAs
  <2> HIDE DEF r, d
  <2>7. AppliesAs(p, r, mountedBy)
    BY <2>1, <2>3, <2>4, <2>5, <2>6 DEF AppliesAs
  <2> QED
    BY <1>0, <2>1, <2>7, OneGoesOn
<1> QED
  BY <1>1, <1>2

\* The record of an apply after the program i has run.
LEMMA RanOne ==
  ASSUME NEW p, NEW r, NEW m, AppliesAs(p, r, m), r.pc = "execute",
         Len(r.executed) + 1 \in DOMAIN r.plan, NEW code, NEW mounter,
         Len(r.executed) + 1 < Len(r.plan) => mounter = p
  PROVE  LET i   == Len(r.executed) + 1
             ran == [r EXCEPT !.executed = Append(@, r.plan[i])]
         IN  /\ AppliesAs(p, [ran EXCEPT !.pc = "idle", !.code = code], mounter)
             /\ AppliesAs(p, [ran EXCEPT !.completed = @ \union {i}], mounter)
<1> DEFINE i    == Len(r.executed) + 1
           ran  == [r EXCEPT !.executed = Append(@, r.plan[i])]
           stop == [ran EXCEPT !.pc = "idle", !.code = code]
           on   == [ran EXCEPT !.completed = @ \union {i}]
<1>1. /\ isCall(r) /\ r.executed \in Seq(Programs) /\ r.plan \in Seq(Programs)
      /\ Len(r.executed) \in Nat /\ i \in 1 .. Len(r.plan)
  BY DEF AppliesAs
<1>2. /\ isCall(stop) /\ stop.pc = "idle" /\ stop.project = r.project /\ stop.plan = r.plan
      /\ stop.executed = Append(r.executed, r.plan[i]) /\ stop.command = r.command
      /\ stop.completed = r.completed
      /\ isCall(on) /\ on.pc = "execute" /\ on.project = r.project /\ on.plan = r.plan
      /\ on.executed = Append(r.executed, r.plan[i]) /\ on.command = r.command
      /\ on.completed = r.completed \union {i}
  BY <1>1 DEF isCall, Fields
<1>3. r.completed = 1 .. Len(r.executed)
  BY DEF AppliesAs
<1> DEFINE grown == Append(r.executed, r.plan[i])
<1>4. /\ grown \in Seq(Programs) /\ grown # <<>> /\ Len(grown) = Len(r.executed) + 1
      /\ \A k \in 1 .. Len(grown) : grown[k] = IF k = i THEN r.plan[i] ELSE r.executed[k]
  BY <1>1
<1>5. \A k \in 1 .. Len(grown) : grown[k] = r.plan[k] /\ (k > 1 => k - 1 \in r.completed)
  BY <1>1, <1>3, <1>4 DEF AppliesAs
<1>6. r.completed \union {i} = 1 .. Len(grown)
  BY <1>1, <1>3, <1>4
<1>7. /\ r.plan = build(r.project) /\ confirmed(r.command, r.plan)
      /\ "paths" \in r.project /\ "dryRun" \notin r.project
  BY DEF AppliesAs
<1>8. stop.executed = grown /\ on.executed = grown /\ Len(grown) <= Len(r.plan)
  BY <1>1, <1>2, <1>4
<1> HIDE DEF stop, on, grown, ran
<1>9. AppliesAs(p, stop, mounter)
  BY <1>1, <1>2, <1>4, <1>5, <1>7, <1>8 DEF AppliesAs
<1>10. AppliesAs(p, on, mounter)
  BY <1>1, <1>2, <1>4, <1>5, <1>6, <1>7, <1>8 DEF AppliesAs
<1> QED
  BY <1>9, <1>10 DEF stop, on, ran

LEMMA ExecuteKeepsApplies ==
  ASSUME Nobody \notin Shell, AppliesInv, NEW p \in Shell, execute(p)
  PROVE  AppliesInv'
<1> DEFINE r   == call[p]
           i   == Len(r.executed) + 1
           ran == [r EXCEPT !.executed = Append(@, r.plan[i])]
           stop == [ran EXCEPT !.pc = "idle", !.code = "ExternalProcessFailed"]
           on   == [ran EXCEPT !.completed = @ \union {i}]
<1>0. /\ AppliesAs(p, r, mountedBy) /\ r.pc = "execute" /\ i \in DOMAIN r.plan
      /\ r.plan \in Seq(Programs) /\ r.executed \in Seq(Programs) /\ Len(r.executed) \in Nat
      /\ r.plan = build(r.project)
      /\ (r.executed # <<>> => mountedBy = p)
  BY DEF execute, AppliesInv, AppliesAs
<1>1. CASE exit(p, "InternalError") /\ UNCHANGED target
  BY <1>1, ExitStep
<1>2. CASE goOn(p, stop) /\ UNCHANGED target
  <2>1. AppliesAs(p, stop, IF Len(r.executed) + 1 < Len(r.plan) THEN p ELSE mountedBy)
    BY <1>0, RanOne
  <2>2. AppliesAs(p, stop, mountedBy)
    <3>1. stop.pc = "idle"
      BY <1>0 DEF AppliesAs, isCall, Fields
    <3> HIDE DEF stop
    <3> QED
      BY <2>1, <3>1 DEF AppliesAs
  <2> HIDE DEF stop
  <2> QED
    BY <1>2, <2>2, OneGoesOn
<1>3. CASE goOn(p, on) /\ possible(r.plan[i]) /\ ended(p, r.plan[i])
  <2>1. /\ (i = 1) = (r.plan[i] = "mount")
        /\ i < Len(r.plan) => r.plan[i] \notin {"commit", "discard"}
        /\ i = Len(r.plan) => r.plan[i] \in {"commit", "discard"}
        /\ i \in 1 .. Len(r.plan)
    <3>1. i \in 1 .. Len(r.plan)
      BY <1>0
    <3>2. i # 1 /\ i # Len(r.plan) => i \in 2 .. Len(r.plan) - 1
      BY <1>0, <3>1
    <3> HIDE DEF i
    <3> QED
      BY <1>0, <3>1, <3>2, PlanShape
  <2>2. r.plan[i] # "mount" => mountedBy = p
    BY <1>0, <2>1
  <2>3. /\ mountedBy \in {p, Nobody}
        /\ mountedBy' \in {p, Nobody}
        /\ i < Len(r.plan) => mountedBy' = p
    BY <1>3, <2>1, <2>2 DEF possible, ended
  <2>4. AppliesAs(p, on, mountedBy')
    BY <1>0, <2>3, RanOne
  <2> HIDE DEF on
  <2>5. call' = [q \in Shell |-> IF q = p THEN on ELSE call[q]]
    BY <1>3 DEF AppliesInv, goOn
  <2>6. ASSUME NEW q \in Shell PROVE AppliesAs(q, call'[q], mountedBy')
    <3>1. CASE q = p
      BY <2>4, <2>5, <3>1
    <3>2. CASE q # p
      <4>1. AppliesAs(q, call[q], mountedBy) /\ mountedBy # q /\ call'[q] = call[q]
        BY <2>3, <2>5, <3>2 DEF AppliesInv
      <4> QED
        BY <4>1 DEF AppliesAs
    <3> QED
      BY <3>1, <3>2
  <2>7. serviced' \in Seq(Shell) /\ OneServicer'
    <3>1. CASE r.plan[i] \in {"mount", "commit", "discard"}
      <4>1. serviced' = <<>>
        BY <1>3, <3>1 DEF ended
      <4> QED
        BY <4>1 DEF OneServicer
    <3>2. CASE r.plan[i] \notin {"mount", "commit", "discard"}
      <4>1. serviced' = Append(serviced, p) /\ mountedBy' = p /\ mountedBy = p
        BY <1>3, <2>2, <3>2 DEF ended
      <4>2. serviced \in Seq(Shell) /\ \A k \in 1 .. Len(serviced) : serviced[k] = p
        BY <4>1 DEF AppliesInv, OneServicer
      <4> HIDE DEF i, r
      <4>3. serviced' \in Seq(Shell) /\ \A k \in 1 .. Len(serviced') : serviced'[k] = p
        BY <4>1, <4>2
      <4> QED
        BY <4>1, <4>3 DEF OneServicer
    <3> QED
      BY <3>1, <3>2
  <2>8. call' = [q \in Shell |-> call'[q]]
    BY <2>5
  <2> QED
    BY <2>6, <2>7, <2>8 DEF AppliesInv
<1> QED
  BY <1>1, <1>2, <1>3 DEF execute, stopsAt

LEMMA StepApplies == ASSUME Nobody \notin Shell PROVE AppliesInv /\ [Next]_vars => AppliesInv'
<1> SUFFICES ASSUME AppliesInv, [Next]_vars PROVE AppliesInv'
  OBVIOUS
<1>1. ASSUME NEW p \in Shell,
             \/ run(p) \/ loadProject(p) \/ write(p) \/ commit(p)
             \/ historyLatest(p) \/ revertLatest(p) \/ toggle(p) \/ finish(p) \/ kill(p)
      PROVE  AppliesInv'
  BY <1>1, OtherCommandsKeepApplies
<1>2. ASSUME NEW p \in Shell, runPlan(p) PROVE AppliesInv'
  BY <1>2, RunPlanKeepsApplies
<1>3. ASSUME NEW p \in Shell, execute(p) PROVE AppliesInv'
  BY <1>3, ExecuteKeepsApplies
<1>4. CASE UNCHANGED vars
  BY <1>4 DEF vars, target, AppliesInv, OneServicer
<1> QED
  BY <1>1, <1>2, <1>3, <1>4 DEF Next

\* An image is changed only by the apply that mounted it, and an apply runs what was
\* confirmed, in order and nothing after a failure (runPlanCommand).
THEOREM AppliesHold ==
  ASSUME Nobody \notin Shell
  PROVE  Spec => []AppliesAreSafe
<1>1. AppliesInv => AppliesAreSafe
  <2> SUFFICES ASSUME AppliesInv, NEW p \in Shell PROVE
        LET r == call[p] IN
        /\ r.executed # <<>> => "paths" \in r.project /\ "dryRun" \notin r.project
        /\ \A i \in DOMAIN r.executed :
             /\ r.executed[i] = r.plan[i]
             /\ r.executed[i] \in {"disable", "commit"} => r.command.yes
             /\ i > 1 => i - 1 \in r.completed
    BY DEF AppliesAreSafe, AppliesInv, RanAsConfirmed
  <2> DEFINE r == call[p]
  <2>1. AppliesAs(p, r, mountedBy)
    BY DEF AppliesInv
  <2> HIDE DEF r
  <2>2. ASSUME NEW i \in DOMAIN r.executed, r.executed[i] \in {"disable", "commit"} PROVE r.command.yes
    <3>1. /\ r.executed # <<>> /\ r.executed[i] = r.plan[i] /\ i \in DOMAIN r.plan
          /\ confirmed(r.command, r.plan) /\ r.plan \in Seq(Programs)
      BY <2>1, <2>2 DEF AppliesAs
    <3> QED
      BY <2>2, <3>1, ConfirmedPlans DEF destructive
  <2>3. /\ r.executed # <<>> => "paths" \in r.project /\ "dryRun" \notin r.project
        /\ \A i \in DOMAIN r.executed : r.executed[i] = r.plan[i] /\ (i > 1 => i - 1 \in r.completed)
    BY <2>1 DEF AppliesAs
  <2> QED
    BY <2>2, <2>3 DEF r
<1>2. Init => AppliesInv
  BY InitApplies
<1>3. AppliesInv /\ [Next]_vars => AppliesInv'
  BY StepApplies
<1> QED
  BY <1>1, <1>2, <1>3, PTL DEF Spec

-----------------------------------------------------------------------------
(* The folder and its history. *)

Valid(d) == ~({"enable", "disable"} \subseteq d)

IsTree(t) == DOMAIN t = Path /\ t = [f \in Path |-> t[f]] /\ Valid(t.project.doc)

IsHistory(h) ==
  /\ h \in Seq({h[i] : i \in DOMAIN h}) /\ Len(h) >= 2
  /\ \A i \in DOMAIN h : IsTree(h[i].tree)

(* The record of a process, with n saves written and the stamp `top` in the index. *)
SavesAs(r, n, top, dirty) ==
  /\ isCall(r) /\ r.stamp \in Nat /\ r.stamp <= n
  /\ r.pc = "write" => Valid(r.project)
  /\ r.pc = "commit" /\ ~dirty => r.stamp <= top

Folder ==
  /\ IsTree(work) /\ IsTree(index) /\ IsHistory(commits)
  /\ writes \in Nat /\ reverted \in BOOLEAN
  /\ ~reverted => /\ work.project.stamp = writes
                  /\ index.project.stamp \in Nat /\ index.project.stamp <= writes

Calls ==
  /\ call = [p \in Shell |-> call[p]]
  /\ \A p \in Shell : SavesAs(call[p], writes, index.project.stamp, reverted)

KeptInv == Folder /\ Calls /\ AcknowledgedIsCommitted

LEMMA GrownHistory ==
  ASSUME NEW h, IsHistory(h), NEW e, IsTree(e.tree)
  PROVE  /\ IsHistory(Append(h, e)) /\ DOMAIN h \subseteq DOMAIN Append(h, e)
         /\ \A i \in DOMAIN h : Append(h, e)[i] = h[i]
         /\ Len(h) + 1 \in DOMAIN Append(h, e) /\ Append(h, e)[Len(h) + 1] = e
<1> DEFINE S == {h[i] : i \in DOMAIN h} \union {e}
           g == Append(h, e)
<1>1. h \in Seq(S) /\ e \in S /\ Len(h) \in Nat /\ DOMAIN h = 1 .. Len(h)
  <2>1. h \in Seq({h[i] : i \in DOMAIN h})
    BY DEF IsHistory
  <2> QED
    BY <2>1
<1>2. /\ g \in Seq(S) /\ Len(g) = Len(h) + 1 /\ DOMAIN g = 1 .. Len(h) + 1
      /\ \A i \in 1 .. Len(h) : g[i] = h[i]
      /\ g[Len(h) + 1] = e
  <2> HIDE DEF S
  <2> QED
    BY <1>1
<1> HIDE DEF g, S
<1>3. g \in Seq({g[i] : i \in DOMAIN g})
  <2>1. g = [i \in 1 .. Len(g) |-> g[i]] /\ Len(g) \in Nat
    BY <1>1, <1>2
  <2> QED
    BY <1>1, <1>2, <2>1
<1>4. Len(g) >= 2 /\ \A i \in DOMAIN g : IsTree(g[i].tree)
  BY <1>1, <1>2 DEF IsHistory
<1>5. IsHistory(g)
  BY <1>3, <1>4 DEF IsHistory
<1> QED
  BY <1>1, <1>2, <1>5 DEF g

\* HEAD and its parent are trees of the history.
LEMMA HeadIsTree == IsHistory(commits) => IsTree(HEAD) /\ IsTree(HEADparent)
<1> SUFFICES ASSUME IsHistory(commits) PROVE IsTree(HEAD) /\ IsTree(HEADparent)
  OBVIOUS
<1>1. Len(commits) \in DOMAIN commits /\ Len(commits) - 1 \in DOMAIN commits
  BY DEF IsHistory
<1> QED
  BY <1>1 DEF IsHistory, HEAD, HEADparent

LEMMA InitKept == Init => KeptInv
<1> SUFFICES ASSUME Init PROVE KeptInv
  OBVIOUS
<1>1. IsTree(work) /\ work.project.stamp = 0
  BY DEF Init, IsTree, Path, Valid
<1>2. IsHistory(commits)
  <2>1. IsTree([work EXCEPT !.project.doc = {"paths"}])
    BY DEF Init, IsTree, Path, Valid
  <2> DEFINE a == [tree |-> [work EXCEPT !.project.doc = {"paths"}], event |-> NoEvent]
             b == [tree |-> work, event |-> NoEvent]
  <2>2. commits = <<a, b>> /\ IsTree(a.tree) /\ IsTree(b.tree)
    BY <1>1, <2>1 DEF Init
  <2> HIDE DEF a, b
  <2>3. commits[1] = a /\ commits[2] = b /\ DOMAIN commits = 1 .. 2 /\ Len(commits) = 2
    BY <2>2
  <2>4. commits \in Seq({commits[i] : i \in DOMAIN commits})
    BY <2>2, <2>3
  <2> QED
    BY <2>2, <2>3, <2>4 DEF IsHistory
<1>3. Folder
  <2>1. index = work /\ writes = 0 /\ reverted = FALSE
    BY DEF Init
  <2>2. IsTree(index) /\ index.project.stamp = 0 /\ work.project.stamp = 0
    BY <1>1, <2>1
  <2>3. writes \in Nat /\ index.project.stamp \in Nat /\ index.project.stamp <= writes
    BY <2>1, <2>2
  <2>4. reverted \in BOOLEAN
    BY <2>1
  <2> QED
    BY <1>1, <1>2, <2>1, <2>2, <2>3, <2>4 DEF Folder
<1>4. Calls
  <2> DEFINE r == started([verb |-> "none"], "idle")
  <2>1. isCall(r) /\ r.stamp = 0 /\ r.pc = "idle"
    BY DEF started, isCall, Fields
  <2>2. call = [p \in Shell |-> r]
    BY DEF Init
  <2> HIDE DEF r
  <2> QED
    BY <2>1, <2>2 DEF Init, Calls, SavesAs
<1>5. AcknowledgedIsCommitted
  BY DEF Init, AcknowledgedIsCommitted
<1> QED
  BY <1>3, <1>4, <1>5 DEF KeptInv

\* A process moves on and the stamps do not fall.
LEMMA CallsMove ==
  ASSUME Folder, Calls, NEW p \in Shell, NEW r, goOn(p, r),
         SavesAs(r, writes', index'.project.stamp, reverted'),
         writes' \in Nat, writes <= writes', reverted => reverted', reverted' \in BOOLEAN,
         ~reverted' => /\ index'.project.stamp \in Nat
                       /\ index.project.stamp <= index'.project.stamp
  PROVE  Calls'
<1>1. call' = [q \in Shell |-> IF q = p THEN r ELSE call[q]]
  BY DEF Calls, goOn
<1>2. ASSUME NEW q \in Shell PROVE SavesAs(call'[q], writes', index'.project.stamp, reverted')
  <2>1. CASE q = p
    BY <1>1, <2>1
  <2>2. CASE q # p
    <3>1. call'[q] = call[q] /\ SavesAs(call[q], writes, index.project.stamp, reverted)
      BY <1>1, <2>2 DEF Calls
    <3>2. ~reverted' => ~reverted /\ index.project.stamp \in Nat
      BY DEF Folder
    <3> HIDE DEF Calls
    <3> QED
      BY <3>1, <3>2 DEF SavesAs, Folder
  <2> QED
    BY <2>1, <2>2
<1>3. call' = [q \in Shell |-> call'[q]]
  BY <1>1
<1> QED
  BY <1>2, <1>3 DEF Calls

\* A process ends or goes to a step other than writing or committing.
LEMMA CallsEnd ==
  ASSUME Folder, Calls, NEW p \in Shell, NEW pc, NEW code, pc \notin {"write", "commit"},
         exit(p, code) \/ to(p, pc),
         writes' \in Nat, writes <= writes', reverted => reverted', reverted' \in BOOLEAN,
         ~reverted' => /\ index'.project.stamp \in Nat
                       /\ index.project.stamp <= index'.project.stamp
  PROVE  Calls'
<1> DEFINE a == [call[p] EXCEPT !.pc = "idle", !.code = code]
           b == [call[p] EXCEPT !.pc = pc]
<1>1. isCall(call[p]) /\ call[p].stamp \in Nat /\ call[p].stamp <= writes
  BY DEF Calls, SavesAs
<1>2. /\ isCall(a) /\ a.stamp = call[p].stamp /\ a.pc = "idle"
      /\ isCall(b) /\ b.stamp = call[p].stamp /\ b.pc = pc
  BY <1>1 DEF isCall, Fields
<1>3. goOn(p, a) \/ goOn(p, b)
  BY DEF exit, to
<1>4. call[p].stamp <= writes' /\ writes \in Nat
  BY <1>1 DEF Folder
<1> HIDE DEF a, b
<1>5. SavesAs(a, writes', index'.project.stamp, reverted')
  BY <1>1, <1>2, <1>4 DEF SavesAs
<1>6. SavesAs(b, writes', index'.project.stamp, reverted')
  BY <1>1, <1>2, <1>4 DEF SavesAs
<1> QED
  BY <1>3, <1>5, <1>6, CallsMove

\* Commands that only look: the folder, and what is promised of it, stay.
LEMMA LookingKeeps ==
  ASSUME KeptInv, NEW p \in Shell, UNCHANGED <<folder, writes>>, NEW r, goOn(p, r), isCall(r),
         r.stamp \in Nat, r.stamp <= writes, r.pc = "write" => Valid(r.project), r.pc # "commit"
  PROVE  KeptInv'
<1>1. Folder' /\ AcknowledgedIsCommitted'
  BY DEF KeptInv, Folder, AcknowledgedIsCommitted, folder, gitVars
<1>2. SavesAs(r, writes', index'.project.stamp, reverted')
  BY DEF SavesAs, folder, gitVars
<1>3. writes' \in Nat /\ writes <= writes' /\ reverted' = reverted /\ index' = index
  BY DEF KeptInv, Folder, folder, gitVars
<1>4. Calls'
  BY <1>2, <1>3, CallsMove DEF KeptInv, Folder
<1> QED
  BY <1>1, <1>4 DEF KeptInv

LEMMA EndingKeeps ==
  ASSUME KeptInv, NEW p \in Shell, UNCHANGED <<folder, writes>>, NEW pc, NEW code,
         pc \notin {"write", "commit"}, exit(p, code) \/ to(p, pc)
  PROVE  KeptInv'
<1>1. Folder' /\ AcknowledgedIsCommitted'
  BY DEF KeptInv, Folder, AcknowledgedIsCommitted, folder, gitVars
<1>2. writes' \in Nat /\ writes <= writes' /\ reverted' = reverted /\ index' = index
  BY DEF KeptInv, Folder, folder, gitVars
<1>3. Calls'
  BY <1>2, CallsEnd DEF KeptInv, Folder
<1> QED
  BY <1>1, <1>3 DEF KeptInv

LEMMA ExitKeeps ==
  ASSUME KeptInv, NEW p \in Shell, UNCHANGED <<folder, writes>>, NEW code, exit(p, code)
  PROVE  KeptInv'
<1>1. "idle" \notin {"write", "commit"}
  OBVIOUS
<1> QED
  BY <1>1, EndingKeeps

LEMMA ReadersKeep ==
  ASSUME KeptInv, NEW p \in Shell,
         \/ run(p) \/ loadProject(p) \/ historyLatest(p) \/ runPlan(p) \/ execute(p) \/ finish(p)
         \/ kill(p)
  PROVE  KeptInv'
<1>0. UNCHANGED <<folder, writes>>
  BY DEF run, loadProject, historyLatest, runPlan, execute, finish, kill
<1>a. isCall(call[p]) /\ call[p].stamp \in Nat /\ call[p].stamp <= writes
  BY DEF KeptInv, Calls, SavesAs
<1>1. CASE run(p)
  <2>1. PICK c \in Command : goOn(p, started(c, firstStep(c.verb)))
    BY <1>1 DEF run
  <2> DEFINE r == started(c, firstStep(c.verb))
  <2>2. isCall(r) /\ r.stamp = 0 /\ r.pc = firstStep(c.verb)
    BY DEF started, isCall, Fields
  <2>3. firstStep(c.verb) \notin {"write", "commit"} /\ 0 <= writes
    BY DEF firstStep, KeptInv, Folder
  <2> HIDE DEF r
  <2>4. goOn(p, r)
    BY <2>1 DEF r
  <2> QED
    BY <1>0, <2>2, <2>3, <2>4, LookingKeeps
<1>2. CASE loadProject(p)
  <2>1. CASE \E code : exit(p, code)
    BY <1>0, <2>1, ExitKeeps
  <2>2. ASSUME NEW d, Valid(d), goOn(p, [call[p] EXCEPT !.pc = "write", !.project = d])
        PROVE  KeptInv'
    <3> DEFINE r == [call[p] EXCEPT !.pc = "write", !.project = d]
    <3>1. isCall(r) /\ r.stamp = call[p].stamp /\ r.pc = "write" /\ r.project = d
      BY <1>a DEF isCall, Fields
    <3> HIDE DEF r
    <3>2. goOn(p, r)
      BY <2>2 DEF r
    <3> QED
      BY <1>0, <1>a, <2>2, <3>1, <3>2, LookingKeeps
  <2> QED
    BY <1>2, <2>1, <2>2 DEF loadProject, validate, Valid
<1>3. CASE historyLatest(p)
  BY <1>0, <1>3, EndingKeeps DEF historyLatest
<1>4. CASE runPlan(p)
  <2>1. CASE \E code : exit(p, code)
    BY <1>0, <2>1, ExitKeeps
  <2>2. ASSUME NEW d, NEW plan,
               goOn(p, [call[p] EXCEPT !.pc = "execute", !.project = d, !.plan = plan])
        PROVE  KeptInv'
    <3> DEFINE r == [call[p] EXCEPT !.pc = "execute", !.project = d, !.plan = plan]
    <3>1. isCall(r) /\ r.stamp = call[p].stamp /\ r.pc = "execute"
      BY <1>a DEF isCall, Fields
    <3> HIDE DEF r
    <3>2. goOn(p, r)
      BY <2>2 DEF r
    <3> QED
      BY <1>0, <1>a, <3>1, <3>2, LookingKeeps
  <2> QED
    BY <1>4, <2>1, <2>2 DEF runPlan
<1>5. CASE execute(p)
  <2> DEFINE i == Len(call[p].executed) + 1
             ran == [call[p] EXCEPT !.executed = Append(@, call[p].plan[i])]
             stop == [ran EXCEPT !.pc = "idle", !.code = "ExternalProcessFailed"]
             on   == [ran EXCEPT !.completed = @ \union {i}]
  <2>1. CASE \E code : exit(p, code)
    BY <1>0, <2>1, ExitKeeps
  <2>2. /\ isCall(stop) /\ stop.stamp = call[p].stamp /\ stop.pc = "idle"
        /\ isCall(on) /\ on.stamp = call[p].stamp /\ on.pc = call[p].pc
    BY <1>a DEF isCall, Fields
  <2>3. call[p].pc = "execute"
    BY <1>5 DEF execute
  <2>4. CASE goOn(p, stop)
    <3> HIDE DEF stop, on
    <3> QED
      BY <1>0, <1>a, <2>2, <2>4, LookingKeeps
  <2>5. CASE goOn(p, on)
    <3> HIDE DEF stop, on
    <3> QED
      BY <1>0, <1>a, <2>2, <2>3, <2>5, LookingKeeps
  <2> QED
    BY <1>5, <2>1, <2>4, <2>5 DEF execute, stopsAt
<1>6. CASE finish(p)
  BY <1>0, <1>6, EndingKeeps DEF finish
<1>7. CASE kill(p)
  BY <1>0, <1>7, EndingKeeps DEF kill
<1> QED
  BY <1>1, <1>2, <1>3, <1>4, <1>5, <1>6, <1>7

LEMMA WriteKeeps ==
  ASSUME KeptInv, NEW p \in Shell, write(p)
  PROVE  KeptInv'
<1>1. CASE exit(p, "IoError") /\ UNCHANGED <<folder, writes>>
  BY <1>1, EndingKeeps
<1>2. CASE /\ work' = [work EXCEPT !.project = [doc |-> call[p].project, stamp |-> writes + 1]]
           /\ goOn(p, [call[p] EXCEPT !.pc = "stage", !.stamp = writes + 1])
           /\ writes' = writes + 1 /\ UNCHANGED <<index, commits, acknowledged, reverted>>
  <2> DEFINE r == [call[p] EXCEPT !.pc = "stage", !.stamp = writes + 1]
  <2>1. isCall(call[p]) /\ Valid(call[p].project)
    BY DEF write, KeptInv, Calls, SavesAs
  <2>2. isCall(r) /\ r.stamp = writes + 1 /\ r.pc = "stage"
    BY <2>1 DEF isCall, Fields
  <2>3. IsTree(work') /\ work'.project.stamp = writes + 1
    BY <1>2, <2>1 DEF KeptInv, Folder, IsTree, Path
  <2>4. Folder'
    BY <1>2, <2>3 DEF KeptInv, Folder
  <2> HIDE DEF r
  <2>5. SavesAs(r, writes', index'.project.stamp, reverted')
    BY <1>2, <2>2 DEF SavesAs, KeptInv, Folder
  <2>6. goOn(p, r)
    BY <1>2 DEF r
  <2>7. Calls'
    BY <1>2, <2>5, <2>6, CallsMove DEF KeptInv, Folder
  <2>8. AcknowledgedIsCommitted'
    BY <1>2 DEF KeptInv, AcknowledgedIsCommitted
  <2> QED
    BY <2>4, <2>7, <2>8 DEF KeptInv
<1> QED
  BY <1>1, <1>2 DEF write, folder, gitVars

LEMMA CommitKeeps ==
  ASSUME KeptInv, NEW p \in Shell, commit(p)
  PROVE  KeptInv'
<1>a. isCall(call[p]) /\ call[p].stamp \in Nat /\ call[p].stamp <= writes
  BY DEF KeptInv, Calls, SavesAs
<1>0. UNCHANGED <<reverted, writes>>
  BY DEF commit
<1>1. CASE exit(p, "IoError") /\ UNCHANGED <<gitVars, acknowledged>>
  BY <1>0, <1>1, EndingKeeps DEF folder
<1>2. CASE call[p].pc = "stage" /\ stage({"project"}) /\ to(p, "commit") /\ UNCHANGED acknowledged
  <2> DEFINE r == [call[p] EXCEPT !.pc = "commit"]
  <2>1. isCall(r) /\ r.stamp = call[p].stamp /\ r.pc = "commit"
    BY <1>a DEF isCall, Fields
  <2>2. IsTree(index') /\ index'.project = work.project /\ UNCHANGED <<work, commits>>
    BY <1>2 DEF stage, staged, KeptInv, Folder, IsTree, Path
  <2>3. Folder'
    BY <1>0, <2>2 DEF KeptInv, Folder
  <2> HIDE DEF r
  <2>4. SavesAs(r, writes', index'.project.stamp, reverted')
    BY <1>a, <1>0, <2>1, <2>2 DEF SavesAs, KeptInv, Folder
  <2>5. goOn(p, r)
    BY <1>2 DEF r, to
  <2>6. Calls'
    BY <1>0, <2>2, <2>4, <2>5, CallsMove DEF KeptInv, Folder
  <2>7. AcknowledgedIsCommitted'
    BY <1>0, <1>2, <2>2 DEF KeptInv, AcknowledgedIsCommitted
  <2> QED
    BY <2>3, <2>6, <2>7 DEF KeptInv
<1>3. CASE /\ call[p].pc = "commit" /\ commitIndex(NoEvent) /\ \E code : exit(p, code)
           /\ acknowledged' \in {acknowledged, acknowledged \union {call[p].stamp}}
  <2> DEFINE e == [tree |-> index, event |-> NoEvent]
  <2>1. commits' = Append(commits, e) /\ e.tree = index /\ UNCHANGED <<work, index>>
    BY <1>3 DEF commitIndex
  <2> HIDE DEF e
  <2>2. /\ IsHistory(commits') /\ DOMAIN commits \subseteq DOMAIN commits'
        /\ \A i \in DOMAIN commits : commits'[i] = commits[i]
        /\ Len(commits) + 1 \in DOMAIN commits' /\ commits'[Len(commits) + 1] = e
    BY <2>1, GrownHistory DEF KeptInv, Folder
  <2>3. Folder'
    BY <1>0, <2>1, <2>2 DEF KeptInv, Folder
  <2>4. Calls'
    <3>1. "idle" \notin {"write", "commit"} /\ \E code : exit(p, code)
      BY <1>3
    <3>2. /\ writes' \in Nat /\ writes <= writes' /\ reverted' = reverted /\ reverted' \in BOOLEAN
          /\ ~reverted' => /\ index'.project.stamp \in Nat
                           /\ index.project.stamp <= index'.project.stamp
      BY <1>0, <2>1 DEF KeptInv, Folder
    <3>3. Folder /\ Calls
      BY DEF KeptInv
    <3> QED
      BY <3>1, <3>2, <3>3, CallsEnd
  <2>5. ~reverted => index.project.stamp >= call[p].stamp
    BY <1>3, <1>a DEF KeptInv, Folder, Calls, SavesAs
  <2>6. AcknowledgedIsCommitted'
    <3> SUFFICES ASSUME ~reverted, NEW s \in acknowledged \union {call[p].stamp}
                 PROVE  \E i \in DOMAIN commits' : commits'[i].tree.project.stamp >= s
      BY <1>0, <1>3 DEF AcknowledgedIsCommitted
    <3>1. CASE s \in acknowledged
      BY <2>2, <3>1 DEF KeptInv, AcknowledgedIsCommitted
    <3>2. CASE s = call[p].stamp
      BY <2>1, <2>2, <2>5, <3>2
    <3> QED
      BY <3>1, <3>2
  <2> QED
    BY <2>3, <2>4, <2>6 DEF KeptInv
<1>4. \/ exit(p, "IoError") /\ UNCHANGED <<gitVars, acknowledged>>
      \/ call[p].pc = "stage" /\ stage({"project"}) /\ to(p, "commit") /\ UNCHANGED acknowledged
      \/ /\ call[p].pc = "commit" /\ commitIndex(NoEvent)
         /\ exit(p, "Success") \/ exit(p, "IoError")
         /\ acknowledged' \in {acknowledged, acknowledged \union {call[p].stamp}}
  BY Zenon DEF commit
<1> QED
  BY <1>1, <1>2, <1>3, <1>4

LEMMA ToggleKeeps ==
  ASSUME KeptInv, NEW p \in Shell, toggle(p)
  PROVE  KeptInv'
<1>a. isCall(call[p]) /\ call[p].stamp \in Nat /\ call[p].stamp <= writes
  BY DEF KeptInv, Calls, SavesAs
<1>0. UNCHANGED <<acknowledged, reverted, writes>>
  BY DEF toggle
<1>1. CASE exit(p, "Conflict") /\ UNCHANGED gitVars
  BY <1>0, <1>1, EndingKeeps DEF folder
<1>2. ASSUME NEW grown, NEW carried \in {{"paths"}, {"paths", "enable"}}, NEW n,
             work' = [work EXCEPT !.journal = grown], index' = [index EXCEPT !.journal = grown],
             commits' = Append(commits, [tree |-> index', event |-> n]),
             goOn(p, [call[p] EXCEPT !.pc = "write", !.project = carried])
      PROVE  KeptInv'
  <2> DEFINE e == [tree |-> index', event |-> n]
             r == [call[p] EXCEPT !.pc = "write", !.project = carried]
  <2>1. /\ IsTree(work') /\ work'.project = work.project
        /\ IsTree(index') /\ index'.project = index.project
    BY <1>2 DEF KeptInv, Folder, IsTree, Path
  <2>2. commits' = Append(commits, e) /\ IsTree(e.tree)
    BY <1>2, <2>1
  <2>3. isCall(r) /\ r.stamp = call[p].stamp /\ r.pc = "write" /\ r.project = carried
    BY <1>a DEF isCall, Fields
  <2> HIDE DEF e, r
  <2>4. /\ IsHistory(commits') /\ DOMAIN commits \subseteq DOMAIN commits'
        /\ \A i \in DOMAIN commits : commits'[i] = commits[i]
    BY <2>2, GrownHistory DEF KeptInv, Folder
  <2>5. Folder'
    BY <1>0, <2>1, <2>4 DEF KeptInv, Folder
  <2>6. SavesAs(r, writes', index'.project.stamp, reverted')
    BY <1>a, <1>0, <2>3 DEF SavesAs, Valid
  <2>7. goOn(p, r)
    BY <1>2 DEF r
  <2>8. Calls'
    BY <1>0, <2>1, <2>6, <2>7, CallsMove DEF KeptInv, Folder
  <2>9. AcknowledgedIsCommitted'
    BY <1>0, <2>4 DEF KeptInv, AcknowledgedIsCommitted
  <2> QED
    BY <2>5, <2>8, <2>9 DEF KeptInv
<1> QED
  BY <1>1, <1>2 DEF toggle

\* A history command marks the folder, and puts back only what the history holds.
LEMMA RevertKeeps ==
  ASSUME KeptInv, NEW p \in Shell, revertLatest(p)
  PROVE  KeptInv'
<1>0. reverted' = TRUE /\ UNCHANGED <<acknowledged, writes>>
  BY DEF revertLatest
<1>1. AcknowledgedIsCommitted'
  BY <1>0 DEF AcknowledgedIsCommitted
<1>2. Calls'
  <2>1. \E pc, code : pc \notin {"write", "commit"} /\ (exit(p, code) \/ to(p, pc))
    BY DEF revertLatest
  <2> QED
    BY <1>0, <2>1, CallsEnd DEF KeptInv, Folder
<1>3. IsTree(HEAD) /\ IsTree(HEADparent) /\ IsTree(work) /\ IsTree(index) /\ IsHistory(commits)
  BY HeadIsTree DEF KeptInv, Folder
<1>4. IsTree(work') /\ IsTree(index') /\ IsHistory(commits')
  <2>1. CASE UNCHANGED gitVars
    BY <1>3, <2>1 DEF gitVars
  <2>2. CASE revertNoCommit
    BY <1>3, <2>2 DEF revertNoCommit, IsTree, Path
  <2>3. CASE revertAbort
    BY <1>3, <2>3 DEF revertAbort, IsTree, Path
  <2>4. CASE commitIndex(Revert)
    <3> DEFINE e == [tree |-> index, event |-> Revert]
    <3>1. commits' = Append(commits, e) /\ IsTree(e.tree) /\ UNCHANGED <<work, index>>
      BY <1>3, <2>4 DEF commitIndex
    <3> HIDE DEF e
    <3> QED
      BY <1>3, <3>1, GrownHistory
  <2> QED
    BY <2>1, <2>2, <2>3, <2>4 DEF revertLatest
<1>5. Folder'
  BY <1>0, <1>4 DEF KeptInv, Folder
<1> QED
  BY <1>1, <1>2, <1>5 DEF KeptInv

LEMMA StepKept == KeptInv /\ [Next]_vars => KeptInv'
<1> SUFFICES ASSUME KeptInv, [Next]_vars PROVE KeptInv'
  OBVIOUS
<1>1. ASSUME NEW p \in Shell,
             \/ run(p) \/ loadProject(p) \/ historyLatest(p) \/ runPlan(p) \/ execute(p) \/ finish(p)
             \/ kill(p)
      PROVE  KeptInv'
  BY <1>1, ReadersKeep
<1>2. ASSUME NEW p \in Shell, write(p) PROVE KeptInv'
  BY <1>2, WriteKeeps
<1>3. ASSUME NEW p \in Shell, commit(p) PROVE KeptInv'
  BY <1>3, CommitKeeps
<1>4. ASSUME NEW p \in Shell, toggle(p) PROVE KeptInv'
  BY <1>4, ToggleKeeps
<1>5. ASSUME NEW p \in Shell, revertLatest(p) PROVE KeptInv'
  BY <1>5, RevertKeeps
<1>6. CASE UNCHANGED vars
  BY <1>6 DEF vars, folder, gitVars, KeptInv, Folder, Calls, AcknowledgedIsCommitted
<1> QED
  BY <1>1, <1>2, <1>3, <1>4, <1>5, <1>6 DEF Next

\* Whatever commands interleave, fail or are killed: every project on disk and in the
\* history can be loaded again, and what was reported as saved is in the history.
THEOREM ProjectsAreKept == Spec => []ProjectIsKept
<1>1. KeptInv => ProjectIsKept
  BY DEF KeptInv, Folder, IsTree, IsHistory, Valid, ProjectIsKept, NoInvalidProject
<1>2. Init => KeptInv
  BY InitKept
<1>3. KeptInv /\ [Next]_vars => KeptInv'
  BY StepKept
<1> QED
  BY <1>1, <1>2, <1>3, PTL DEF Spec

-----------------------------------------------------------------------------
(* The history of a folder that only one command at a time has been at. *)

IsSeq(s) == s \in Seq({s[i] : i \in DOMAIN s})

\* What the process at a step of a save or of a revert has made sure of.
Sure(pc, there, staging, head, parent) ==
  /\ pc = "commit" => staging.project = there.project
  /\ pc = "revert" => /\ there.project = staging.project /\ staging.project = head.project
                      /\ head.journal = parent.journal
  /\ pc = "commitRevert" => staging.project = parent.project /\ there.project = parent.project

\* Nobody else is under way, and the journal is committed whenever it is changed.
Alone ==
  ~overlapped =>
    /\ \A p, q \in Shell : busy(p) /\ busy(q) => p = q
    /\ index.journal = HEAD.journal /\ IsSeq(work.journal)
    /\ \A p \in Shell : Sure(call[p].pc, work, index, HEAD, HEADparent)

AloneInv == KeptInv /\ Alone

LEMMA GrownSeq ==
  ASSUME NEW s, IsSeq(s), NEW x
  PROVE  IsSeq(Append(s, x)) /\ Len(Append(s, x)) = Len(s) + 1 /\ Len(s) \in Nat
<1> DEFINE S == {s[i] : i \in DOMAIN s} \union {x}
           g == Append(s, x)
<1>1. s \in Seq(S) /\ x \in S /\ Len(s) \in Nat /\ DOMAIN s = 1 .. Len(s)
  <2>1. s \in Seq({s[i] : i \in DOMAIN s})
    BY DEF IsSeq
  <2> QED
    BY <2>1
<1>2. /\ g \in Seq(S) /\ Len(g) = Len(s) + 1 /\ DOMAIN g = 1 .. Len(g)
  <2> HIDE DEF S
  <2> QED
    BY <1>1
<1> HIDE DEF g, S
<1>3. g = [i \in 1 .. Len(g) |-> g[i]] /\ Len(g) \in Nat
  BY <1>1, <1>2
<1>4. g \in Seq({g[i] : i \in DOMAIN g})
  BY <1>2, <1>3
<1> QED
  BY <1>1, <1>2, <1>4 DEF IsSeq, g

\* The two newest commits after one more.
LEMMA NewHead ==
  ASSUME Folder, NEW e, commits' = Append(commits, e)
  PROVE  /\ Len(commits') = Len(commits) + 1 /\ Len(commits) \in Nat /\ commits'[Len(commits')] = e
         /\ commits'[Len(commits') - 1] = commits[Len(commits)]
         /\ commits'[Len(commits') - 2] = commits[Len(commits) - 1]
         /\ HEAD' = e.tree /\ HEADparent' = HEAD
<1>1. IsSeq(commits) /\ Len(commits) >= 2
  BY DEF Folder, IsHistory, IsSeq
<1>2. Len(commits') = Len(commits) + 1 /\ Len(commits) \in Nat
  BY <1>1, GrownSeq
<1>3. /\ \A i \in 1 .. Len(commits) : commits'[i] = commits[i]
      /\ commits'[Len(commits) + 1] = e
  <2>1. commits \in Seq({commits[i] : i \in DOMAIN commits} \union {e})
    BY <1>1 DEF IsSeq
  <2> DEFINE S == {commits[i] : i \in DOMAIN commits} \union {e}
  <2>2. e \in S
    OBVIOUS
  <2> HIDE DEF S
  <2> QED
    BY <2>1, <2>2, AppendProperties DEF S
<1>4. Len(commits) - 1 \in 1 .. Len(commits) /\ Len(commits) \in 1 .. Len(commits)
  BY <1>1, <1>2
<1>5. Len(commits') - 1 = Len(commits) /\ Len(commits') - 2 = Len(commits) - 1
  BY <1>2
<1> QED
  BY <1>2, <1>3, <1>4, <1>5 DEF HEAD, HEADparent

LEMMA AloneBegins == Init => AloneInv
<1> SUFFICES ASSUME Init PROVE Alone
  BY InitKept DEF AloneInv
<1>1. \A p \in Shell : call[p].pc = "idle"
  BY DEF Init, started
<1>2. work.journal = <<"edit">> /\ index = work
  BY DEF Init
<1>3. IsSeq(work.journal)
  <2>1. <<"edit">> \in Seq({"edit"}) /\ DOMAIN <<"edit">> = {1} /\ <<"edit">>[1] = "edit"
    OBVIOUS
  <2>2. {<<"edit">>[i] : i \in DOMAIN <<"edit">>} = {"edit"}
    BY <2>1
  <2> QED
    BY <1>2, <2>1, <2>2 DEF IsSeq
<1>4. HEAD = work
  <2> DEFINE a == [tree |-> [work EXCEPT !.project.doc = {"paths"}], event |-> NoEvent]
             b == [tree |-> work, event |-> NoEvent]
  <2>1. commits = <<a, b>> /\ b.tree = work
    BY DEF Init
  <2> HIDE DEF a, b
  <2>2. Len(commits) = 2 /\ commits[2] = b
    BY <2>1
  <2> QED
    BY <2>1, <2>2 DEF HEAD
<1> QED
  BY <1>1, <1>2, <1>3, <1>4 DEF Alone, busy, Sure

\* The one command that is under way moves.
LEMMA OneMoves ==
  ASSUME KeptInv, Alone, NEW p \in Shell, busy(p), UNCHANGED overlapped, NEW r, goOn(p, r),
         ~overlapped => Sure(r.pc, work', index', HEAD', HEADparent') /\ index'.journal = HEAD'.journal /\ IsSeq(work'.journal)
  PROVE  Alone'
<1> SUFFICES ASSUME ~overlapped
             PROVE  /\ \A q, t \in Shell : busy(q)' /\ busy(t)' => q = t
                    /\ index'.journal = HEAD'.journal /\ IsSeq(work'.journal)
                    /\ \A q \in Shell : Sure(call'[q].pc, work', index', HEAD', HEADparent')
  BY DEF Alone, IsSeq
<1>1. call' = [q \in Shell |-> IF q = p THEN r ELSE call[q]]
  BY DEF KeptInv, Calls, goOn
<1>2. \A q \in Shell \ {p} : call[q].pc = "idle"
  BY DEF Alone, busy
<1>3. \A q \in Shell \ {p} : call'[q].pc = "idle"
  BY <1>1, <1>2
<1>4. call'[p] = r
  BY <1>1
<1>5. ASSUME NEW q \in Shell PROVE Sure(call'[q].pc, work', index', HEAD', HEADparent')
  <2>1. CASE q = p
    BY <1>4, <2>1 DEF Sure
  <2>2. CASE q # p
    BY <1>3, <2>2 DEF Sure
  <2> QED
    BY <2>1, <2>2
<1> QED
  BY <1>3, <1>5 DEF busy

\* A move that leaves the folder alone and leads to a step that needs nothing.
LEMMA OneLooks ==
  ASSUME KeptInv, Alone, NEW p \in Shell, busy(p), UNCHANGED <<overlapped, work, index, commits>>,
         NEW r, goOn(p, r), r.pc \notin {"commit", "revert", "commitRevert"}
  PROVE  Alone'
<1>1. HEAD' = HEAD /\ HEADparent' = HEADparent
  BY DEF HEAD, HEADparent
<1>2. ~overlapped => index'.journal = HEAD'.journal /\ IsSeq(work'.journal)
  BY <1>1 DEF Alone
<1>3. Sure(r.pc, work', index', HEAD', HEADparent')
  BY DEF Sure
<1> QED
  BY <1>2, <1>3, OneMoves

LEMMA OneEnds ==
  ASSUME KeptInv, Alone, NEW p \in Shell, busy(p), UNCHANGED <<overlapped, work, index, commits>>,
         NEW pc, NEW code, pc \notin {"commit", "revert", "commitRevert"}, exit(p, code) \/ to(p, pc)
  PROVE  Alone'
<1> DEFINE a == [call[p] EXCEPT !.pc = "idle", !.code = code]
           b == [call[p] EXCEPT !.pc = pc]
<1>1. isCall(call[p])
  BY DEF KeptInv, Calls, SavesAs
<1>2. a.pc = "idle" /\ b.pc = pc
  BY <1>1 DEF isCall, Fields
<1>3. goOn(p, a) \/ goOn(p, b)
  BY DEF exit, to
<1> HIDE DEF a, b
<1> QED
  BY <1>2, <1>3, OneLooks

\* The end of a command that changed the folder, with the journal still committed.
LEMMA OneEndsWith ==
  ASSUME KeptInv, Alone, NEW p \in Shell, busy(p), UNCHANGED overlapped, NEW code, exit(p, code),
         ~overlapped => index'.journal = HEAD'.journal /\ IsSeq(work'.journal)
  PROVE  Alone'
<1> DEFINE a == [call[p] EXCEPT !.pc = "idle", !.code = code]
<1>1. isCall(call[p])
  BY DEF KeptInv, Calls, SavesAs
<1>2. a.pc = "idle" /\ goOn(p, a)
  BY <1>1 DEF isCall, Fields, exit
<1> HIDE DEF a
<1>3. Sure(a.pc, work', index', HEAD', HEADparent')
  BY <1>2 DEF Sure
<1> QED
  BY <1>2, <1>3, OneMoves

LEMMA RunAlone ==
  ASSUME KeptInv, Alone, NEW p \in Shell, run(p)
  PROVE  Alone'
<1>1. PICK c \in Command : goOn(p, started(c, firstStep(c.verb)))
  BY DEF run
<1> DEFINE r == started(c, firstStep(c.verb))
<1>2. /\ UNCHANGED <<work, index, commits>> /\ overlapped' = (overlapped \/ \E q \in Shell : busy(q))
      /\ HEAD' = HEAD /\ HEADparent' = HEADparent
  BY DEF run, folder, gitVars, HEAD, HEADparent
<1>3. r.pc \notin {"commit", "revert", "commitRevert"}
  BY DEF started, firstStep
<1> HIDE DEF r
<1>4. call' = [q \in Shell |-> IF q = p THEN r ELSE call[q]]
  BY <1>1 DEF KeptInv, Calls, goOn, r
<1> SUFFICES ASSUME ~overlapped'
             PROVE  /\ \A q, t \in Shell : busy(q)' /\ busy(t)' => q = t
                    /\ index'.journal = HEAD'.journal /\ IsSeq(work'.journal)
                    /\ \A q \in Shell : Sure(call'[q].pc, work', index', HEAD', HEADparent')
  BY DEF Alone, IsSeq
<1>5. ~overlapped /\ \A q \in Shell : call[q].pc = "idle"
  BY <1>2 DEF busy
<1>6. \A q \in Shell \ {p} : call'[q].pc = "idle"
  BY <1>4, <1>5
<1>7. call'[p] = r
  BY <1>4
<1>8. index'.journal = HEAD'.journal /\ IsSeq(work'.journal)
  BY <1>2, <1>5 DEF Alone
<1>9. ASSUME NEW q \in Shell PROVE Sure(call'[q].pc, work', index', HEAD', HEADparent')
  BY <1>3, <1>6, <1>7 DEF Sure
<1> QED
  BY <1>6, <1>8, <1>9 DEF busy

LEMMA WriteAlone ==
  ASSUME KeptInv, Alone, NEW p \in Shell, write(p)
  PROVE  Alone'
<1>1. busy(p) /\ UNCHANGED overlapped
  BY DEF write, busy
<1>2. CASE \E code : exit(p, code) /\ UNCHANGED gitVars
  <2>1. "idle" \notin {"commit", "revert", "commitRevert"}
    OBVIOUS
  <2> QED
    BY <1>1, <1>2, <2>1, OneEnds DEF gitVars
<1>3. CASE /\ work' = [work EXCEPT !.project = [doc |-> call[p].project, stamp |-> writes + 1]]
           /\ goOn(p, [call[p] EXCEPT !.pc = "stage", !.stamp = writes + 1])
           /\ UNCHANGED <<index, commits>>
  <2> DEFINE r == [call[p] EXCEPT !.pc = "stage", !.stamp = writes + 1]
  <2>1. isCall(call[p])
    BY DEF KeptInv, Calls, SavesAs
  <2>2. r.pc = "stage"
    BY <2>1 DEF isCall, Fields
  <2> HIDE DEF r
  <2>3. work'.journal = work.journal /\ HEAD' = HEAD
    BY <1>3 DEF KeptInv, Folder, IsTree, Path, HEAD
  <2>4. ~overlapped => index'.journal = HEAD'.journal /\ IsSeq(work'.journal)
    BY <1>3, <2>3 DEF Alone
  <2>5. Sure(r.pc, work', index', HEAD', HEADparent')
    BY <2>2 DEF Sure
  <2>6. goOn(p, r)
    BY <1>3 DEF r
  <2> QED
    BY <1>1, <2>4, <2>5, <2>6, OneMoves
<1> QED
  BY <1>2, <1>3 DEF write

LEMMA CommitAlone ==
  ASSUME KeptInv, Alone, NEW p \in Shell, commit(p)
  PROVE  Alone'
<1>1. busy(p) /\ UNCHANGED overlapped
  BY DEF commit, busy
<1>2. CASE \E code : exit(p, code) /\ UNCHANGED gitVars
  <2>1. "idle" \notin {"commit", "revert", "commitRevert"}
    OBVIOUS
  <2> QED
    BY <1>1, <1>2, <2>1, OneEnds DEF gitVars
<1>3. CASE stage({"project"}) /\ to(p, "commit")
  <2> DEFINE r == [call[p] EXCEPT !.pc = "commit"]
  <2>1. isCall(call[p])
    BY DEF KeptInv, Calls, SavesAs
  <2>2. r.pc = "commit" /\ goOn(p, r)
    BY <1>3, <2>1 DEF isCall, Fields, to
  <2> HIDE DEF r
  <2>3. /\ UNCHANGED <<work, commits>> /\ index'.project = work.project /\ index'.journal = index.journal
        /\ HEAD' = HEAD
    BY <1>3 DEF stage, staged, Path, HEAD
  <2>4. ~overlapped => index'.journal = HEAD'.journal /\ IsSeq(work'.journal)
    BY <2>3 DEF Alone
  <2>5. Sure(r.pc, work', index', HEAD', HEADparent')
    BY <2>2, <2>3 DEF Sure
  <2> QED
    BY <1>1, <2>2, <2>4, <2>5, OneMoves
<1>4. CASE commitIndex(NoEvent) /\ \E code : exit(p, code)
  <2>1. HEAD' = index /\ UNCHANGED <<work, index>>
    <3> DEFINE e == [tree |-> index, event |-> NoEvent]
    <3>1. commits' = Append(commits, e) /\ e.tree = index /\ UNCHANGED <<work, index>>
      BY <1>4 DEF commitIndex
    <3> HIDE DEF e
    <3> QED
      BY <3>1, NewHead DEF KeptInv
  <2>2. ~overlapped => index'.journal = HEAD'.journal /\ IsSeq(work'.journal)
    BY <2>1 DEF Alone
  <2> QED
    BY <1>1, <1>4, <2>2, OneEndsWith
<1>5. \/ exit(p, "IoError") /\ UNCHANGED gitVars
      \/ stage({"project"}) /\ to(p, "commit")
      \/ commitIndex(NoEvent) /\ (exit(p, "Success") \/ exit(p, "IoError"))
  BY Zenon DEF commit
<1> QED
  BY <1>2, <1>3, <1>4, <1>5

LEMMA RevertAlone ==
  ASSUME KeptInv, Alone, NEW p \in Shell, revertLatest(p)
  PROVE  Alone'
<1>1. busy(p) /\ UNCHANGED overlapped
  BY DEF revertLatest, busy
<1>2. CASE \E code : exit(p, code) /\ UNCHANGED gitVars
  <2>1. "idle" \notin {"commit", "revert", "commitRevert"}
    OBVIOUS
  <2> QED
    BY <1>1, <1>2, <2>1, OneEnds DEF gitVars
<1>3. isCall(call[p]) /\ IsTree(work) /\ IsTree(index) /\ IsTree(HEAD) /\ IsTree(HEADparent)
  BY HeadIsTree DEF KeptInv, Folder, Calls, SavesAs
<1>4. CASE revertable({"project"}) /\ to(p, "revert") /\ UNCHANGED gitVars
  <2> DEFINE r == [call[p] EXCEPT !.pc = "revert"]
  <2>1. r.pc = "revert" /\ goOn(p, r)
    BY <1>3, <1>4 DEF isCall, Fields, to
  <2> HIDE DEF r
  <2>2. UNCHANGED <<work, index>> /\ HEAD' = HEAD /\ HEADparent' = HEADparent
    BY <1>4 DEF gitVars, HEAD, HEADparent
  <2>3. /\ work.project = index.project /\ index.project = HEAD.project
        /\ HEAD.journal = HEADparent.journal
    BY <1>3, <1>4 DEF revertable, unsaved, touchesOnly, Path
  <2>4. ~overlapped => index'.journal = HEAD'.journal /\ IsSeq(work'.journal)
    BY <2>2 DEF Alone
  <2>5. Sure(r.pc, work', index', HEAD', HEADparent')
    BY <2>1, <2>2, <2>3 DEF Sure
  <2> QED
    BY <1>1, <2>1, <2>4, <2>5, OneMoves
<1>5. CASE call[p].pc = "revert" /\ revertNoCommit /\ to(p, "commitRevert")
  <2> DEFINE r == [call[p] EXCEPT !.pc = "commitRevert"]
  <2>1. r.pc = "commitRevert" /\ goOn(p, r)
    BY <1>3, <1>5 DEF isCall, Fields, to
  <2> HIDE DEF r
  <2>2. HEAD' = HEAD /\ HEADparent' = HEADparent
    BY <1>5 DEF revertNoCommit, HEAD, HEADparent
  <2>3. ASSUME ~overlapped
        PROVE  /\ index'.journal = index.journal /\ work'.journal = work.journal
               /\ index'.project = HEADparent.project /\ work'.project = HEADparent.project
    <3>1. /\ work.project = index.project /\ index.project = HEAD.project
          /\ HEAD.journal = HEADparent.journal
      BY <1>5, <2>3 DEF Alone, Sure
    <3>2. "journal" \notin undone /\ ("project" \in undone <=> HEAD.project # HEADparent.project)
      BY <1>3, <3>1 DEF undone, Path
    <3> QED
      BY <1>3, <1>5, <3>1, <3>2 DEF revertNoCommit, Path
  <2>4. ~overlapped => index'.journal = HEAD'.journal /\ IsSeq(work'.journal)
    BY <2>2, <2>3 DEF Alone
  <2>5. ~overlapped => Sure(r.pc, work', index', HEAD', HEADparent')
    BY <2>1, <2>2, <2>3 DEF Sure
  <2> QED
    BY <1>1, <2>1, <2>4, <2>5, OneMoves
<1>6. CASE revertAbort /\ \E code : exit(p, code)
  <2>1. HEAD' = HEAD
    BY <1>6 DEF revertAbort, HEAD
  <2>2. ASSUME ~overlapped
        PROVE  index'.journal = HEAD.journal /\ work'.journal = work.journal
    <3>1. index.journal = HEAD.journal
      BY <2>2 DEF Alone
    <3> QED
      BY <1>3, <1>6, <3>1 DEF revertAbort, Path
  <2>3. ~overlapped => index'.journal = HEAD'.journal /\ IsSeq(work'.journal)
    BY <2>1, <2>2 DEF Alone
  <2> QED
    BY <1>1, <1>6, <2>3, OneEndsWith
<1>7. CASE commitIndex(Revert) /\ exit(p, "Success")
  <2>1. HEAD' = index /\ UNCHANGED <<work, index>>
    <3> DEFINE e == [tree |-> index, event |-> Revert]
    <3>1. commits' = Append(commits, e) /\ e.tree = index /\ UNCHANGED <<work, index>>
      BY <1>7 DEF commitIndex
    <3> HIDE DEF e
    <3> QED
      BY <3>1, NewHead DEF KeptInv
  <2>2. ~overlapped => index'.journal = HEAD'.journal /\ IsSeq(work'.journal)
    BY <2>1 DEF Alone
  <2> QED
    BY <1>1, <1>7, <2>2, OneEndsWith
<1> QED
  BY <1>2, <1>4, <1>5, <1>6, <1>7 DEF revertLatest

LEMMA ToggleAlone ==
  ASSUME KeptInv, Alone, NEW p \in Shell, toggle(p)
  PROVE  Alone'
<1>1. busy(p) /\ UNCHANGED overlapped
  BY DEF toggle, busy
<1>2. CASE \E code : exit(p, code) /\ UNCHANGED gitVars
  <2>1. "idle" \notin {"commit", "revert", "commitRevert"}
    OBVIOUS
  <2> QED
    BY <1>1, <1>2, <2>1, OneEnds DEF gitVars
<1>3. ASSUME NEW n, NEW x, NEW carried,
             work' = [work EXCEPT !.journal = Append(work.journal, x)],
             index' = [index EXCEPT !.journal = Append(work.journal, x)],
             commits' = Append(commits, [tree |-> index', event |-> n]),
             goOn(p, [call[p] EXCEPT !.pc = "write", !.project = carried])
      PROVE  Alone'
  <2> DEFINE r == [call[p] EXCEPT !.pc = "write", !.project = carried]
             e == [tree |-> index', event |-> n]
  <2>1. isCall(call[p]) /\ IsTree(work) /\ IsTree(index)
    BY DEF KeptInv, Folder, Calls, SavesAs
  <2>2. r.pc = "write" /\ goOn(p, r)
    BY <1>3, <2>1 DEF isCall, Fields
  <2>3. work'.journal = Append(work.journal, x)
    BY <1>3, <2>1 DEF IsTree, Path
  <2>4. commits' = Append(commits, e) /\ e.tree = index'
    BY <1>3
  <2> HIDE DEF r, e
  <2>5. HEAD' = index'
    BY <2>4, NewHead DEF KeptInv
  <2>6. ~overlapped => index'.journal = HEAD'.journal /\ IsSeq(work'.journal)
    BY <2>3, <2>5, GrownSeq DEF Alone
  <2>7. Sure(r.pc, work', index', HEAD', HEADparent')
    BY <2>2 DEF Sure
  <2> QED
    BY <1>1, <2>2, <2>6, <2>7, OneMoves
<1> QED
  BY <1>2, <1>3 DEF toggle

LEMMA AloneStep == AloneInv /\ [Next]_vars => AloneInv'
<1> SUFFICES ASSUME AloneInv, [Next]_vars PROVE AloneInv'
  OBVIOUS
<1>a. KeptInv /\ Alone /\ KeptInv'
  BY StepKept DEF AloneInv
<1>1. ASSUME NEW p \in Shell,
             loadProject(p) \/ historyLatest(p) \/ runPlan(p) \/ execute(p) \/ finish(p) \/ kill(p)
      PROVE  Alone'
  <2>0. busy(p) /\ UNCHANGED <<overlapped, work, index, commits>> /\ isCall(call[p])
    BY <1>a, <1>1 DEF loadProject, historyLatest, runPlan, execute, finish, kill, busy, folder, gitVars,
                 KeptInv, Calls, SavesAs
  <2>1. CASE \E code : exit(p, code)
    <3>1. "idle" \notin {"commit", "revert", "commitRevert"}
      OBVIOUS
    <3> QED
      BY <1>a, <2>0, <2>1, <3>1, OneEnds
  <2>2. CASE historyLatest(p)
    <3>1. "revertable" \notin {"commit", "revert", "commitRevert"}
      OBVIOUS
    <3> QED
      BY <1>a, <2>0, <2>2, <3>1, OneEnds DEF historyLatest
  <2>3. ASSUME NEW d, goOn(p, [call[p] EXCEPT !.pc = "write", !.project = d]) PROVE Alone'
    <3> DEFINE r == [call[p] EXCEPT !.pc = "write", !.project = d]
    <3>1. r.pc = "write" /\ goOn(p, r)
      BY <2>0, <2>3 DEF isCall, Fields
    <3> HIDE DEF r
    <3> QED
      BY <1>a, <2>0, <3>1, OneLooks
  <2>4. ASSUME NEW d, NEW plan, goOn(p, [call[p] EXCEPT !.pc = "execute", !.project = d, !.plan = plan])
        PROVE  Alone'
    <3> DEFINE r == [call[p] EXCEPT !.pc = "execute", !.project = d, !.plan = plan]
    <3>1. r.pc = "execute" /\ goOn(p, r)
      BY <2>0, <2>4 DEF isCall, Fields
    <3> HIDE DEF r
    <3> QED
      BY <1>a, <2>0, <3>1, OneLooks
  <2>5. CASE execute(p)
    <3> DEFINE i == Len(call[p].executed) + 1
               ran == [call[p] EXCEPT !.executed = Append(@, call[p].plan[i])]
               stop == [ran EXCEPT !.pc = "idle", !.code = "ExternalProcessFailed"]
               on   == [ran EXCEPT !.completed = @ \union {i}]
    <3>1. stop.pc = "idle" /\ on.pc = "execute"
      BY <2>0, <2>5 DEF isCall, Fields, execute
    <3>2. goOn(p, stop) \/ goOn(p, on) \/ \E code : exit(p, code)
      BY <2>5 DEF execute, stopsAt
    <3> HIDE DEF stop, on
    <3> QED
      BY <1>a, <2>0, <2>1, <3>1, <3>2, OneLooks
  <2> QED
    BY <1>1, <2>1, <2>2, <2>3, <2>4, <2>5 DEF loadProject, runPlan, finish, kill
<1>2. ASSUME NEW p \in Shell, run(p) \/ write(p) \/ commit(p) \/ toggle(p) \/ revertLatest(p)
      PROVE  Alone'
  BY <1>a, <1>2, RunAlone, WriteAlone, CommitAlone, ToggleAlone, RevertAlone
<1>3. ASSUME UNCHANGED vars PROVE Alone'
  <2>1. UNCHANGED <<work, index, commits, overlapped, call>>
    BY <1>3 DEF vars, folder, gitVars
  <2>2. HEAD' = HEAD /\ HEADparent' = HEADparent
    BY <2>1 DEF HEAD, HEADparent
  <2> QED
    BY <1>a, <2>1, <2>2 DEF Alone, busy, IsSeq
<1>4. Alone'
  <2>1. ASSUME NEW p \in Shell,
               \/ run(p) \/ loadProject(p) \/ write(p) \/ commit(p)
               \/ historyLatest(p) \/ revertLatest(p) \/ toggle(p)
               \/ runPlan(p) \/ execute(p) \/ finish(p) \/ kill(p)
        PROVE  Alone'
    BY <1>1, <1>2, <2>1
  <2> QED
    BY <1>3, <2>1 DEF Next
<1> QED
  BY <1>a, <1>4 DEF AloneInv

\* While no two commands overlap, a save commits the project on disk, and an undo or redo
\* the project from before the latest commit, and not the journal (saveEditedProject,
\* GitHistory::revertLatest).
THEOREM HistoryFollows == Spec => HistoryFollowsDisk
<1> DEFINE n == Len(commits')
           A == ~overlapped' /\ commits' # commits /\ commits'[n].event \in {NoEvent, Revert} =>
                  /\ commits'[n].tree.project = work'.project
                  /\ isRevert(commits'[n]) => /\ commits'[n].tree.project = commits'[n - 2].tree.project
                                              /\ commits'[n].tree.journal = commits'[n - 1].tree.journal
<1>1. ASSUME AloneInv, [Next]_vars PROVE A
  <2>1. KeptInv /\ Alone
    BY <1>1 DEF AloneInv
  <2>2. SUFFICES ASSUME ~overlapped', commits' # commits, commits'[n].event \in {NoEvent, Revert}
                 PROVE  /\ commits'[n].tree.project = work'.project
                        /\ isRevert(commits'[n]) =>
                             /\ commits'[n].tree.project = commits'[n - 2].tree.project
                             /\ commits'[n].tree.journal = commits'[n - 1].tree.journal
    OBVIOUS
  <2>3. \E p \in Shell : commit(p) \/ toggle(p) \/ revertLatest(p)
    BY <1>1, <2>2 DEF Next, run, loadProject, write, historyLatest, runPlan, execute, finish, kill,
                      vars, folder, gitVars
  <2>4. PICK p \in Shell : commit(p) \/ toggle(p) \/ revertLatest(p)
    BY <2>3
  <2>5. ~overlapped
    BY <2>2, <2>4 DEF commit, toggle, revertLatest
  <2>6. CASE call[p].pc = "commit" /\ commitIndex(NoEvent)
    <3> DEFINE e == [tree |-> index, event |-> NoEvent]
    <3>1. commits' = Append(commits, e) /\ e.tree = index /\ e.event = NoEvent /\ work' = work
      BY <2>6 DEF commitIndex
    <3> HIDE DEF e
    <3>2. commits'[n] = e
      BY <2>1, <3>1, NewHead DEF KeptInv
    <3>3. index.project = work.project
      BY <2>1, <2>5, <2>6 DEF Alone, Sure
    <3> QED
      BY <3>1, <3>2, <3>3 DEF isRevert, NoEvent, Revert
  <2>7. CASE call[p].pc = "commitRevert" /\ commitIndex(Revert)
    <3> DEFINE e == [tree |-> index, event |-> Revert]
    <3>1. commits' = Append(commits, e) /\ e.tree = index /\ work' = work
      BY <2>7 DEF commitIndex
    <3> HIDE DEF e
    <3>2. /\ commits'[n] = e /\ commits'[n - 1] = commits[Len(commits)]
          /\ commits'[n - 2] = commits[Len(commits) - 1]
      BY <2>1, <3>1, NewHead DEF KeptInv
    <3>3. index.project = HEADparent.project /\ work.project = HEADparent.project /\ index.journal = HEAD.journal
      BY <2>1, <2>5, <2>7 DEF Alone, Sure
    <3> QED
      BY <3>1, <3>2, <3>3 DEF HEAD, HEADparent
  <2>8. CASE toggle(p)
    <3>1. PICK x, m : commits' = Append(commits, [tree |-> index', event |-> m])
                      /\ m = Len(Append(work.journal, x))
      BY <2>2, <2>8 DEF toggle, gitVars
    <3> DEFINE e == [tree |-> index', event |-> m]
    <3>2. e.event = m /\ commits' = Append(commits, e)
      BY <3>1
    <3> HIDE DEF e
    <3>3. commits'[n] = e
      BY <2>1, <3>2, NewHead DEF KeptInv
    <3>4. m = Len(work.journal) + 1 /\ Len(work.journal) \in Nat
      BY <2>1, <2>5, <3>1, GrownSeq DEF Alone
    <3> QED
      BY <2>2, <3>2, <3>3, <3>4 DEF NoEvent, Revert
  <2> QED
    BY <2>2, <2>4, <2>6, <2>7, <2>8 DEF commit, revertLatest, revertNoCommit, revertAbort, stage, gitVars
<1>2. AloneInv /\ [Next]_vars => [A]_vars
  BY <1>1
<1>3. Init => AloneInv
  BY AloneBegins
<1>4. AloneInv /\ [Next]_vars => AloneInv'
  BY AloneStep
<1>5. Spec => [][A]_vars
  BY <1>2, <1>3, <1>4, PTL DEF Spec
<1> QED
  BY <1>5 DEF HistoryFollowsDisk

-----------------------------------------------------------------------------
(* The validation history. *)

\* A validation run, a file of the store and what a client has in hand.
Run == [n : Nat, rev : Nat, status : {"running"} \cup VV!Statuses, reached : SUBSET Required,
        failed : BOOLEAN, evidence : BOOLEAN]
File == [kind : {"missing", "damaged", "legacy", "current"}, runs : Seq(Run)]
Steps == {"idle", "lock", "backup", "primary", "rollback", "restore"}
Task == [step : Steps, change : VV!Changes \cup {VV!Change("none", 0, "none")}, seen : Run,
         candidate : Run, runs : Seq(Run), prior : File]

\* Runs are kept at their number.
Numbered(runs) == \A i \in DOMAIN runs : runs[i].n = i
IsFile(f) ==
  f \in File /\ Numbered(f.runs) /\ (f.kind \in {"missing", "damaged"} => f.runs = <<>>)

\* The list holds v or a later revision of it; of one revision, or of a completed
\* run, there is only one version.
Carries(runs, v) ==
  /\ v.n \in DOMAIN runs
  /\ runs[v.n].rev >= v.rev /\ v.reached \subseteq runs[v.n].reached
  /\ VV!completed(v) \/ runs[v.n].rev = v.rev => runs[v.n] = v

\* A backup that is there holds what is known; before the first save nothing is
\* known but the run a legacy file brought in.
Backs(f, known) ==
  /\ IsFile(f) /\ f.kind \in {"missing", "current"}
  /\ \A v \in known : IF f.kind = "missing" THEN v = VV!NewRun(1) ELSE Carries(f.runs, v)

\* The steps at which a client is about to write, or to put back, a file.
Writing == {"backup", "primary", "rollback"}

\* What a client is about to write loses no known run, and completes the run it
\* completes from what its user had seen; nor does what it would put back.
Writes(t, known) ==
  /\ Numbered(t.runs) /\ t.candidate.n \in DOMAIN t.runs /\ t.runs[t.candidate.n] = t.candidate
  /\ \A v \in known : Carries(t.runs, v)
  /\ VV!completed(t.candidate) => t.candidate = VV!completeRun(t.seen, t.candidate.status)
  /\ Backs(t.prior, known)

\* A run is updated from the version that was read of this run.
Reads(t) == t.change.kind \in {"update", "finish"} => t.seen.n = t.change.n

\* What anybody knows of the runs: saved, read by a client, or on display.
Seen == {vmTask[c].seen : c \in Clients} \ {VV!NoRun}
Shown == {primary.runs[i] : i \in DOMAIN primary.runs}
Known == saved \cup Seen \cup Shown

\* The inductive invariant: whoever is about to write holds the lock, both files
\* hold every known run, and so does what the owner of the lock keeps and writes.
StoreTypes == primary \in File /\ backup \in File /\ vmTask \in [Clients -> Task] /\ saved \subseteq Run
Locked == \A c \in Clients : vmTask[c].step \in Writing \cup {"restore"} => vmLock = c
Disk ==
  /\ IsFile(primary) /\ Backs(backup, Known) /\ (saved # {} => backup.kind = "current")
  /\ primary.kind \in {"current", "legacy"} => \A v \in Known : Carries(primary.runs, v)
Tasks ==
  \A c \in Clients :
    /\ Reads(vmTask[c])
    /\ vmTask[c].step \in Writing =>
         Writes(vmTask[c], Known) /\ (saved # {} => vmTask[c].prior.kind = "current")
    /\ vmTask[c].step = "primary" => backup = VV!File("current", vmTask[c].runs)
ValidationInv == StoreTypes /\ Locked /\ Disk /\ Tasks /\ VV!FinalizedAsReviewed

\* A new run has reached nothing yet.
LEMMA FreshRuns ==
  ASSUME NEW n \in Nat
  PROVE  /\ VV!NewRun(n) \in Run /\ VV!NewRun(n).n = n /\ VV!NewRun(n).rev = 1
         /\ VV!NewRun(n).reached = {} /\ ~VV!completed(VV!NewRun(n))
BY DEF VV!NewRun, Run, VV!completed

\* A client at rest has seen nothing.
LEMMA IdleTask ==
  /\ VV!Idle \in Task /\ VV!Idle.step = "idle" /\ VV!Idle.seen = VV!NoRun
  /\ VV!Idle.change.kind = "none" /\ VV!NoRun \in Run /\ VV!NoRun.n = 0
<1>1. VV!NoRun \in Run /\ VV!NoRun.n = 0
  BY FreshRuns DEF VV!NoRun
<1>2. VV!Missing \in File
  BY DEF VV!Missing, VV!File, File
<1>3. VV!Change("none", 0, "none").kind = "none"
  BY DEF VV!Change
<1>4. VV!Idle \in Task
  BY <1>1, <1>2 DEF VV!Idle, Task, Steps
<1> QED
  BY <1>1, <1>3, <1>4 DEF VV!Idle

\* The store is missing, or is a legacy file with one run and no backup.
LEMMA ValidationsInit == MCInit => ValidationInv
<1> SUFFICES ASSUME MCInit PROVE ValidationInv
  OBVIOUS
<1>1. VV!Init
  BY DEF MCInit
<1>2. /\ VV!Missing \in File /\ VV!Missing.kind = "missing" /\ VV!Missing.runs = <<>>
      /\ VV!File("legacy", <<VV!NewRun(1)>>) \in File
      /\ VV!File("legacy", <<VV!NewRun(1)>>).kind = "legacy"
      /\ VV!File("legacy", <<VV!NewRun(1)>>).runs = <<VV!NewRun(1)>>
  BY FreshRuns DEF VV!Missing, VV!File, File
<1>3. /\ saved = {} /\ backup = VV!Missing /\ finals = {}
      /\ \A c \in Clients : vmTask[c] = VV!Idle
      /\ vmTask = [c \in Clients |-> VV!Idle]
      /\ primary = VV!Missing \/ primary = VV!File("legacy", <<VV!NewRun(1)>>)
  BY <1>1 DEF VV!Init
<1>4. StoreTypes
  BY <1>2, <1>3, IdleTask DEF StoreTypes
<1>5. Known = Shown
  BY <1>3, IdleTask DEF Known, Seen
<1>6. primary.runs = <<>> \/ (primary.runs = <<VV!NewRun(1)>> /\ primary.kind = "legacy")
  BY <1>2, <1>3
<1>7. \A v \in Known : v = VV!NewRun(1)
  BY <1>5, <1>6 DEF Shown
<1>8. Numbered(primary.runs)
  BY <1>6, FreshRuns DEF Numbered
<1>9. Backs(backup, Known)
  BY <1>2, <1>3, <1>7 DEF Backs, IsFile, Numbered
<1>10. IsFile(primary)
  BY <1>2, <1>3, <1>8 DEF IsFile
<1>11. ASSUME NEW v \in Known PROVE Carries(primary.runs, v)
  <2>1. PICK i \in DOMAIN primary.runs : v = primary.runs[i]
    BY <1>5 DEF Shown
  <2>2. v \in Run /\ v.n = i
    BY <2>1, <1>4, <1>8 DEF StoreTypes, File, Numbered
  <2> QED
    BY <2>1, <2>2 DEF Carries, Run
<1> QED
  BY <1>3, <1>4, <1>9, <1>10, <1>11, IdleTask
     DEF ValidationInv, Locked, Disk, Tasks, Reads, Writing, VV!FinalizedAsReviewed

-----------------------------------------------------------------------------
\* A step that writes neither file and gives client c the task t, which may have read the
\* primary, loses nothing.
LEMMA TaskChanges ==
  ASSUME ValidationInv, NEW c \in Clients, NEW t \in Task,
         vmTask' = [vmTask EXCEPT ![c] = t],
         UNCHANGED <<primary, backup, saved, finals>>,
         \A d \in Clients \ {c} : vmTask[d].step \in Writing \cup {"restore"} => vmLock' = d,
         t.step \in Writing \cup {"restore"} => vmLock' = c,
         t.seen \in {VV!NoRun, vmTask[c].seen} \cup Shown,
         Reads(t), 
         t.step \in Writing => Writes(t, Known) /\ (saved # {} => t.prior.kind = "current"),
         t.step = "primary" => backup = VV!File("current", t.runs)
  PROVE  ValidationInv'
<1>1. \A d \in Clients : vmTask'[d] = IF d = c THEN t ELSE vmTask[d]
  BY DEF ValidationInv, StoreTypes
<1>2. Known' \subseteq Known
  <2>1. Shown' = Shown
    BY DEF Shown
  <2>2. Seen' \subseteq Seen \cup Shown
    BY <1>1 DEF Seen
  <2> QED
    BY <2>1, <2>2 DEF Known
<1>3. ASSUME NEW f, Backs(f, Known) PROVE Backs(f, Known')
  BY <1>2, <1>3 DEF Backs
<1>4. ASSUME NEW s, Writes(s, Known) PROVE Writes(s, Known')
  BY <1>2, <1>3, <1>4 DEF Writes
<1>5. StoreTypes'
  BY <1>1 DEF ValidationInv, StoreTypes
<1>6. Locked'
  BY <1>1 DEF ValidationInv, Locked
<1>7. Disk'
  BY <1>2, <1>3 DEF ValidationInv, Disk
<1>8. Tasks'
  <2> SUFFICES ASSUME NEW d \in Clients
               PROVE  /\ Reads(vmTask'[d])
                      /\ vmTask'[d].step \in Writing =>
                           Writes(vmTask'[d], Known') /\ (saved # {} => vmTask'[d].prior.kind = "current")
                      /\ vmTask'[d].step = "primary" => backup = VV!File("current", vmTask'[d].runs)
    BY DEF Tasks
  <2> QED
    BY <1>1, <1>4 DEF ValidationInv, Tasks
<1>9. VV!FinalizedAsReviewed'
  BY DEF ValidationInv, VV!FinalizedAsReviewed
<1> QED
  BY <1>5, <1>6, <1>7, <1>8, <1>9 DEF ValidationInv

\* A process gives up, or dies, and the lock it may have held is free again.
LEMMA TaskEnds ==
  ASSUME ValidationInv, NEW c \in Clients,
         vmTask' = [vmTask EXCEPT ![c] = VV!Idle],
         vmLock' = vmLock \/ vmLock' = VV!released(c),
         UNCHANGED <<primary, backup, saved, finals>>
  PROVE  ValidationInv'
<1>1. \A d \in Clients \ {c} : vmTask[d].step \in Writing \cup {"restore"} => vmLock' = d
  BY DEF ValidationInv, Locked, VV!released
<1>2. Reads(VV!Idle) /\ VV!Idle.step \notin Writing \cup {"restore"}
  BY IdleTask DEF Reads, Writing
<1> QED
  BY <1>1, <1>2, IdleTask, TaskChanges

\* A client at any step after it began still has a change of the three kinds.
LEMMA Goes ==
  ASSUME ValidationInv, NEW c \in Clients, NEW step \in Steps, VV!goto(c, step)
  PROVE  /\ [vmTask[c] EXCEPT !.step = step] \in Task
         /\ vmTask' = [vmTask EXCEPT ![c] = [vmTask[c] EXCEPT !.step = step]]
BY DEF ValidationInv, StoreTypes, VV!goto, Task

\* The runs after a change, as prepareMutation has them.
Changed(change, runs) ==
  IF change.kind = "start" THEN Append(runs, VV!Candidate(change, runs))
  ELSE [runs EXCEPT ![VV!Candidate(change, runs).n] = VV!Candidate(change, runs)]

\* What the store makes of its runs carries everything they carry, the run the caller has
\* seen included, and a run is finished from what the caller has seen.
LEMMA Prepared ==
  ASSUME NEW runs \in Seq(Run), Numbered(runs), NEW change \in VV!Changes, change.kind # "recover",
         NEW seen, change.kind = "start" \/ Carries(runs, seen) \/ seen = VV!NoRun,
         change.kind \in {"update", "finish"} => seen.n = change.n,
         VV!Allowed(change, seen, runs)
  PROVE  LET chosen == VV!Candidate(change, runs)
             outcome == Changed(change, runs)
         IN  /\ chosen \in Run /\ outcome \in Seq(Run) /\ Numbered(outcome)
             /\ chosen.n \in DOMAIN outcome /\ outcome[chosen.n] = chosen
             /\ VV!completed(chosen) => chosen = VV!completeRun(seen, chosen.status)
             /\ \A v \in Run : Carries(runs, v) => Carries(outcome, v)
<1> DEFINE chosen == VV!Candidate(change, runs)
           outcome == Changed(change, runs)
<1>0. /\ chosen = VV!Candidate(change, runs)
      /\ outcome = IF change.kind = "start" THEN Append(runs, chosen) ELSE [runs EXCEPT ![chosen.n] = chosen]
  BY DEF Changed
<1> SUFFICES /\ chosen \in Run /\ outcome \in Seq(Run) /\ Numbered(outcome)
             /\ chosen.n \in DOMAIN outcome /\ outcome[chosen.n] = chosen
             /\ VV!completed(chosen) => chosen = VV!completeRun(seen, chosen.status)
             /\ \A v \in Run : Carries(runs, v) => Carries(outcome, v)
  OBVIOUS
<1> HIDE DEF chosen, outcome
<1>1. CASE change.kind = "start"
  <2>1. chosen = VV!NewRun(Len(runs) + 1)
    BY <1>0, <1>1 DEF VV!Candidate, VV!appendRun
  <2>2. Len(runs) + 1 \in Nat
    OBVIOUS
  <2>3. chosen \in Run /\ chosen.n = Len(runs) + 1 /\ ~VV!completed(chosen)
    BY <2>1, <2>2, FreshRuns
  <2>4. outcome = Append(runs, chosen)
    BY <1>0, <1>1
  <2>5. /\ outcome \in Seq(Run) /\ DOMAIN outcome = 1 .. Len(runs) + 1 /\ DOMAIN runs = 1 .. Len(runs)
        /\ outcome[Len(runs) + 1] = chosen
        /\ \A i \in DOMAIN runs : outcome[i] = runs[i]
    BY <2>3, <2>4
  <2>6. Numbered(outcome)
    BY <2>3, <2>5 DEF Numbered
  <2>7. \A v \in Run : Carries(runs, v) => Carries(outcome, v)
    BY <2>5 DEF Carries
  <2> QED
    BY <2>3, <2>5, <2>6, <2>7
<1>2. CASE change.kind # "start"
  <2> DEFINE n == change.n
             old == runs[n]
  <2>1. change.kind \in {"update", "finish"}
    BY <1>2 DEF VV!Changes, VV!Change
  <2>2. n \in DOMAIN runs /\ old.rev = seen.rev /\ ~VV!completed(old)
    BY <1>2 DEF VV!Allowed
  <2>3. old \in Run /\ old.n = n /\ n \in Nat /\ n # 0
    <3>1. n \in 1 .. Len(runs) /\ runs[n] \in Run
      BY <2>2
    <3> QED
      BY <2>2, <3>1 DEF Numbered
  <2>4. seen = old
    <3>1. seen.n = n
      BY <2>1
    <3>2. seen # VV!NoRun
      BY <2>3, <3>1, IdleTask
    <3> QED
      BY <1>2, <2>2, <3>1, <3>2 DEF Carries
  <2>5. /\ chosen \in Run /\ chosen.n = n /\ chosen.rev = old.rev + 1 /\ old.reached \subseteq chosen.reached
        /\ VV!completed(chosen) => chosen = VV!completeRun(seen, chosen.status)
    <3>1. CASE change.kind = "update"
      <4>1. chosen = VV!updateRun(old, change.what)
        BY <1>0, <3>1 DEF VV!Candidate
      <4> HIDE DEF n, old
      <4>2. (old.failed \/ change.what = "failure") \in BOOLEAN /\ (old.evidence \/ change.what = "evidence") \in BOOLEAN
        OBVIOUS
      <4>3. old.reached \cup (Required \cap {change.what}) \in SUBSET Required
        BY <2>3 DEF Run
      <4>4. /\ chosen.n = n /\ chosen.rev = old.rev + 1 /\ old.reached \subseteq chosen.reached
            /\ chosen.status = old.status /\ chosen \in Run
        <5>1. /\ old.status \in {"running"} \cup VV!Statuses /\ old.n \in Nat /\ old.rev \in Nat
              /\ old = [n |-> old.n, rev |-> old.rev, status |-> old.status, reached |-> old.reached,
                        failed |-> old.failed, evidence |-> old.evidence]
          BY <2>3 DEF Run
        <5>2. chosen = [n |-> old.n, rev |-> old.rev + 1, status |-> old.status,
                     reached |-> old.reached \cup (Required \cap {change.what}),
                     failed |-> old.failed \/ change.what = "failure",
                     evidence |-> old.evidence \/ change.what = "evidence"]
          BY <4>1, <5>1, Zenon DEF VV!updateRun
        <5> QED
          BY <2>3, <4>2, <4>3, <5>1, <5>2 DEF Run
      <4> QED
        BY <4>4, <2>2 DEF VV!completed
    <3>2. CASE change.kind = "finish"
      <4>1. chosen = VV!completeRun(old, change.what)
        BY <1>0, <3>2 DEF VV!Candidate
      <4>2. change.what \in VV!Statuses
        BY <3>2 DEF VV!Changes, VV!Change
      <4> HIDE DEF n, old
      <4>3. /\ chosen \in Run /\ chosen.n = n /\ chosen.rev = old.rev + 1 /\ chosen.reached = old.reached
            /\ chosen.status = change.what
        <5>1. /\ old.n \in Nat /\ old.rev \in Nat /\ old.reached \in SUBSET Required
              /\ old.failed \in BOOLEAN /\ old.evidence \in BOOLEAN
              /\ old = [n |-> old.n, rev |-> old.rev, status |-> old.status, reached |-> old.reached,
                        failed |-> old.failed, evidence |-> old.evidence]
          BY <2>3 DEF Run
        <5>2. chosen = [n |-> old.n, rev |-> old.rev + 1, status |-> change.what,
                     reached |-> old.reached, failed |-> old.failed, evidence |-> old.evidence]
          BY <4>1, <5>1 DEF VV!completeRun
        <5> QED
          BY <2>3, <4>2, <5>1, <5>2 DEF Run
      <4> QED
        BY <4>1, <4>3, <2>4
    <3> QED
      BY <2>1, <3>1, <3>2
  <2>6. outcome = [runs EXCEPT ![n] = chosen]
    BY <1>0, <1>2, <2>5
  <2>7. /\ outcome \in Seq(Run) /\ DOMAIN outcome = DOMAIN runs /\ outcome[n] = chosen
        /\ \A i \in DOMAIN runs : i # n => outcome[i] = runs[i]
    BY <2>2, <2>5, <2>6
  <2>8. Numbered(outcome)
    BY <2>5, <2>7 DEF Numbered
  <2>9. ASSUME NEW v \in Run, Carries(runs, v) PROVE Carries(outcome, v)
    <3>1. CASE v.n # n
      BY <3>1, <2>7, <2>9 DEF Carries
    <3>2. CASE v.n = n
      <4>1. old.rev >= v.rev /\ v.reached \subseteq old.reached /\ (VV!completed(v) => old = v)
        BY <3>2, <2>9 DEF Carries
      <4>2. chosen.rev >= v.rev /\ chosen.rev # v.rev /\ ~VV!completed(v) /\ v.reached \subseteq chosen.reached
        BY <4>1, <2>2, <2>3, <2>5 DEF Run
      <4> QED
        BY <3>2, <2>2, <2>7, <4>2 DEF Carries
    <3> QED
      BY <3>1, <3>2
  <2> QED
    BY <2>2, <2>5, <2>7, <2>8, <2>9
<1> QED
  BY <1>1, <1>2

\* Under the lock the primary is read and the change is made of what it holds.
LEMMA PrepareKeeps ==
  ASSUME ValidationInv, NEW c \in Clients, VV!prepareMutation(c)
  PROVE  ValidationInv'
<1> DEFINE t == vmTask[c]
           runs == primary.runs
           chosen == VV!Candidate(t.change, runs)
           outcome == Changed(t.change, runs)
           new == [t EXCEPT !.step = "backup", !.candidate = chosen, !.prior = backup, !.runs = outcome]
<1>0. /\ t.step = "lock" /\ t.change.kind # "recover" /\ vmLock = "nobody"
      /\ UNCHANGED <<primary, backup, saved, finals>>
  BY DEF VV!prepareMutation, VV!mayLock, VV!nobody
<1>1. CASE VV!Loads(primary) /\ VV!Allowed(t.change, t.seen, runs)
  <2>1. /\ vmLock' = c
        /\ vmTask' = [vmTask EXCEPT ![c].step = "backup", ![c].candidate = chosen, ![c].prior = backup,
                                    ![c].runs = outcome]
    BY <1>1 DEF VV!prepareMutation, Changed
  <2>2. /\ t \in Task /\ vmTask \in [Clients -> Task] /\ backup \in File /\ runs \in Seq(Run)
        /\ saved \subseteq Run /\ Numbered(runs) /\ primary \in File
    BY DEF ValidationInv, StoreTypes, Disk, IsFile, File
  <2>3. vmTask' = [vmTask EXCEPT ![c] = new]
    <3>1. t = [step |-> t.step, change |-> t.change, seen |-> t.seen, candidate |-> t.candidate,
               runs |-> t.runs, prior |-> t.prior]
      BY <2>2 DEF Task
    <3> HIDE DEF chosen, outcome
    <3> QED
      BY <2>1, <2>2, <3>1
  <2>4. Reads(t) /\ t.change \in VV!Changes /\ Known \subseteq Run
    <3>1. t.change # VV!Change("none", 0, "none")
      <4>1. t.change.kind = "start" \/ t.change.n # 0
        BY <1>1, <2>2 DEF VV!Allowed
      <4> QED
        BY <4>1 DEF VV!Change
    <3>2. t.change \in VV!Changes
      BY <2>2, <3>1 DEF Task
    <3>3. \A d \in Clients : vmTask[d].seen \in Run
      BY <2>2 DEF Task
    <3>4. Known \subseteq Run
      BY <2>2, <3>3 DEF Known, Seen, Shown
    <3> QED
      BY <3>2, <3>4 DEF ValidationInv, Tasks
  <2>9. ASSUME chosen \in Run, outcome \in Seq(Run), Numbered(outcome), chosen.n \in DOMAIN outcome, outcome[chosen.n] = chosen,
               VV!completed(chosen) => chosen = VV!completeRun(t.seen, chosen.status),
               \A v \in Known : Carries(outcome, v)
        PROVE  ValidationInv'
    <3> HIDE DEF chosen, outcome
    <3>1. /\ new.step = "backup" /\ new.candidate = chosen /\ new.prior = backup /\ new.runs = outcome
          /\ new.seen = t.seen /\ new.change = t.change /\ new \in Task
      BY <2>2, <2>9 DEF Task, Steps
    <3>2. Backs(backup, Known) /\ (saved # {} => backup.kind = "current")
      BY DEF ValidationInv, Disk
    <3>3. Writes(new, Known) /\ (saved # {} => new.prior.kind = "current")
      BY <2>9, <3>1, <3>2 DEF Writes
    <3>4. Reads(new)
      BY <2>4, <3>1 DEF Reads
    <3>5. \A d \in Clients \ {c} : vmTask[d].step \notin Writing \cup {"restore"}
      BY <1>0, NobodyAssumption DEF ValidationInv, Locked, NC!nobody
    <3> HIDE DEF new
    <3> QED
      BY <1>0, <2>1, <2>3, <3>1, <3>3, <3>4, <3>5, TaskChanges
  <2>5. CASE primary.kind \in {"current", "legacy"}
    <3>1. \A v \in Known : Carries(runs, v)
      BY <2>5 DEF ValidationInv, Disk
    <3>2. t.seen \in Known \/ t.seen = VV!NoRun
      BY DEF Known, Seen
    <3>3. t.change.kind \in {"update", "finish"} => t.seen.n = t.change.n
      BY <2>4 DEF Reads
    <3>5. /\ chosen \in Run /\ outcome \in Seq(Run) /\ Numbered(outcome)
          /\ chosen.n \in DOMAIN outcome /\ outcome[chosen.n] = chosen
          /\ VV!completed(chosen) => chosen = VV!completeRun(t.seen, chosen.status)
          /\ \A v \in Run : Carries(runs, v) => Carries(outcome, v)
      <4>1. Carries(runs, t.seen) \/ t.seen = VV!NoRun
        BY <3>1, <3>2
      <4>2. /\ runs \in Seq(Run) /\ Numbered(runs) /\ t.change \in VV!Changes /\ t.change.kind # "recover"
            /\ VV!Allowed(t.change, t.seen, runs)
        BY <1>0, <1>1, <2>2, <2>4
      <4> HIDE DEF t, runs
      <4> QED
        BY <3>3, <4>1, <4>2, Prepared
    <3> QED
      BY <2>4, <2>9, <3>1, <3>5
  <2>6. CASE primary.kind = "missing"
    <3>1. backup.kind = "missing" /\ runs = <<>>
      BY <1>1, <2>6 DEF VV!Loads, ValidationInv, Disk, IsFile
    <3>2. t.change.kind = "start"
      BY <1>1, <3>1 DEF VV!Allowed
    <3>3. Len(runs) + 1 = 1
      BY <3>1
    <3>4. chosen = VV!NewRun(1)
      BY <3>2, <3>3 DEF VV!Candidate, VV!appendRun
    <3>5. chosen \in Run /\ chosen.n = 1 /\ ~VV!completed(chosen)
      BY <3>4, FreshRuns
    <3> HIDE DEF chosen
    <3>6. outcome = <<chosen>>
      BY <3>1, <3>2 DEF Changed, chosen
    <3> HIDE DEF outcome
    <3>7. outcome \in Seq(Run) /\ Numbered(outcome) /\ chosen.n \in DOMAIN outcome /\ outcome[chosen.n] = chosen
      BY <3>5, <3>6 DEF Numbered
    <3>8. \A v \in Known : v = chosen
      BY <3>1, <3>4 DEF ValidationInv, Disk, Backs
    <3>9. Carries(outcome, chosen)
      <4>1. chosen.rev \in Nat
        BY <3>5 DEF Run
      <4> QED
        BY <3>5, <3>7, <4>1 DEF Carries
    <3> QED
      BY <2>9, <3>5, <3>7, <3>8, <3>9
  <2>7. CASE primary.kind = "damaged"
    BY <1>1, <2>7 DEF VV!Loads, VV!parseSnapshot
  <2>8. primary.kind \in {"missing", "damaged", "legacy", "current"}
    BY <2>2 DEF File
  <2> QED
    BY <2>5, <2>6, <2>7, <2>8
<1>2. CASE ~(VV!Loads(primary) /\ VV!Allowed(t.change, t.seen, runs))
  <2>1. vmTask' = [vmTask EXCEPT ![c] = VV!Idle] /\ vmLock' = vmLock
    BY <1>2 DEF VV!prepareMutation
  <2> QED
    BY <1>0, <2>1, TaskEnds
<1> QED
  BY <1>1, <1>2

\* A step that changes only which step comes next, before anything is written.
LEMMA BeginKeeps ==
  ASSUME ValidationInv, NEW c \in Clients, NEW change \in VV!Changes, VV!begin(c, change)
  PROVE  ValidationInv'
<1> DEFINE seen == VV!find(change.n)
           new == [VV!Idle EXCEPT !.step = "lock", !.change = change, !.seen = seen]
<1>1. /\ vmTask[c].step = "idle" /\ (change.kind \in {"update", "finish"} => seen # VV!NoRun)
      /\ vmTask' = [vmTask EXCEPT ![c] = new] /\ UNCHANGED <<primary, backup, vmLock, saved, finals>>
  BY DEF VV!begin, VV!disk
<1>2. seen = VV!NoRun \/ (change.n \in DOMAIN primary.runs /\ seen = primary.runs[change.n])
  BY DEF VV!find
<1>3. primary.runs \in Seq(Run) /\ Numbered(primary.runs)
  BY DEF ValidationInv, StoreTypes, Disk, IsFile, File
<1>4. /\ seen \in Run /\ seen \in {VV!NoRun} \cup Shown
      /\ change.kind \in {"update", "finish"} => seen.n = change.n
  BY <1>1, <1>2, <1>3, IdleTask DEF Shown, Numbered
<1> HIDE DEF seen
<1>5. /\ new \in Task /\ new.step = "lock" /\ new.change = change /\ new.seen = seen
  BY <1>4, IdleTask DEF Task, Steps
<1> HIDE DEF new
<1>6. \A d \in Clients : vmTask[d].step \in Writing \cup {"restore"} => vmLock = d
  BY DEF ValidationInv, Locked
<1>7. new.step \notin Writing \cup {"restore"} /\ new.step # "primary"
  BY <1>5 DEF Writing
<1>8. Reads(new)
  BY <1>4, <1>5 DEF Reads
<1> QED
  BY <1>1, <1>4, <1>5, <1>6, <1>7, <1>8, TaskChanges

\* The steps of recovery up to the restore change nothing that is on disk.
LEMMA RecoverKeeps ==
  ASSUME ValidationInv, NEW c \in Clients, VV!recoverFromBackup(c)
  PROVE  ValidationInv'
<1>1. CASE VV!goto(c, "restore") /\ vmLock' = c
  <2> DEFINE new == [vmTask[c] EXCEPT !.step = "restore"]
  <2>1. /\ vmLock = "nobody" /\ vmTask[c].change.kind = "recover"
        /\ UNCHANGED <<primary, backup, saved, finals>>
    BY DEF VV!recoverFromBackup, VV!mayLock, VV!nobody
  <2>2. new \in Task /\ vmTask' = [vmTask EXCEPT ![c] = new] /\ vmTask[c] \in Task
    BY <1>1, Goes DEF Steps, ValidationInv, StoreTypes
  <2>3. new.step = "restore" /\ new.seen = vmTask[c].seen /\ new.change = vmTask[c].change
    BY <2>2 DEF Task
  <2> HIDE DEF new
  <2>4. \A d \in Clients : vmTask[d].step \notin Writing \cup {"restore"}
    BY <2>1, NobodyAssumption DEF ValidationInv, Locked, NC!nobody
  <2>5. Reads(new)
    BY <2>1, <2>3 DEF Reads
  <2> QED
    BY <1>1, <2>1, <2>2, <2>3, <2>4, <2>5, TaskChanges DEF Writing
<1>2. CASE vmTask' = [vmTask EXCEPT ![c] = VV!Idle] /\ vmLock' = vmLock
  BY <1>2, TaskEnds DEF VV!recoverFromBackup
<1> QED
  BY <1>1, <1>2 DEF VV!recoverFromBackup

\* The runs a file holds carry themselves.
LEMMA CarriesItself ==
  ASSUME NEW runs \in Seq(Run), Numbered(runs), NEW i \in DOMAIN runs
  PROVE  Carries(runs, runs[i])
<1>1. runs[i] \in Run /\ runs[i].n = i
  BY DEF Numbered
<1>2. runs[i].rev \in Nat
  BY <1>1 DEF Run
<1> QED
  BY <1>1, <1>2 DEF Carries

\* The backup gets the new list first: by then the primary still holds the known runs.
LEMMA WriteBackupKeeps ==
  ASSUME ValidationInv, NEW c \in Clients, VV!writeBackup(c)
  PROVE  ValidationInv'
<1> DEFINE t == vmTask[c]
           new == [t EXCEPT !.step = "primary"]
           file == VV!File("current", t.runs)
<1>0. /\ t.step = "backup" /\ UNCHANGED <<primary, saved, finals>>
      /\ \/ backup' = file /\ VV!goto(c, "primary") /\ vmLock' = vmLock
         \/ vmLock' = VV!released(c) /\ vmTask' = [vmTask EXCEPT ![c] = VV!Idle] /\ backup' = backup
  BY DEF VV!writeBackup
<1>1. CASE backup' = file /\ VV!goto(c, "primary") /\ vmLock' = vmLock
  <2>1. new \in Task /\ vmTask' = [vmTask EXCEPT ![c] = new] /\ t \in Task /\ vmTask \in [Clients -> Task]
    BY <1>1, Goes DEF Steps, ValidationInv, StoreTypes
  <2>2. /\ new.step = "primary" /\ new.seen = t.seen /\ new.change = t.change /\ new.runs = t.runs
        /\ new.candidate = t.candidate /\ new.prior = t.prior
    BY <2>1 DEF Task
  <2>3. Writes(t, Known) /\ (saved # {} => t.prior.kind = "current") /\ Reads(t)
    BY <1>0 DEF ValidationInv, Tasks, Writing
  <2>4. file \in File /\ file.kind = "current" /\ file.runs = t.runs
    BY <2>1 DEF VV!File, File, Task
  <2>5. Backs(file, Known)
    BY <2>3, <2>4 DEF Backs, IsFile, Writes
  <2> HIDE DEF new, file
  <2>6. \A d \in Clients : vmTask'[d] = IF d = c THEN new ELSE vmTask[d]
    BY <2>1
  <2>7. Known' = Known
    BY <1>0, <2>2, <2>6 DEF Known, Seen, Shown
  <2>8. StoreTypes'
    BY <1>0, <1>1, <2>1, <2>4 DEF ValidationInv, StoreTypes
  <2>9. Locked'
    BY <1>0, <1>1, <2>6 DEF ValidationInv, Locked, Writing
  <2>10. Disk'
    BY <1>0, <1>1, <2>4, <2>5, <2>7 DEF ValidationInv, Disk
  <2>11. Writes(new, Known) /\ Reads(new)
    BY <2>2, <2>3 DEF Writes, Reads
  <2>12. \A d \in Clients : d # c => vmTask[d].step \notin Writing
    BY <1>0 DEF ValidationInv, Locked, Writing
  <2>13. backup' = VV!File("current", new.runs)
    BY <1>1, <2>2 DEF file
  <2>14. Tasks'
    <3> SUFFICES ASSUME NEW d \in Clients
                 PROVE  /\ Reads(vmTask'[d])
                        /\ vmTask'[d].step \in Writing =>
                             Writes(vmTask'[d], Known') /\ (saved' # {} => vmTask'[d].prior.kind = "current")
                        /\ vmTask'[d].step = "primary" => backup' = VV!File("current", vmTask'[d].runs)
      BY DEF Tasks
    <3>1. CASE d = c
      BY <1>0, <2>2, <2>3, <2>6, <2>7, <2>11, <2>13, <3>1
    <3>2. CASE d # c
      BY <2>6, <2>12, <3>2 DEF ValidationInv, Tasks, Writing
    <3> QED
      BY <3>1, <3>2
  <2> QED
    BY <1>0, <2>8, <2>9, <2>10, <2>14 DEF ValidationInv, VV!FinalizedAsReviewed
<1>2. CASE vmLock' = VV!released(c) /\ vmTask' = [vmTask EXCEPT ![c] = VV!Idle] /\ backup' = backup
  BY <1>0, <1>2, TaskEnds
<1> QED
  BY <1>0, <1>1, <1>2

\* Only one client is past its lock.
LEMMA OneWriter ==
  ASSUME ValidationInv, NEW c \in Clients, vmTask[c].step \in Writing \cup {"restore"},
         NEW d \in Clients, d # c
  PROVE  vmTask[d].step \notin Writing \cup {"restore"}
BY DEF ValidationInv, Locked

\* What is known after the owner of the lock has given the primary new runs and ended.
LEMMA PrimaryReplaced ==
  ASSUME ValidationInv, NEW c \in Clients, vmTask[c].step \in Writing \cup {"restore"},
         vmTask' = [vmTask EXCEPT ![c] = VV!Idle], vmLock' = VV!released(c),
         IsFile(primary'), Backs(backup', Known'), saved' \subseteq Run, saved' # {} => backup'.kind = "current",
         primary'.kind \in {"current", "legacy"} => \A v \in Known' : Carries(primary'.runs, v),
         VV!FinalizedAsReviewed'
  PROVE  ValidationInv'
<1>1. \A d \in Clients : vmTask'[d] = IF d = c THEN VV!Idle ELSE vmTask[d]
  BY DEF ValidationInv, StoreTypes
<1>2. \A d \in Clients : vmTask'[d].step \notin Writing \cup {"restore"}
  BY <1>1, OneWriter, IdleTask DEF Writing
<1>3. StoreTypes'
  <2>1. primary' \in File /\ backup' \in File
    BY DEF IsFile, Backs
  <2> QED
    BY <2>1, IdleTask DEF ValidationInv, StoreTypes
<1>4. Tasks'
  <2>1. \A d \in Clients : Reads(vmTask'[d])
    BY <1>1, IdleTask DEF ValidationInv, Tasks, Reads
  <2> QED
    BY <1>2, <2>1 DEF Tasks, Writing
<1> QED
  BY <1>2, <1>3, <1>4 DEF ValidationInv, Locked, Disk

\* The primary follows, and only then the run counts as saved.
LEMMA WritePrimaryKeeps ==
  ASSUME ValidationInv, NEW c \in Clients, VV!writePrimary(c)
  PROVE  ValidationInv'
<1> DEFINE t == vmTask[c]
           file == VV!File("current", t.runs)
           final == [seen |-> t.seen, run |-> t.candidate]
<1>0. t.step = "primary" /\ backup' = backup
  BY DEF VV!writePrimary
<1>1. /\ Writes(t, Known) /\ (saved # {} => t.prior.kind = "current") /\ Reads(t)
      /\ backup = file
  BY <1>0 DEF ValidationInv, Tasks, Writing
<1>2. t \in Task /\ vmTask \in [Clients -> Task] /\ saved \subseteq Run
  BY DEF ValidationInv, StoreTypes
<1>3. file \in File /\ file.kind = "current" /\ file.runs = t.runs /\ t.runs \in Seq(Run)
  BY <1>2 DEF VV!File, File, Task
<1>4. CASE /\ primary' = file /\ vmLock' = VV!released(c) /\ vmTask' = [vmTask EXCEPT ![c] = VV!Idle]
           /\ saved' = {chosen \in saved : chosen.n # t.candidate.n} \cup {t.candidate}
           /\ finals' = IF VV!completed(t.candidate) THEN finals \cup {final} ELSE finals
  <2>1. ASSUME NEW v \in Known' PROVE v \in Known \/ \E i \in DOMAIN t.runs : v = t.runs[i]
    <3>1. v \in saved' => v \in saved \/ v = t.candidate
      BY <1>4
    <3>2. v \in Seen' => v \in Seen
      BY <1>2, <1>4, IdleTask DEF Seen
    <3>3. v \in Shown' => \E i \in DOMAIN t.runs : v = t.runs[i]
      BY <1>3, <1>4 DEF Shown
    <3> QED
      BY <1>1, <3>1, <3>2, <3>3 DEF Known, Writes
  <2>2. \A v \in Known' : Carries(t.runs, v)
    BY <1>1, <1>3, <2>1, CarriesItself DEF Writes
  <2>3. Backs(file, Known') /\ IsFile(file)
    BY <1>1, <1>3, <2>2 DEF Backs, IsFile, Writes
  <2>4. saved' \subseteq Run
    BY <1>2, <1>4 DEF Task
  <2>5. VV!FinalizedAsReviewed'
    <3> SUFFICES ASSUME NEW f \in finals' PROVE f.run = VV!completeRun(f.seen, f.run.status)
      BY DEF VV!FinalizedAsReviewed
    <3>1. CASE f \in finals
      BY <3>1 DEF ValidationInv, VV!FinalizedAsReviewed
    <3>2. CASE f = final /\ VV!completed(t.candidate)
      BY <1>1, <3>2 DEF Writes
    <3> QED
      BY <1>4, <3>1, <3>2
  <2> HIDE DEF file, t
  <2> QED
    BY <1>0, <1>1, <1>3, <1>4, <2>2, <2>3, <2>4, <2>5, PrimaryReplaced DEF Writing, t
<1>5. CASE VV!goto(c, "rollback") /\ UNCHANGED <<primary, vmLock, saved, finals>>
  <2> DEFINE new == [t EXCEPT !.step = "rollback"]
  <2>1. new \in Task /\ vmTask' = [vmTask EXCEPT ![c] = new]
    BY <1>5, Goes DEF Steps
  <2>2. /\ new.step = "rollback" /\ new.seen = t.seen /\ new.change = t.change /\ new.runs = t.runs
        /\ new.candidate = t.candidate /\ new.prior = t.prior
    BY <1>2 DEF Task
  <2>3. Writes(new, Known) /\ Reads(new) /\ (saved # {} => new.prior.kind = "current")
    BY <1>1, <2>2 DEF Writes, Reads
  <2> HIDE DEF new
  <2>4. \A d \in Clients : vmTask[d].step \in Writing \cup {"restore"} => vmLock = d
    BY DEF ValidationInv, Locked
  <2>5. vmLock' = vmLock /\ vmLock = c
    BY <1>0, <1>5, <2>4 DEF Writing
  <2> QED
    BY <1>0, <1>5, <2>1, <2>2, <2>3, <2>4, <2>5, TaskChanges
<1> QED
  BY <1>4, <1>5 DEF VV!writePrimary

\* The backup put back is the one the change found; the one left is that of the change.
LEMMA RollbackKeeps ==
  ASSUME ValidationInv, NEW c \in Clients, VV!rollback(c)
  PROVE  ValidationInv'
<1>1. /\ vmTask[c].step = "rollback" /\ backup' \in {vmTask[c].prior, backup}
      /\ vmLock' = VV!released(c) /\ vmTask' = [vmTask EXCEPT ![c] = VV!Idle]
      /\ UNCHANGED <<primary, saved, finals>>
  BY DEF VV!rollback, VV!restored
<1>2. /\ Backs(backup', Known) /\ (saved # {} => backup'.kind = "current")
  BY <1>1 DEF ValidationInv, Disk, Tasks, Writes, Writing
<1>3. Known' \subseteq Known
  BY <1>1, IdleTask DEF Known, Seen, Shown, ValidationInv, StoreTypes
<1>4. Backs(backup', Known')
  BY <1>2, <1>3 DEF Backs
<1>5. /\ IsFile(primary') /\ saved' \subseteq Run /\ VV!FinalizedAsReviewed'
      /\ primary'.kind \in {"current", "legacy"} => \A v \in Known' : Carries(primary'.runs, v)
  BY <1>1, <1>3 DEF ValidationInv, StoreTypes, Disk, VV!FinalizedAsReviewed
<1> QED
  BY <1>1, <1>2, <1>4, <1>5, PrimaryReplaced DEF Writing

\* Recovery copies what the backup holds.
LEMMA RestoreKeeps ==
  ASSUME ValidationInv, NEW c \in Clients, VV!restore(c)
  PROVE  ValidationInv'
<1>1. /\ vmTask[c].step = "restore" /\ primary' \in {backup, primary}
      /\ vmLock' = VV!released(c) /\ vmTask' = [vmTask EXCEPT ![c] = VV!Idle]
      /\ UNCHANGED <<backup, saved, finals>>
  BY DEF VV!restore
<1>2. /\ Backs(backup, Known) /\ (saved # {} => backup.kind = "current")
  BY DEF ValidationInv, Disk
<1>3. backup.runs \in Seq(Run) /\ Numbered(backup.runs) /\ IsFile(backup)
  BY <1>2 DEF Backs, IsFile, File
<1>4. CASE primary' = backup
  <2>1. ASSUME NEW v \in Known' PROVE v \in Known \/ \E i \in DOMAIN backup.runs : v = backup.runs[i]
    BY <1>1, <1>4, IdleTask DEF Known, Seen, Shown, ValidationInv, StoreTypes
  <2>2. CASE backup.kind = "missing"
    <3>1. backup.runs = <<>>
      BY <1>3, <2>2 DEF IsFile
    <3>2. Known' \subseteq Known
      BY <2>1, <3>1
    <3>3. Backs(backup', Known')
      BY <1>1, <1>2, <3>2 DEF Backs
    <3>4. saved' \subseteq Run /\ VV!FinalizedAsReviewed'
      BY <1>1 DEF ValidationInv, StoreTypes, VV!FinalizedAsReviewed
    <3> QED
      BY <1>1, <1>2, <1>3, <1>4, <2>2, <3>3, <3>4, PrimaryReplaced DEF Writing
  <2>3. CASE backup.kind # "missing"
    <3>1. \A v \in Known' : Carries(backup.runs, v)
      BY <1>2, <1>3, <2>1, <2>3, CarriesItself DEF Backs
    <3>2. Backs(backup', Known')
      BY <1>1, <1>2, <2>3, <3>1 DEF Backs
    <3>3. saved' \subseteq Run /\ VV!FinalizedAsReviewed'
      BY <1>1 DEF ValidationInv, StoreTypes, VV!FinalizedAsReviewed
    <3> QED
      BY <1>1, <1>2, <1>3, <1>4, <3>1, <3>2, <3>3, PrimaryReplaced DEF Writing
  <2> QED
    BY <2>2, <2>3
<1>5. CASE primary' = primary
  BY <1>1, <1>5, TaskEnds
<1> QED
  BY <1>1, <1>4, <1>5

\* A damaged or deleted primary leaves the backup to recover from.
LEMMA DamageKeeps ==
  ASSUME ValidationInv, VV!damage
  PROVE  ValidationInv'
<1>1. /\ primary' \in {primary, VV!Missing, VV!Damaged}
      /\ UNCHANGED <<backup, vmLock, vmTask, saved, finals>>
  BY DEF VV!damage
<1>2. /\ \A f \in {VV!Missing, VV!Damaged} : f \in File /\ f.kind \in {"missing", "damaged"} /\ f.runs = <<>>
  BY DEF VV!Missing, VV!Damaged, VV!File, File
<1>3. Known' \subseteq Known /\ IsFile(primary')
  BY <1>1, <1>2 DEF Known, Seen, Shown, IsFile, Numbered, ValidationInv, Disk
<1>4. \A f : Backs(f, Known) => Backs(f, Known')
  BY <1>3 DEF Backs
<1>5. \A t : Writes(t, Known) => Writes(t, Known')
  BY <1>3, <1>4 DEF Writes
<1>6. StoreTypes' /\ Locked' /\ VV!FinalizedAsReviewed'
  BY <1>1, <1>3 DEF ValidationInv, StoreTypes, Locked, IsFile, VV!FinalizedAsReviewed
<1>7. Disk'
  BY <1>1, <1>2, <1>3, <1>4 DEF ValidationInv, Disk
<1>8. Tasks'
  BY <1>1, <1>5 DEF ValidationInv, Tasks
<1> QED
  BY <1>6, <1>7, <1>8 DEF ValidationInv

\* Every step of the store keeps the invariant.
LEMMA ValidationsStep == ValidationInv /\ VV!Next => ValidationInv'
<1> SUFFICES ASSUME ValidationInv, VV!Next PROVE ValidationInv'
  OBVIOUS
<1>1. CASE VV!damage
  BY <1>1, DamageKeeps
<1>2. ASSUME NEW c \in Clients, VV!Step(c) PROVE ValidationInv'
  <2>1. CASE \E change \in VV!Changes : VV!begin(c, change)
    BY <2>1, BeginKeeps
  <2>2. CASE VV!prepareMutation(c)
    BY <2>2, PrepareKeeps
  <2>3. CASE VV!refused(c)
    BY <2>3, TaskEnds DEF VV!refused, VV!disk
  <2>4. CASE VV!writeBackup(c)
    BY <2>4, WriteBackupKeeps
  <2>5. CASE VV!writePrimary(c)
    BY <2>5, WritePrimaryKeeps
  <2>6. CASE VV!rollback(c)
    BY <2>6, RollbackKeeps
  <2>7. CASE VV!recoverFromBackup(c)
    BY <2>7, RecoverKeeps
  <2>8. CASE VV!restore(c)
    BY <2>8, RestoreKeeps
  <2>9. CASE VV!crash(c)
    BY <2>9, TaskEnds DEF VV!crash
  <2> QED
    BY <1>2, <2>1, <2>2, <2>3, <2>4, <2>5, <2>6, <2>7, <2>8, <2>9 DEF VV!Step
<1> QED
  BY <1>1, <1>2 DEF VV!Next

\* So does a step of another store.
LEMMA ValidationsStutter == ValidationInv /\ UNCHANGED vmVars => ValidationInv'
<1> SUFFICES ASSUME ValidationInv, UNCHANGED vmVars PROVE ValidationInv'
  OBVIOUS
<1>1. UNCHANGED <<primary, backup, vmLock, vmTask, saved, finals>>
  BY DEF vmVars
<1>2. Known' = Known
  BY <1>1 DEF Known, Seen, Shown
<1> QED
  BY <1>1, <1>2 DEF ValidationInv, StoreTypes, Locked, Disk, Tasks, VV!FinalizedAsReviewed

\* What the invariant is for.
LEMMA ValidationsAreSafe == ValidationInv => ValidationsSurvive
<1> SUFFICES ASSUME ValidationInv PROVE VV!SavedRunsSurvive /\ VV!FinalizedAsReviewed
  BY DEF ValidationsSurvive, VV!ValidationsSurvive
<1>1. ASSUME NEW f \in File, NEW chosen \in saved, Numbered(f.runs), Carries(f.runs, chosen) PROVE VV!Holds(f, chosen)
  BY <1>1 DEF Carries, VV!Holds, Numbered
<1>2. ASSUME NEW chosen \in saved PROVE VV!Holds(backup, chosen)
  BY <1>1, <1>2 DEF ValidationInv, StoreTypes, Disk, Backs, IsFile, Known
<1>3. ASSUME NEW chosen \in saved, primary.kind \notin {"missing", "damaged"} PROVE VV!Holds(primary, chosen)
  <2>1. primary.kind \in {"current", "legacy"}
    BY <1>3 DEF ValidationInv, Disk, IsFile, File
  <2> QED
    BY <1>1, <1>3, <2>1 DEF ValidationInv, StoreTypes, Disk, IsFile, Known
<1> QED
  BY <1>2, <1>3 DEF VV!SavedRunsSurvive, ValidationInv

\* A validation run that was reported as saved is in the store, at its revision or a
\* later one, and a completed run is what its finisher had read of it, completed: whatever
\* any number of processes write, fail to write, damage and recover (VmLabValidation).
THEOREM ValidationsAreKept == MCSpec => []ValidationsSurvive
<1>1. ValidationInv /\ [MCNext]_<<vars, centreVars, vmVars, subject>> => ValidationInv'
  BY ValidationsStep, ValidationsStutter DEF MCNext
<1> QED
  BY ValidationsInit, <1>1, ValidationsAreSafe, PTL DEF MCSpec

-----------------------------------------------------------------------------
(* The notification centre. *)

\* The steps between taking the store's lock and releasing it.
HolderSteps == {"write", "append", "commit", "rollback", "revert", "revertCommit"}

\* What operations, events, notifications and files may be.
NoteId == Ids \cup {NC!Idle.id, NC!nobody}
Asked == NC!creates \cup NC!Lifecycle \cup {"undo"}
Kinds == Asked \cup {"refresh", "none"}
Op == [kind : Kinds, id : NoteId, n : Nat]
EventType == [n : Nat, id : NoteId, action : Kinds, by : Clients]
Note == [id : NoteId, read : BOOLEAN, dismissed : BOOLEAN, deleted : BOOLEAN]
TreeType == [state : SUBSET Note, events : Seq(EventType)]
CentreSteps == {"idle", "initialize", "create", "lock", "list", "failed", "deliver"} \cup HolderSteps
CentreTask == [step : CentreSteps, op : Op, missing : SUBSET NC!Files, previous : TreeType]

\* Types of the store, of the clients and of the queue.
CentreTypes ==
  /\ state \in SUBSET Note /\ events \in Seq(EventType)
  /\ centreIndex \in TreeType /\ centreCommits \in Seq(TreeType)
  /\ task \in [Clients -> CentreTask] /\ queue \in Seq(Op) /\ ops \in Nat /\ crashes \in Nat

\* The lock belongs to the one client that is between its two ends.
Exclusive ==
  /\ \A c \in Clients : task[c].step \in HolderSteps => lock = c
  /\ lock # NC!nobody => \E c \in Clients : lock = c /\ task[c].step \in HolderSteps

\* Only a complete store with a commit is worked on, and the window works for the head
\* of its queue.
Ready ==
  /\ made \subseteq NC!Files /\ ("events" \in made => "state" \in made)
  /\ "state" \notin made => state = {}
  /\ "events" \notin made => events = <<>>
  /\ centreCommits # <<>> => made = NC!Files
  /\ \A i \in DOMAIN queue : queue[i].kind \in Asked \cup {"refresh"}
  /\ task[window].step # "idle" => queue # <<>>
  /\ \A c \in Clients :
       /\ task[c].step \in {"initialize", "create"} => task[c].op.kind \in Asked \cup {"refresh"}
       /\ task[c].step = "create" => NC!Files \ made \subseteq task[c].missing
       /\ task[c].step \in HolderSteps \cup {"lock"} => centreCommits # <<>>
       /\ task[c].step = "revert" => Len(centreCommits) >= 2
       /\ task[c].step = "lock" => task[c].op.kind \in Asked
       /\ task[c].step \in {"write", "append", "commit"} => task[c].op.kind \in Asked \ {"undo"}

\* What was reported as done and not withdrawn is owed: the log must have it, and what
\* it created must be listed.
Owed == told \ withdrawn
Logs(es) == Owed \subseteq NC!ToSet(es)
Lists(s, es) == \A e \in es : e.action \in NC!creates => \E n \in s : n.id = e.id

\* What client c would put back holds what is owed, and what it writes holds its own event.
KeptBy(c) ==
  /\ task[c].step \in {"write", "append", "commit", "rollback"} =>
       Logs(task[c].previous.events) /\ Lists(task[c].previous.state, Owed)
  /\ task[c].step = "commit" => NC!Event(c) \in NC!ToSet(events)
  /\ task[c].step \in {"append", "commit"} => Lists(state, {NC!Event(c)})
  /\ task[c].step = "revertCommit" => Owed = {}

\* Nothing owed is missing from the files, nor from what the window shows.
Kept ==
  mishaps \subseteq {"torn"} =>
    /\ Logs(events) /\ Lists(state, Owed)
    /\ Lists(items, mine \ withdrawn)
    /\ task[window].step = "deliver" => Lists(listed, {e \in Owed : e.by = window})
    /\ \A c \in Clients : KeptBy(c)

\* The state is what the events say, and every event is of a notification created there.
Matches(tree) ==
  /\ tree.state = NC!Replayed(tree.events)
  /\ \A j \in DOMAIN tree.events : tree.events[j].id \in NC!Created(tree.events)

\* A new notification is new, and every other operation is of one that is there.
Applies(op, s) == op.kind \in NC!creates <=> ~\E n \in s : n.id = op.id

\* The files as client c found them match, and so do those it has written both of.
AgreedBy(c) ==
  /\ task[c].step \in {"write", "append", "commit", "rollback"} => Matches(task[c].previous)
  /\ task[c].step = "write" => NC!Tree = task[c].previous
  /\ task[c].step \in {"write", "append"} => Applies(task[c].op, task[c].previous.state)
  /\ task[c].step = "append" =>
       NC!Tree = [state |-> NC!apply(task[c].previous.state, task[c].op.id, task[c].op.kind),
                  events |-> task[c].previous.events]
  /\ task[c].step \in {"commit", "revert", "revertCommit"} => Matches(NC!Tree)
  /\ task[c].step = "revertCommit" => centreIndex = NC!Tree

\* Every commit matches, and so do the files nobody is at.
Agreed ==
  mishaps = {} =>
    /\ lock = NC!nobody => Matches(NC!Tree)
    /\ \A i \in DOMAIN centreCommits : Matches(centreCommits[i])
    /\ \A c \in Clients : AgreedBy(c)

\* Client c found the files as they were committed.
SettledBy(c) ==
  task[c].step \in {"write", "append", "commit", "rollback"} => NC!HEAD = task[c].previous

\* Files nobody is at are as they were committed, while nobody was killed.
Settled ==
  mishaps = {} /\ crashes = 0 =>
    /\ lock = NC!nobody /\ centreCommits # <<>> => NC!HEAD = NC!Tree
    /\ \A c \in Clients : SettledBy(c)

\* The inductive invariant of the centre.
CentreInv == CentreTypes /\ Exclusive /\ Ready /\ Kept /\ Agreed /\ Settled

\* Constants of the centre.
LEMMA NoteKinds ==
  /\ NC!creates = {"new", "welcome"}
  /\ NC!Lifecycle = {"read", "unread", "dismiss", "restore", "delete"}
  /\ Actions \subseteq NC!Lifecycle /\ NC!Files = {"state", "events"} /\ NC!nobody \notin Clients
  /\ window \in Clients
BY ActionsAssumption, NobodyAssumption, WindowAssumption DEF NC!creates, NC!Lifecycle, NC!Files

\* A client at rest, and an empty store, are of their types.
LEMMA CentreConstants ==
  /\ NC!Idle \in Op /\ NC!Idle.kind = "none" /\ NC!Empty \in TreeType
  /\ NC!Empty.state = {} /\ NC!Empty.events = <<>>
  /\ \A step \in CentreSteps : /\ NC!AtRest(step) \in CentreTask /\ NC!AtRest(step).step = step
                               /\ NC!AtRest(step).op = NC!Idle
<1>1. NC!Idle.id \in NoteId
  BY DEF NoteId
<1> DEFINE i0 == CHOOSE i \in Ids : TRUE
<1>2. NC!Idle = [kind |-> "none", id |-> i0, n |-> 0] /\ NC!Idle.id = i0
  BY DEF NC!Idle, NC!Operation
<1> HIDE DEF i0
<1>3. NC!Idle \in Op /\ NC!Idle.kind = "none"
  BY <1>1, <1>2 DEF Op, Kinds
<1>4. NC!Empty \in TreeType /\ NC!Empty.state = {} /\ NC!Empty.events = <<>>
  BY DEF NC!Empty, TreeType
<1> QED
  BY <1>3, <1>4 DEF NC!AtRest, CentreTask

\* A new store matches.
LEMMA EmptyMatches == Matches(NC!Empty)
BY CentreConstants DEF Matches, NC!Replayed, NC!Created, NC!ToSet

\* The store is new, or was left empty and committed.
LEMMA CentreInit == MCInit => CentreInv
<1> SUFFICES ASSUME MCInit PROVE CentreInv
  OBVIOUS
<1>1. NC!Init
  BY DEF MCInit
<1>2. /\ (made = NC!Files /\ centreCommits = <<NC!Empty>>) \/ (made = {} /\ centreCommits = <<>>)
      /\ state = {} /\ events = <<>> /\ centreIndex = NC!Empty /\ lock = NC!nobody
      /\ task = [c \in Clients |-> NC!AtRest("idle")]
      /\ queue = <<NC!Operation("welcome", NC!Idle.id)>> /\ items = {} /\ listed = {}
      /\ told = {} /\ mine = {} /\ withdrawn = {} /\ mishaps = {} /\ ops = 0 /\ crashes = 0
  BY <1>1 DEF NC!Init
<1>3. "idle" \in CentreSteps
  BY DEF CentreSteps
<1>4. \A c \in Clients : /\ task[c] = NC!AtRest("idle") /\ task[c] \in CentreTask /\ task[c].step = "idle"
  BY <1>2, <1>3, CentreConstants
<1>5. NC!Operation("welcome", NC!Idle.id) \in Op /\ NC!Operation("welcome", NC!Idle.id).kind = "welcome"
  BY NoteKinds DEF NC!Operation, Op, NoteId, Kinds, Asked
<1>6. CentreTypes
  <2>1. queue \in Seq(Op)
    BY <1>2, <1>5
  <2>2. centreCommits \in Seq(TreeType)
    <3> DEFINE tree == NC!Empty
    <3>1. tree \in TreeType /\ (centreCommits = <<tree>> \/ centreCommits = <<>>)
      BY <1>2, CentreConstants
    <3> HIDE DEF tree
    <3>2. <<tree>> \in Seq(TreeType) /\ <<>> \in Seq(TreeType)
      BY <3>1
    <3> QED
      BY <3>1, <3>2
  <2>3. task \in [Clients -> CentreTask]
    BY <1>2, <1>4
  <2> QED
    BY <1>2, <2>1, <2>2, <2>3, CentreConstants DEF CentreTypes
<1>7. Exclusive /\ Ready
  BY <1>2, <1>4, <1>5, NoteKinds DEF Exclusive, Ready, HolderSteps, Asked
<1>8. Kept
  BY <1>2, <1>4, NoteKinds DEF Kept, KeptBy, Logs, Lists, Owed
<1>9. NC!Tree = NC!Empty
  BY <1>2 DEF NC!Tree, NC!Empty
<1>10. \A i \in DOMAIN centreCommits : centreCommits[i] = NC!Empty
  BY <1>2
<1>11. Agreed
  BY <1>4, <1>9, <1>10, EmptyMatches DEF Agreed, AgreedBy
<1>12. centreCommits # <<>> => NC!HEAD = NC!Empty
  BY <1>2 DEF NC!HEAD, NC!Last
<1>13. Settled
  BY <1>4, <1>9, <1>12 DEF Settled, SettledBy
<1> QED
  BY <1>6, <1>7, <1>8, <1>11, <1>13 DEF CentreInv

-----------------------------------------------------------------------------
\* What the last event says of a flag: it sets it, it clears it, or nothing.
LEMMA LastSetsAppend ==
  ASSUME NEW es \in Seq(EventType), NEW e \in EventType, NEW i, NEW sets, NEW clears,
         sets \cap clears = {}
  PROVE  NC!LastSets(Append(es, e), i, sets, clears) <=>
           \/ e.id = i /\ e.action \in sets
           \/ NC!LastSets(es, i, sets, clears) /\ ~(e.id = i /\ e.action \in clears)
<1> DEFINE new == Append(es, e)
<1>1. /\ DOMAIN new = 1 .. Len(es) + 1 /\ DOMAIN es = 1 .. Len(es) /\ Len(es) \in Nat
      /\ new[Len(es) + 1] = e
      /\ \A j \in 1 .. Len(es) : new[j] = es[j]
  OBVIOUS
<1> HIDE DEF new
<1>2. ASSUME NC!LastSets(new, i, sets, clears), ~(e.id = i /\ e.action \in sets)
      PROVE  NC!LastSets(es, i, sets, clears) /\ ~(e.id = i /\ e.action \in clears)
  <2>1. PICK j \in DOMAIN new :
          /\ new[j].id = i /\ new[j].action \in sets
          /\ \A k \in DOMAIN new : k > j /\ new[k].id = i => new[k].action \notin clears
    BY <1>2 DEF NC!LastSets
  <2>2. j \in DOMAIN es
    BY <1>1, <1>2, <2>1
  <2>3. Len(es) + 1 \in DOMAIN new /\ Len(es) + 1 > j
    BY <1>1, <2>2
  <2>4. ~(e.id = i /\ e.action \in clears)
    BY <1>1, <2>1, <2>3
  <2>5. \A k \in DOMAIN es : k > j /\ es[k].id = i => es[k].action \notin clears
    BY <1>1, <2>1
  <2> QED
    BY <1>1, <2>1, <2>2, <2>4, <2>5 DEF NC!LastSets
<1>3. ASSUME e.id = i, e.action \in sets PROVE NC!LastSets(new, i, sets, clears)
  <2>1. Len(es) + 1 \in DOMAIN new /\ \A k \in DOMAIN new : ~(k > Len(es) + 1)
    BY <1>1
  <2> QED
    BY <1>1, <1>3, <2>1 DEF NC!LastSets
<1>4. ASSUME NC!LastSets(es, i, sets, clears), ~(e.id = i /\ e.action \in clears)
      PROVE  NC!LastSets(new, i, sets, clears)
  <2>1. PICK j \in DOMAIN es :
          /\ es[j].id = i /\ es[j].action \in sets
          /\ \A k \in DOMAIN es : k > j /\ es[k].id = i => es[k].action \notin clears
    BY <1>4 DEF NC!LastSets
  <2>2. j \in DOMAIN new /\ new[j] = es[j]
    BY <1>1
  <2>3. \A k \in DOMAIN new : k > j /\ new[k].id = i => new[k].action \notin clears
    BY <1>1, <1>4, <2>1
  <2> QED
    BY <2>1, <2>2, <2>3 DEF NC!LastSets
<1> QED
  BY <1>2, <1>3, <1>4 DEF new

\* An event creates its notification, if it is of that kind.
LEMMA CreatedAppend ==
  ASSUME NEW es \in Seq(EventType), NEW e \in EventType
  PROVE  NC!Created(Append(es, e)) = NC!Created(es) \cup (IF e.action \in NC!creates THEN {e.id} ELSE {})
<1> DEFINE new == Append(es, e)
<1>1. /\ DOMAIN new = 1 .. Len(es) + 1 /\ DOMAIN es = 1 .. Len(es) /\ Len(es) \in Nat
      /\ new[Len(es) + 1] = e
      /\ \A j \in 1 .. Len(es) : new[j] = es[j]
  OBVIOUS
<1> HIDE DEF new
<1>2. NC!ToSet(new) = NC!ToSet(es) \cup {e}
  BY <1>1 DEF NC!ToSet
<1> QED
  BY <1>2 DEF NC!Created, new

\* Of one notification, by its id, what an event log says.
Says(es, i) ==
  [id |-> i, read |-> NC!LastSets(es, i, {"read"}, {"unread"}),
   dismissed |-> NC!LastSets(es, i, {"dismiss", "delete"}, {"restore"}),
   deleted |-> NC!LastSets(es, i, {"delete"}, {"restore"})]

\* What the log says of all notifications is what it says of each.
LEMMA ReplayedSays ==
  ASSUME NEW es PROVE NC!Replayed(es) = {Says(es, i) : i \in NC!Created(es)} /\ \A i : Says(es, i).id = i
BY DEF NC!Replayed, Says

\* After an event of another notification nothing is said anew; after one of its own the
\* flags are as the event leaves them.
LEMMA SaysAppend ==
  ASSUME NEW es \in Seq(EventType), NEW e \in EventType, NEW i,
         e.action \in Asked \ {"undo"}
  PROVE  /\ e.id # i => Says(Append(es, e), i) = Says(es, i)
         /\ e.id = i /\ e.action \in NC!Lifecycle =>
              Says(Append(es, e), i) = NC!changed(Says(es, i), e.action)
         /\ e.id = i /\ e.action \in NC!creates => Says(Append(es, e), i) = Says(es, i)
<1> DEFINE new == Append(es, e)
           R(q) == NC!LastSets(q, i, {"read"}, {"unread"})
           D(q) == NC!LastSets(q, i, {"dismiss", "delete"}, {"restore"})
           X(q) == NC!LastSets(q, i, {"delete"}, {"restore"})
<1>1. /\ R(new) <=> (e.id = i /\ e.action = "read") \/ (R(es) /\ ~(e.id = i /\ e.action = "unread"))
      /\ D(new) <=> (e.id = i /\ e.action \in {"dismiss", "delete"}) \/ (D(es) /\ ~(e.id = i /\ e.action = "restore"))
      /\ X(new) <=> (e.id = i /\ e.action = "delete") \/ (X(es) /\ ~(e.id = i /\ e.action = "restore"))
  <2>1. {"read"} \cap {"unread"} = {} /\ {"dismiss", "delete"} \cap {"restore"} = {} /\ {"delete"} \cap {"restore"} = {}
    OBVIOUS
  <2>2. R(new) <=> (e.id = i /\ e.action \in {"read"}) \/ (R(es) /\ ~(e.id = i /\ e.action \in {"unread"}))
    BY <2>1, LastSetsAppend
  <2>3. D(new) <=> (e.id = i /\ e.action \in {"dismiss", "delete"}) \/ (D(es) /\ ~(e.id = i /\ e.action \in {"restore"}))
    BY <2>1, LastSetsAppend
  <2>4. X(new) <=> (e.id = i /\ e.action \in {"delete"}) \/ (X(es) /\ ~(e.id = i /\ e.action \in {"restore"}))
    BY <2>1, LastSetsAppend
  <2> HIDE DEF R, D, X
  <2> QED
    BY <2>2, <2>3, <2>4
<1>2. \A q : R(q) \in BOOLEAN /\ D(q) \in BOOLEAN /\ X(q) \in BOOLEAN
  BY DEF NC!LastSets
<1>3. \A q : Says(q, i) = [id |-> i, read |-> R(q), dismissed |-> D(q), deleted |-> X(q)]
  BY DEF Says
<1> HIDE DEF new, R, D, X
<1>4. CASE e.id # i
  <2>1. R(new) = R(es) /\ D(new) = D(es) /\ X(new) = X(es)
    BY <1>1, <1>2, <1>4
  <2> QED
    BY <1>3, <1>4, <2>1 DEF new
<1>5. CASE e.id = i /\ e.action \in NC!creates
  <2>1. R(new) = R(es) /\ D(new) = D(es) /\ X(new) = X(es)
    BY <1>1, <1>2, <1>5, NoteKinds
  <2> QED
    BY <1>3, <1>5, <2>1, NoteKinds DEF new
<1>6. CASE e.id = i /\ e.action \in NC!Lifecycle
  <2>1. CASE e.action = "read"
    <3>1. R(new) = TRUE /\ D(new) = D(es) /\ X(new) = X(es)
      BY <1>1, <1>2, <1>6, <2>1
    <3> QED
      BY <1>3, <1>6, <2>1, <3>1, NoteKinds DEF new, NC!changed
  <2>2. CASE e.action = "unread"
    <3>1. R(new) = FALSE /\ D(new) = D(es) /\ X(new) = X(es)
      BY <1>1, <1>2, <1>6, <2>2
    <3> QED
      BY <1>3, <1>6, <2>2, <3>1, NoteKinds DEF new, NC!changed
  <2>3. CASE e.action = "dismiss"
    <3>1. R(new) = R(es) /\ D(new) = TRUE /\ X(new) = X(es)
      BY <1>1, <1>2, <1>6, <2>3
    <3> QED
      BY <1>3, <1>6, <2>3, <3>1, NoteKinds DEF new, NC!changed
  <2>4. CASE e.action = "restore"
    <3>1. R(new) = R(es) /\ D(new) = FALSE /\ X(new) = FALSE
      BY <1>1, <1>2, <1>6, <2>4
    <3>2. NC!changed(Says(es, i), e.action) = [Says(es, i) EXCEPT !.dismissed = FALSE, !.deleted = FALSE]
      BY <2>4 DEF NC!changed
    <3>3. Says(es, i) = [id |-> i, read |-> R(es), dismissed |-> D(es), deleted |-> X(es)]
      BY <1>3
    <3>4. NC!changed(Says(es, i), e.action) = [id |-> i, read |-> R(es), dismissed |-> FALSE, deleted |-> FALSE]
      <4> DEFINE n == Says(es, i)
                 p == [n EXCEPT !.dismissed = FALSE, !.deleted = FALSE]
                 N == [id : {i}, read : {R(es)}, dismissed : BOOLEAN, deleted : BOOLEAN]
      <4>1. n \in N
        BY <1>2, <3>3
      <4> HIDE DEF n
      <4>2. p \in N /\ p.dismissed = FALSE /\ p.deleted = FALSE
        BY <4>1
      <4> HIDE DEF p
      <4>3. p = [id |-> i, read |-> R(es), dismissed |-> FALSE, deleted |-> FALSE]
        BY <4>2
      <4> QED
        BY <3>2, <4>3 DEF n, p
    <3> QED
      BY <1>3, <1>6, <2>4, <3>1, <3>4, NoteKinds DEF new
  <2>5. CASE e.action = "delete"
    <3>1. R(new) = R(es) /\ D(new) = TRUE /\ X(new) = TRUE
      BY <1>1, <1>2, <1>6, <2>5
    <3>2. NC!changed(Says(es, i), e.action) = [Says(es, i) EXCEPT !.deleted = TRUE, !.dismissed = TRUE]
      BY <2>5 DEF NC!changed
    <3>3. Says(es, i) = [id |-> i, read |-> R(es), dismissed |-> D(es), deleted |-> X(es)]
      BY <1>3
    <3>4. NC!changed(Says(es, i), e.action) = [id |-> i, read |-> R(es), dismissed |-> TRUE, deleted |-> TRUE]
      <4> DEFINE n == Says(es, i)
                 p == [n EXCEPT !.deleted = TRUE, !.dismissed = TRUE]
                 N == [id : {i}, read : {R(es)}, dismissed : BOOLEAN, deleted : BOOLEAN]
      <4>1. n \in N
        BY <1>2, <3>3
      <4> HIDE DEF n
      <4>2. p \in N /\ p.dismissed = TRUE /\ p.deleted = TRUE
        BY <4>1
      <4> HIDE DEF p
      <4>3. p = [id |-> i, read |-> R(es), dismissed |-> TRUE, deleted |-> TRUE]
        BY <4>2
      <4> QED
        BY <3>2, <4>3 DEF n, p
    <3> QED
      BY <1>3, <1>6, <2>5, <3>1, <3>4, NoteKinds DEF new
  <2> QED
    BY <1>6, <2>1, <2>2, <2>3, <2>4, <2>5, NoteKinds
<1> QED
  BY <1>4, <1>5, <1>6, NoteKinds DEF new

\* The state an operation writes is the one its event tells.
LEMMA MatchesAppend ==
  ASSUME NEW op \in Op, op.kind \in Asked \ {"undo"}, NEW tree \in TreeType, Matches(tree),
         Applies(op, tree.state), NEW e \in EventType, e.id = op.id, e.action = op.kind
  PROVE  Matches([state |-> NC!apply(tree.state, op.id, op.kind), events |-> Append(tree.events, e)])
<1> DEFINE es == tree.events
           s == tree.state
           i == op.id
           new == Append(es, e)
           C == NC!Created(es)
<1>0. es \in Seq(EventType) /\ s = {Says(es, k) : k \in C} /\ (\A k : Says(es, k).id = k)
      /\ \A j \in DOMAIN es : es[j].id \in C
  BY ReplayedSays DEF Matches, TreeType
<1>1. NC!Created(new) = C \cup (IF e.action \in NC!creates THEN {i} ELSE {})
  BY <1>0, CreatedAppend
<1>2. /\ \A k : k # i => Says(new, k) = Says(es, k)
      /\ e.action \in NC!Lifecycle => Says(new, i) = NC!changed(Says(es, i), e.action)
      /\ e.action \in NC!creates => Says(new, i) = Says(es, i)
  BY <1>0, SaysAppend
<1>3. NC!Replayed(new) = {Says(new, k) : k \in NC!Created(new)}
  BY ReplayedSays
<1>4. \A j \in DOMAIN new : new[j].id \in NC!Created(new)
  <2>1. /\ DOMAIN new = 1 .. Len(es) + 1 /\ DOMAIN es = 1 .. Len(es) /\ Len(es) \in Nat
        /\ new[Len(es) + 1] = e
        /\ \A j \in 1 .. Len(es) : new[j] = es[j]
    BY <1>0
  <2>2. i \in NC!Created(new)
    <3>1. CASE e.action \in NC!creates
      BY <1>1, <3>1
    <3>2. CASE e.action \notin NC!creates
      BY <1>0, <1>1, <3>2 DEF Applies
    <3> QED
      BY <3>1, <3>2
  <2>3. C \subseteq NC!Created(new)
    BY <1>1
  <2> HIDE DEF new, es, C
  <2> QED
    BY <1>0, <2>1, <2>2, <2>3
<1>5. NC!apply(s, i, op.kind) = NC!Replayed(new)
  <2>1. CASE e.action \in NC!creates
    <3>1. i \notin C
      BY <1>0, <2>1 DEF Applies
    <3>2. \A sets, clears : ~NC!LastSets(es, i, sets, clears)
      BY <1>0, <3>1 DEF NC!LastSets
    <3>3. Says(es, i) = NC!Notification(i)
      <4>1. \A sets, clears : NC!LastSets(es, i, sets, clears) = FALSE
        BY <3>2 DEF NC!LastSets
      <4> QED
        BY <4>1 DEF Says, NC!Notification
    <3>4. NC!apply(s, i, op.kind) = s \cup {NC!Notification(i)}
      BY <2>1, NoteKinds DEF NC!apply
    <3> HIDE DEF es, s, C, new, i
    <3>5. NC!Replayed(new) = {Says(new, k) : k \in C} \cup {Says(new, i)}
      BY <1>1, <1>3, <2>1
    <3>6. {Says(new, k) : k \in C} = s
      BY <1>0, <1>2, <3>1
    <3> QED
      BY <1>2, <2>1, <3>3, <3>4, <3>5, <3>6
  <2>2. CASE e.action \in NC!Lifecycle
    <3>1. NC!Replayed(new) = {Says(new, k) : k \in C}
      BY <1>1, <1>3, <2>2, NoteKinds
    <3>2. NC!apply(s, i, op.kind) = {IF n.id = i THEN NC!changed(n, op.kind) ELSE n : n \in s}
      BY <2>2, NoteKinds DEF NC!apply
    <3> HIDE DEF es, s, C, new, i
    <3>3. \A k \in C : Says(new, k) = IF Says(es, k).id = i THEN NC!changed(Says(es, k), op.kind) ELSE Says(es, k)
      BY <1>0, <1>2, <2>2
    <3> QED
      BY <1>0, <3>1, <3>2, <3>3
  <2> QED
    BY <2>1, <2>2 DEF Asked
<1> QED
  BY <1>4, <1>5 DEF Matches

-----------------------------------------------------------------------------

\* A client outside the lock changes what it has in hand, and the window what it shows.
LEMMA CentreTaskChanges ==
  ASSUME CentreInv, NEW c \in Clients, NEW t \in CentreTask,
         task[c].step \notin HolderSteps, t.step \notin HolderSteps,
         task' = [task EXCEPT ![c] = t],
         UNCHANGED <<made, state, events, centreIndex, centreCommits, lock, told, withdrawn, mishaps>>,
         queue' \in Seq(Op), ops' \in Nat, crashes' \in Nat, crashes' = 0 => crashes = 0,
         \A i \in DOMAIN queue' : queue'[i].kind \in Asked \cup {"refresh"},
         task'[window].step # "idle" => queue' # <<>>,
         t.step \in {"initialize", "create"} => t.op.kind \in Asked \cup {"refresh"},
         t.step = "create" => NC!Files \ made \subseteq t.missing,
         t.step = "lock" => centreCommits # <<>> /\ t.op.kind \in Asked,
         mishaps \subseteq {"torn"} => Lists(items', mine' \ withdrawn),
         mishaps \subseteq {"torn"} /\ task'[window].step = "deliver" =>
           Lists(listed', {e \in Owed : e.by = window})
  PROVE  CentreInv'
<1>1. \A d \in Clients : task'[d] = IF d = c THEN t ELSE task[d]
  BY DEF CentreInv, CentreTypes
<1>2. CentreTypes'
  BY DEF CentreInv, CentreTypes
<1>3. Exclusive'
  <2>1. \A d \in Clients : task'[d].step \in HolderSteps <=> task[d].step \in HolderSteps
    BY <1>1
  <2> QED
    BY <2>1 DEF CentreInv, Exclusive
<1>4. Ready'
  BY <1>1 DEF CentreInv, Ready, HolderSteps
<1>5. Owed' = Owed /\ \A d \in Clients : task'[d].step \in HolderSteps => d # c /\ task'[d] = task[d]
  BY <1>1 DEF Owed
<1>6. Kept'
  <2>1. SUFFICES ASSUME mishaps \subseteq {"torn"} PROVE Kept'
    BY DEF Kept
  <2>2. Logs(events)' /\ Lists(state, Owed)' /\ Lists(items, mine \ withdrawn)'
    BY <1>5, <2>1 DEF CentreInv, Kept, Logs
  <2>3. (task[window].step = "deliver" => Lists(listed, {e \in Owed : e.by = window}))'
    BY <1>5, <2>1
  <2>4. ASSUME NEW d \in Clients, task'[d].step \in HolderSteps
        PROVE  KeptBy(d)'
    BY <1>5, <2>1, <2>4 DEF CentreInv, Kept, KeptBy, Logs, NC!Event
  <2> QED
    BY <2>2, <2>3, <2>4 DEF Kept, KeptBy, HolderSteps
<1>7. Agreed'
  BY <1>5 DEF CentreInv, Agreed, AgreedBy, NC!Tree, HolderSteps
<1>8. Settled'
  BY <1>5 DEF CentreInv, Settled, SettledBy, NC!Tree, NC!HEAD, NC!Last, HolderSteps
<1> QED
  BY <1>2, <1>3, <1>4, <1>6, <1>7, <1>8 DEF CentreInv

\* What every proof about a client's step starts from.
LEMMA CentreTask1 ==
  ASSUME CentreInv, NEW c \in Clients
  PROVE  /\ task[c] \in CentreTask /\ task \in [Clients -> CentreTask]
         /\ task[c].op \in Op /\ task[c].previous \in TreeType
         /\ queue \in Seq(Op) /\ ops \in Nat /\ crashes \in Nat
BY DEF CentreInv, CentreTypes, CentreTask

\* A client goes on to its next step, or ends its operation.
LEMMA GoesTo ==
  ASSUME CentreInv, NEW c \in Clients, NEW step \in CentreSteps, NC!goto(c, step)
  PROVE  LET t == [task[c] EXCEPT !.step = step]
         IN  /\ t \in CentreTask /\ task' = [task EXCEPT ![c] = t] /\ t.step = step
             /\ t.op = task[c].op /\ t.previous = task[c].previous /\ t.missing = task[c].missing
<1>1. task[c] \in CentreTask /\ task \in [Clients -> CentreTask]
  BY CentreTask1
<1> QED
  BY <1>1 DEF NC!goto, CentreTask

LEMMA Finishes ==
  ASSUME NEW c \in Clients, NEW success, NC!finish(c, success)
  PROVE  \E step \in {"idle", "list", "failed"} :
           /\ task' = [task EXCEPT ![c] = NC!AtRest(step)]
           /\ c = window => step # "idle"
BY DEF NC!finish

\* An operation that ends outside the lock leaves the store as it is.
LEMMA FinishKeeps ==
  ASSUME CentreInv, NEW c \in Clients, NEW success, NC!finish(c, success), task[c].step \notin HolderSteps,
         task[c].step # "idle",
         UNCHANGED <<made, state, events, centreIndex, centreCommits, lock, queue, items, listed,
                     told, withdrawn, mine, mishaps, ops, crashes>>
  PROVE  CentreInv'
<1>1. PICK step \in {"idle", "list", "failed"} : task' = [task EXCEPT ![c] = NC!AtRest(step)]
  BY Finishes
<1> DEFINE t == NC!AtRest(step)
<1>2. t \in CentreTask /\ t.step = step /\ step \notin HolderSteps
  BY CentreConstants DEF CentreSteps, HolderSteps
<1> HIDE DEF t
<1>3. task'[window].step # "idle" => task[window].step # "idle"
  BY <1>1, <1>2, CentreTask1, NoteKinds DEF t
<1>4. task'[window].step = "deliver" => task[window].step = "deliver"
  BY <1>1, <1>2, CentreTask1, NoteKinds DEF t
<1>5. /\ queue \in Seq(Op) /\ ops \in Nat /\ \A i \in DOMAIN queue : queue[i].kind \in Asked \cup {"refresh"}
      /\ task[window].step # "idle" => queue # <<>>
  BY CentreTask1 DEF CentreInv, Ready
<1>6. mishaps \subseteq {"torn"} => /\ Lists(items, mine \ withdrawn)
                                    /\ task[window].step = "deliver" => Lists(listed, {e \in Owed : e.by = window})
  BY DEF CentreInv, Kept
<1>7. crashes' \in Nat /\ crashes' = crashes
  BY CentreTask1
<1> QED
  BY <1>1, <1>2, <1>3, <1>4, <1>5, <1>6, <1>7, CentreTaskChanges DEF t

\* An operation begins, on a command line or from the window's queue.
LEMMA BeginsOperation ==
  ASSUME CentreInv, NEW c \in Clients, NEW op \in Op, op.kind \in Asked \cup {"refresh"},
         task[c].step = "idle", ops' = ops + 1, c = window => queue # <<>>,
         task' = [task EXCEPT ![c].step = "initialize", ![c].op = [op EXCEPT !.n = ops']],
         UNCHANGED <<made, state, events, centreIndex, centreCommits, lock, queue, items, listed,
                     told, withdrawn, mine, mishaps, crashes>>
  PROVE  CentreInv'
<1> DEFINE o == [op EXCEPT !.n = ops + 1]
           t == [task[c] EXCEPT !.step = "initialize", !.op = o]
<1>0. ops + 1 \in Nat
  BY CentreTask1
<1>1. o \in Op /\ o.kind = op.kind
  BY <1>0 DEF Op
<1> HIDE DEF o
<1>2. t \in CentreTask /\ t.step = "initialize" /\ t.op = o
  BY <1>1, CentreTask1 DEF CentreTask, CentreSteps
<1>3. task' = [task EXCEPT ![c] = t]
  <2>1. task' = [task EXCEPT ![c] = [[@ EXCEPT !.step = "initialize"] EXCEPT !.op = o]]
    BY CentreTask1 DEF o, CentreTask
  <2> QED
    BY <2>1, CentreTask1 DEF CentreTask
<1> HIDE DEF t
<1>4. task'[window].step # "idle" => queue # <<>>
  BY <1>2, <1>3, CentreTask1, NoteKinds DEF CentreInv, Ready
<1>5. task'[window].step = "deliver" => task[window].step = "deliver"
  BY <1>2, <1>3, CentreTask1, NoteKinds
<1>6. /\ queue \in Seq(Op) /\ ops' \in Nat /\ \A i \in DOMAIN queue : queue[i].kind \in Asked \cup {"refresh"}
  BY CentreTask1 DEF CentreInv, Ready
<1>7. mishaps \subseteq {"torn"} => /\ Lists(items, mine \ withdrawn)
                                    /\ task[window].step = "deliver" => Lists(listed, {e \in Owed : e.by = window})
  BY DEF CentreInv, Kept
<1>8. crashes' \in Nat /\ crashes' = crashes
  BY CentreTask1
<1> QED
  BY <1>1, <1>2, <1>3, <1>4, <1>5, <1>6, <1>7, <1>8, CentreTaskChanges DEF HolderSteps

\* The operations of the run are operations.
LEMMA OperationTypes ==
  /\ \A operation \in NC!Operations : operation \in Op /\ operation.kind \in Asked
  /\ NC!Operation("refresh", NC!Idle.id) \in Op /\ NC!Operation("refresh", NC!Idle.id).kind = "refresh"
<1>1. ASSUME NEW kind \in Asked \cup {"refresh"}, NEW i \in NoteId
      PROVE  NC!Operation(kind, i) \in Op /\ NC!Operation(kind, i).kind = kind
  BY DEF NC!Operation, Op, Kinds
<1>2. NC!Idle.id \in NoteId /\ Ids \subseteq NoteId
  BY DEF NoteId
<1>3. {"new"} \cup Actions \subseteq Asked /\ "undo" \in Asked
  BY NoteKinds DEF Asked
<1>4. ASSUME NEW operation \in NC!Operations PROVE operation \in Op /\ operation.kind \in Asked
  <2>1. CASE operation = NC!Operation("undo", NC!Idle.id)
    BY <1>1, <1>2, <1>3, <2>1
  <2>2. CASE \E kind \in {"new"} \cup Actions, i \in Ids : operation = NC!Operation(kind, i)
    <3>1. PICK kind \in {"new"} \cup Actions, i \in Ids : operation = NC!Operation(kind, i)
      BY <2>2
    <3>2. kind \in Asked /\ i \in NoteId
      BY <1>2, <1>3
    <3> QED
      BY <1>1, <3>1, <3>2
  <2> QED
    BY <2>1, <2>2 DEF NC!Operations
<1>5. NC!Operation("refresh", NC!Idle.id) \in Op /\ NC!Operation("refresh", NC!Idle.id).kind = "refresh"
  BY <1>1, <1>2
<1> QED
  BY <1>4, <1>5

LEMMA CentreBegins ==
  ASSUME CentreInv, NEW operation \in NC!Operations, NEW c \in Clients, NC!begin(c, operation)
  PROVE  CentreInv'
<1>1. /\ c # window /\ task[c].step = "idle" /\ ops' = ops + 1
      /\ task' = [task EXCEPT ![c].step = "initialize", ![c].op = [operation EXCEPT !.n = ops']]
      /\ UNCHANGED <<made, state, events, centreIndex, centreCommits, lock, queue, items, listed,
                     told, withdrawn, mine, mishaps, crashes>>
  BY DEF NC!begin, NC!files, NC!git, NC!screen, NC!told
<1> QED
  BY <1>1, OperationTypes, BeginsOperation

LEMMA WindowBegins ==
  ASSUME CentreInv, NC!beginNextNotificationOperation
  PROVE  CentreInv'
<1>1. /\ task[window].step = "idle" /\ queue # <<>> /\ ops' = ops + 1
      /\ task' = [task EXCEPT ![window].step = "initialize", ![window].op = [Head(queue) EXCEPT !.n = ops']]
      /\ UNCHANGED <<made, state, events, centreIndex, centreCommits, lock, queue, items, listed,
                     told, withdrawn, mine, mishaps, crashes>>
  BY DEF NC!beginNextNotificationOperation, NC!files, NC!git, NC!screen, NC!told
<1>2. Head(queue) \in Op /\ Head(queue).kind \in Asked \cup {"refresh"}
  <2>1. queue \in Seq(Op) /\ Head(queue) = queue[1] /\ 1 \in DOMAIN queue
    BY <1>1, CentreTask1, NoteKinds
  <2> QED
    BY <1>1, <2>1 DEF CentreInv, Ready
<1> QED
  BY <1>1, <1>2, NoteKinds, BeginsOperation

\* A step of the window's screen alone.
LEMMA ScreenChanges ==
  ASSUME CentreInv, task[window].step \notin HolderSteps,
         UNCHANGED <<made, state, events, centreIndex, centreCommits, lock, told, withdrawn, mishaps, crashes>>,
         NEW step \in {"idle", "deliver", "failed"}, NC!goto(window, step), ops' = ops,
         queue' \in Seq(Op), \A i \in DOMAIN queue' : queue'[i].kind \in Asked \cup {"refresh"},
         step # "idle" => queue' # <<>>,
         mishaps \subseteq {"torn"} => Lists(items', mine' \ withdrawn),
         mishaps \subseteq {"torn"} /\ step = "deliver" => Lists(listed', {e \in Owed : e.by = window})
  PROVE  CentreInv'
<1> DEFINE t == [task[window] EXCEPT !.step = step]
<1>1. t \in CentreTask /\ task' = [task EXCEPT ![window] = t] /\ t.step = step
  BY NoteKinds, GoesTo DEF CentreSteps
<1> HIDE DEF t
<1>2. task'[window].step = step
  BY <1>1, NoteKinds, CentreTask1
<1> QED
  BY <1>1, <1>2, NoteKinds, CentreTask1, CentreTaskChanges DEF HolderSteps

\* The worker lists the state: everything owed is on it.
LEMMA Listed ==
  ASSUME CentreInv, NC!list
  PROVE  CentreInv'
<1>1. /\ task[window].step = "list"
      /\ UNCHANGED <<made, state, events, centreIndex, centreCommits, lock, queue, items, told, withdrawn,
                     mine, mishaps, ops, crashes>>
      /\ \/ state # NC!Unreadable /\ listed' = state /\ NC!goto(window, "deliver")
         \/ NC!goto(window, "failed")
  BY DEF NC!list, NC!listing, NC!files, NC!git, NC!told
<1>2. mishaps \subseteq {"torn"} => Lists(items, mine \ withdrawn) /\ Lists(state, {e \in Owed : e.by = window})
  BY DEF CentreInv, Kept, Lists
<1>3. queue \in Seq(Op) /\ queue # <<>> /\ \A i \in DOMAIN queue : queue[i].kind \in Asked \cup {"refresh"}
  BY <1>1, CentreTask1, NoteKinds DEF CentreInv, Ready
<1>4. CASE listed' = state /\ NC!goto(window, "deliver")
  BY <1>1, <1>2, <1>3, <1>4, ScreenChanges DEF HolderSteps
<1>5. CASE NC!goto(window, "failed")
  BY <1>1, <1>2, <1>3, <1>5, ScreenChanges DEF HolderSteps
<1> QED
  BY <1>1, <1>4, <1>5

\* The window shows what was listed, and takes the operation from its queue.
LEMMA Delivered ==
  ASSUME CentreInv, NC!deliver
  PROVE  CentreInv'
<1>1. /\ task[window].step \in {"deliver", "failed"}
      /\ UNCHANGED <<made, state, events, centreIndex, centreCommits, lock, told, withdrawn, mishaps, ops, crashes>>
      /\ \/ task[window].step = "deliver" /\ items' = listed /\ mine' = {e \in told : e.by = window}
         \/ UNCHANGED <<items, mine>>
      /\ queue' = Tail(queue) /\ NC!goto(window, "idle")
  BY DEF NC!deliver, NC!files, NC!git
<1>2. mishaps \subseteq {"torn"} => Lists(items', mine' \ withdrawn)
  BY <1>1 DEF CentreInv, Kept, Lists, Owed
<1>3. queue' \in Seq(Op) /\ \A i \in DOMAIN queue' : queue'[i].kind \in Asked \cup {"refresh"}
  <2>1. queue \in Seq(Op) /\ queue # <<>> /\ \A i \in DOMAIN queue : queue[i].kind \in Asked \cup {"refresh"}
    BY <1>1, CentreTask1, NoteKinds DEF CentreInv, Ready
  <2>2. /\ Tail(queue) \in Seq(Op) /\ DOMAIN Tail(queue) = 1 .. Len(queue) - 1
        /\ \A i \in 1 .. Len(queue) - 1 : Tail(queue)[i] = queue[i + 1] /\ i + 1 \in DOMAIN queue
    BY <2>1
  <2> QED
    BY <1>1, <2>1, <2>2
<1> QED
  BY <1>1, <1>2, <1>3, ScreenChanges DEF HolderSteps

\* The window's slots queue an operation.
LEMMA Queued ==
  ASSUME CentreInv, NEW operation \in Op, operation.kind \in Asked \cup {"refresh"},
         NC!queueNotificationOperation(operation)
  PROVE  CentreInv'
<1>1. /\ queue' = Append(queue, operation)
      /\ UNCHANGED <<task, made, state, events, centreIndex, centreCommits, lock, items, listed, told,
                     withdrawn, mine, mishaps, ops, crashes>>
  BY DEF NC!queueNotificationOperation, NC!files, NC!git, NC!told
<1>2. queue' \in Seq(Op) /\ queue' # <<>> /\ \A i \in DOMAIN queue' : queue'[i].kind \in Asked \cup {"refresh"}
  <2>1. queue \in Seq(Op) /\ \A i \in DOMAIN queue : queue[i].kind \in Asked \cup {"refresh"}
    BY CentreTask1, NoteKinds DEF CentreInv, Ready
  <2>2. /\ queue' \in Seq(Op) /\ DOMAIN queue' = 1 .. Len(queue) + 1 /\ Len(queue) \in Nat
        /\ queue'[Len(queue) + 1] = operation
        /\ \A i \in 1 .. Len(queue) : queue'[i] = queue[i] /\ i \in DOMAIN queue
    BY <1>1, <2>1
  <2> QED
    BY <2>1, <2>2
<1>3. CentreTypes' /\ Ready' /\ Exclusive'
  BY <1>1, <1>2 DEF CentreInv, CentreTypes, Ready, Exclusive
<1>4. Kept' /\ Agreed' /\ Settled'
  BY <1>1 DEF CentreInv, Kept, KeptBy, Logs, Lists, Owed, Agreed, AgreedBy, Settled, SettledBy,
             NC!Event, NC!Tree, NC!HEAD, NC!Last
<1> QED
  BY <1>3, <1>4 DEF CentreInv

-----------------------------------------------------------------------------
\* What prepared(c) answers: the store is listed, or its lock is asked for, or it cannot
\* be read.
LEMMA PreparedSteps ==
  ASSUME NEW c
  PROVE  NC!prepared(c) \in {"list", "lock", "failed"} /\ (NC!prepared(c) = "lock" => task[c].op.kind # "refresh")
BY DEF NC!prepared

\* The store is inspected without its lock.
LEMMA Initializes ==
  ASSUME CentreInv, NEW c \in Clients, NC!initialize(c)
  PROVE  CentreInv'
<1>1. /\ task[c].step = "initialize"
      /\ UNCHANGED <<made, state, events, centreIndex, centreCommits, lock, queue, items, listed,
                     told, withdrawn, mine, mishaps, ops, crashes>>
      /\ \/ centreCommits # <<>> /\ NC!goto(c, NC!prepared(c))
         \/ task' = [task EXCEPT ![c].step = "create", ![c].missing = NC!Files \ made]
         \/ NC!finish(c, FALSE)
  BY DEF NC!initialize, NC!files, NC!git, NC!screen, NC!told
<1>2. /\ task[c].op.kind \in Asked \cup {"refresh"}
      /\ queue \in Seq(Op) /\ ops \in Nat /\ \A i \in DOMAIN queue : queue[i].kind \in Asked \cup {"refresh"}
      /\ task[window].step # "idle" => queue # <<>>
  BY <1>1, CentreTask1 DEF CentreInv, Ready
<1>3. mishaps \subseteq {"torn"} => /\ Lists(items, mine \ withdrawn)
                                    /\ task[window].step = "deliver" => Lists(listed, {e \in Owed : e.by = window})
  BY DEF CentreInv, Kept
<1>4. ASSUME NEW t \in CentreTask, task' = [task EXCEPT ![c] = t], t.op = task[c].op,
             \/ t.step = "create" /\ NC!Files \ made \subseteq t.missing
             \/ t.step = "lock" /\ centreCommits # <<>> /\ t.op.kind # "refresh"
             \/ t.step \in {"list", "failed"}
      PROVE  CentreInv'
  <2>1. task'[window].step # "idle" => task[window].step # "idle"
    BY <1>1, <1>4, CentreTask1, NoteKinds
  <2>2. task'[window].step = "deliver" => task[window].step = "deliver"
    BY <1>1, <1>4, CentreTask1, NoteKinds
  <2>3. crashes' \in Nat /\ crashes' = crashes
    BY <1>1, CentreTask1
  <2>4. t.step \notin HolderSteps /\ task[c].step \notin HolderSteps
    BY <1>1, <1>4 DEF HolderSteps
  <2>5. t.step \in {"initialize", "create"} => t.op.kind \in Asked \cup {"refresh"}
    BY <1>2, <1>4
  <2>6. t.step = "lock" => centreCommits # <<>> /\ t.op.kind \in Asked
    BY <1>2, <1>4
  <2>7. t.step = "create" => NC!Files \ made \subseteq t.missing
    BY <1>4
  <2> QED
    BY <1>1, <1>2, <1>3, <1>4, <2>1, <2>2, <2>3, <2>4, <2>5, <2>6, <2>7, CentreTaskChanges
<1>5. CASE centreCommits # <<>> /\ NC!goto(c, NC!prepared(c))
  <2> DEFINE step == NC!prepared(c)
             t == [task[c] EXCEPT !.step = step]
  <2>1. step \in {"list", "lock", "failed"} /\ step \in CentreSteps /\ (step = "lock" => task[c].op.kind # "refresh")
    BY PreparedSteps DEF CentreSteps
  <2> HIDE DEF step
  <2>2. t \in CentreTask /\ task' = [task EXCEPT ![c] = t] /\ t.step = step /\ t.op = task[c].op
    BY <1>5, <2>1, GoesTo DEF step
  <2> HIDE DEF t
  <2> QED
    BY <1>4, <1>5, <2>1, <2>2
<1>6. CASE task' = [task EXCEPT ![c].step = "create", ![c].missing = NC!Files \ made]
  <2> DEFINE t == [task[c] EXCEPT !.step = "create", !.missing = NC!Files \ made]
  <2>1. t \in CentreTask /\ t.step = "create" /\ t.missing = NC!Files \ made /\ t.op = task[c].op
    BY CentreTask1 DEF CentreTask, CentreSteps
  <2>2. task' = [task EXCEPT ![c] = t]
    <3>1. task' = [task EXCEPT ![c] = [[@ EXCEPT !.step = "create"] EXCEPT !.missing = NC!Files \ made]]
      BY <1>6, CentreTask1 DEF CentreTask
    <3> QED
      BY <3>1, CentreTask1 DEF CentreTask
  <2> HIDE DEF t
  <2> QED
    BY <1>4, <2>1, <2>2
<1>7. CASE NC!finish(c, FALSE)
  <2>1. task[c].step \notin HolderSteps /\ task[c].step # "idle"
    BY <1>1 DEF HolderSteps
  <2> QED
    BY <1>1, <1>7, <2>1, FinishKeeps
<1> QED
  BY <1>1, <1>5, <1>6, <1>7

-----------------------------------------------------------------------------
\* While one client has the lock, no other is between its lock and its end.
LEMMA OthersWait ==
  ASSUME CentreInv, NEW c \in Clients, task[c].step \in HolderSteps \/ lock = NC!nobody,
         NEW d \in Clients, d # c
  PROVE  task[d].step \notin HolderSteps
BY NoteKinds DEF CentreInv, Exclusive

\* A step of the client that has the lock, or takes it: the other clients' work is not
\* touched, so what holds for this one is enough.
LEMMA OwnerSteps ==
  ASSUME CentreInv, NEW c \in Clients, NEW t \in CentreTask,
         \A d \in Clients \ {c} : task[d].step \notin HolderSteps,
         task' = [task EXCEPT ![c] = t],
         \/ t.step \in HolderSteps /\ lock' = c
         \/ t.step \in {"idle", "list", "failed"} /\ lock' = NC!nobody,
         task[c].step # "idle", c = window => t.step # "idle",
         t.step \in {"write", "append", "commit"} => t.op.kind \in Asked \ {"undo"},
         t.step = "revert" => Len(centreCommits') >= 2,
         UNCHANGED <<made, queue, items, listed, mine, ops>>, made = NC!Files, crashes' \in Nat,
         state' \in SUBSET Note, events' \in Seq(EventType), centreIndex' \in TreeType,
         centreCommits' \in Seq(TreeType), centreCommits' # <<>>, centreCommits # <<>>,
         mishaps \subseteq mishaps', crashes' = 0 => crashes = 0,
         withdrawn \subseteq withdrawn', \A e \in told' : e \in told \/ e.by = c,
         (mishaps \subseteq {"torn"} => Logs(events) /\ Lists(state, Owed) /\ KeptBy(c))',
         (mishaps = {} => /\ lock = NC!nobody => Matches(NC!Tree)
                          /\ \A i \in DOMAIN centreCommits : Matches(centreCommits[i])
                          /\ AgreedBy(c))',
         (mishaps = {} /\ crashes = 0 => (lock = NC!nobody => NC!HEAD = NC!Tree) /\ SettledBy(c))'
  PROVE  CentreInv'
<1>1. \A d \in Clients : task'[d] = IF d = c THEN t ELSE task[d]
  BY DEF CentreInv, CentreTypes
<1>2. CentreTypes'
  BY DEF CentreInv, CentreTypes
<1>3. Exclusive'
  BY <1>1, NoteKinds DEF Exclusive, HolderSteps
<1>4. Ready'
  BY <1>1, NoteKinds DEF CentreInv, Ready, HolderSteps
<1>5. Kept'
  <2> SUFFICES ASSUME mishaps' \subseteq {"torn"} PROVE Kept'
    BY DEF Kept
  <2>1. mishaps \subseteq {"torn"}
    OBVIOUS
  <2>2. Lists(items, mine \ withdrawn)'
    <3>1. Lists(items, mine \ withdrawn)
      BY <2>1 DEF CentreInv, Kept
    <3> QED
      BY <3>1 DEF Lists
  <2>3. ASSUME task'[window].step = "deliver" PROVE Lists(listed, {e \in Owed : e.by = window})'
    <3>1. c # window /\ task[window].step = "deliver"
      BY <1>1, <2>3, NoteKinds DEF HolderSteps
    <3>2. Lists(listed, {e \in Owed : e.by = window})
      BY <2>1, <3>1 DEF CentreInv, Kept
    <3> QED
      BY <3>1, <3>2 DEF Lists, Owed
  <2>4. \A d \in Clients : d # c => KeptBy(d)'
    BY <1>1 DEF KeptBy, HolderSteps
  <2> QED
    BY <2>2, <2>3, <2>4 DEF Kept
<1>6. Agreed'
  <2>1. \A d \in Clients : d # c => AgreedBy(d)'
    BY <1>1 DEF AgreedBy, HolderSteps
  <2> QED
    BY <2>1 DEF Agreed
<1>7. Settled'
  <2>1. \A d \in Clients : d # c => SettledBy(d)'
    BY <1>1 DEF SettledBy, HolderSteps
  <2> QED
    BY <2>1 DEF Settled
<1> QED
  BY <1>2, <1>3, <1>4, <1>5, <1>6, <1>7 DEF CentreInv

\* What the invariant says of the client that has the lock, and of the files.
LEMMA Owner ==
  ASSUME CentreInv, NEW c \in Clients, task[c].step \in HolderSteps
  PROVE  /\ lock = c /\ lock # NC!nobody /\ centreCommits # <<>> /\ made = NC!Files
         /\ \A d \in Clients \ {c} : task[d].step \notin HolderSteps
         /\ task[c].step \in {"write", "append", "commit"} => task[c].op.kind \in Asked \ {"undo"}
         /\ mishaps \subseteq {"torn"} => Logs(events) /\ Lists(state, Owed) /\ KeptBy(c)
         /\ mishaps = {} => (\A i \in DOMAIN centreCommits : Matches(centreCommits[i])) /\ AgreedBy(c)
         /\ mishaps = {} /\ crashes = 0 => SettledBy(c)
<1>1. lock = c /\ lock # NC!nobody /\ \A d \in Clients \ {c} : task[d].step \notin HolderSteps
  BY NoteKinds DEF CentreInv, Exclusive
<1>2. /\ centreCommits # <<>> /\ made = NC!Files
      /\ task[c].step \in {"write", "append", "commit"} => task[c].op.kind \in Asked \ {"undo"}
  BY DEF CentreInv, Ready
<1>3. /\ mishaps \subseteq {"torn"} => Logs(events) /\ Lists(state, Owed) /\ KeptBy(c)
      /\ mishaps = {} => (\A i \in DOMAIN centreCommits : Matches(centreCommits[i])) /\ AgreedBy(c)
      /\ mishaps = {} /\ crashes = 0 => SettledBy(c)
  BY DEF CentreInv, Kept, Agreed, Settled
<1> QED
  BY <1>1, <1>2, <1>3

\* An operation that is refused, or finds one like it, ends without having changed anything.
LEMMA Refused ==
  ASSUME CentreInv, NEW c \in Clients, NEW success, NC!finish(c, success), task[c].step = "lock",
         UNCHANGED <<NC!files, NC!git, lock, NC!screen, NC!told, mishaps, ops, crashes>>
  PROVE  CentreInv'
<1>1. task[c].step \notin HolderSteps /\ task[c].step # "idle"
  BY DEF HolderSteps
<1>2. UNCHANGED <<made, state, events, centreIndex, centreCommits, lock, queue, items, listed,
                  told, withdrawn, mine, mishaps, ops, crashes>>
  BY DEF NC!files, NC!git, NC!screen, NC!told
<1> QED
  BY <1>1, <1>2, FinishKeeps

\* The lock is taken, and the files are read under it.
LEMMA Locks ==
  ASSUME CentreInv, NEW c \in Clients, NC!tryLock(c)
  PROVE  CentreInv'
<1>1. /\ task[c].step = "lock"
      /\ UNCHANGED <<made, state, events, centreIndex, centreCommits, queue, items, listed, told, withdrawn,
                     mine, mishaps, ops, crashes>>
  BY DEF NC!tryLock, NC!files, NC!git, NC!told
<1>2. CASE /\ lock = NC!nobody /\ NC!Accepted(c) /\ lock' = c
           /\ task' = [task EXCEPT ![c].previous = NC!Tree,
                                   ![c].step = IF task[c].op.kind = "undo" THEN "revert" ELSE "write"]
  <2> DEFINE step == IF task[c].op.kind = "undo" THEN "revert" ELSE "write"
             t == [task[c] EXCEPT !.previous = NC!Tree, !.step = step]
  <2>1. /\ NC!Tree \in TreeType /\ NC!Tree.state = state /\ NC!Tree.events = events
        /\ step \in CentreSteps /\ step \in {"revert", "write"}
    BY DEF NC!Tree, TreeType, CentreInv, CentreTypes, CentreSteps, HolderSteps
  <2>2. (step = "revert" <=> task[c].op.kind = "undo")
    OBVIOUS
  <2> HIDE DEF step
  <2>3. t \in CentreTask /\ t.step = step /\ t.previous = NC!Tree /\ t.op = task[c].op
    BY <2>1, CentreTask1 DEF CentreTask
  <2>4. task' = [task EXCEPT ![c] = t]
    <3>1. task' = [task EXCEPT ![c] = [[@ EXCEPT !.previous = NC!Tree] EXCEPT !.step = step]]
      BY <1>2, CentreTask1 DEF CentreTask, step
    <3> QED
      BY <3>1, CentreTask1 DEF CentreTask
  <2> HIDE DEF t
  <2>5. task'[c] = t /\ NC!Tree' = NC!Tree /\ NC!HEAD' = NC!HEAD
    BY <1>1, <2>4, CentreTask1 DEF NC!Tree, NC!HEAD, NC!Last
  <2>6. /\ centreCommits # <<>> /\ task[c].op.kind \in Asked /\ made = NC!Files
        /\ \A d \in Clients \ {c} : task[d].step \notin HolderSteps
    BY <1>1, <1>2, OthersWait DEF CentreInv, Ready
  <2>7. ASSUME mishaps \subseteq {"torn"} PROVE (Logs(events) /\ Lists(state, Owed) /\ KeptBy(c))'
    BY <1>1, <2>1, <2>3, <2>5, <2>7 DEF CentreInv, Kept, KeptBy, Logs, Lists, Owed
  <2>8. ASSUME mishaps = {} PROVE Matches(NC!Tree) /\ AgreedBy(c)'
    <3>1. Matches(NC!Tree)
      BY <1>2, <2>8 DEF CentreInv, Agreed
    <3>2. step = "write" => Applies(t.op, state)
      BY <1>2, <2>2, <2>3, <2>6, NoteKinds DEF NC!Accepted, Applies, Asked
    <3> QED
      BY <2>1, <2>3, <2>5, <3>1, <3>2 DEF AgreedBy
  <2>9. ASSUME mishaps = {}, crashes = 0 PROVE NC!HEAD = NC!Tree
    BY <1>2, <2>6, <2>9 DEF CentreInv, Settled
  <2>10. (mishaps = {} /\ crashes = 0 => (lock = NC!nobody => NC!HEAD = NC!Tree) /\ SettledBy(c))'
    BY <1>1, <1>2, <2>3, <2>5, <2>9, NoteKinds DEF SettledBy
  <2>11. (mishaps = {} => /\ lock = NC!nobody => Matches(NC!Tree)
                          /\ \A i \in DOMAIN centreCommits : Matches(centreCommits[i])
                          /\ AgreedBy(c))'
    BY <1>1, <2>5, <2>8 DEF CentreInv, Agreed
  <2>12. t.step \in HolderSteps /\ (t.step \in {"write", "append", "commit"} => t.op.kind \in Asked \ {"undo"})
    BY <2>1, <2>2, <2>3, <2>6 DEF HolderSteps
  <2>13. /\ state' \in SUBSET Note /\ events' \in Seq(EventType) /\ centreIndex' \in TreeType
         /\ centreCommits' \in Seq(TreeType) /\ crashes' \in Nat
    BY <1>1 DEF CentreInv, CentreTypes
  <2>14. t.step = "revert" => Len(centreCommits') >= 2
    BY <1>1, <1>2, <2>2, <2>3, NoteKinds DEF NC!Accepted
  <2> QED
    BY <1>1, <1>2, <2>1, <2>3, <2>4, <2>6, <2>7, <2>10, <2>11, <2>12, <2>13, <2>14, OwnerSteps
<1>3. CASE lock' = lock /\ NC!finish(c, FALSE)
  BY <1>1, <1>3, Refused DEF NC!files, NC!git, NC!screen, NC!told
<1> QED
  BY <1>2, <1>3 DEF NC!tryLock, NC!mayLock

\* What applying an action makes of the notifications.
LEMMA ApplyNotes ==
  ASSUME NEW s \in SUBSET Note, NEW op \in Op, op.kind \in Asked \ {"undo"}
  PROVE  /\ NC!apply(s, op.id, op.kind) \in SUBSET Note
         /\ \A n \in s : \E m \in NC!apply(s, op.id, op.kind) : m.id = n.id
         /\ op.kind \in NC!creates => \E m \in NC!apply(s, op.id, op.kind) : m.id = op.id
<1>1. CASE op.kind \in NC!creates
  <2>1. NC!apply(s, op.id, op.kind) = s \cup {NC!Notification(op.id)}
    BY <1>1, NoteKinds DEF NC!apply
  <2>2. NC!Notification(op.id) \in Note /\ NC!Notification(op.id).id = op.id
    BY DEF NC!Notification, Note, Op
  <2> QED
    BY <2>1, <2>2
<1>2. CASE op.kind \in NC!Lifecycle
  <2>1. NC!apply(s, op.id, op.kind) = {IF n.id = op.id THEN NC!changed(n, op.kind) ELSE n : n \in s}
    BY <1>2, NoteKinds DEF NC!apply
  <2>2. ASSUME NEW n \in Note PROVE NC!changed(n, op.kind) \in Note /\ NC!changed(n, op.kind).id = n.id
    BY <1>2, NoteKinds DEF NC!changed, Note
  <2> QED
    BY <1>2, <2>1, <2>2, NoteKinds
<1> QED
  BY <1>1, <1>2 DEF Asked

\* The owner of the lock goes on to its next write.
LEMMA Writes1 ==
  ASSUME CentreInv, NEW c \in Clients, task[c].step \in HolderSteps, NEW step \in HolderSteps,
         NC!goto(c, step), task[c].step \in {"write", "append", "commit"},
         step \in {"append", "commit", "rollback"},
         UNCHANGED <<made, centreCommits, lock, queue, items, listed, told, withdrawn, mine, mishaps, ops, crashes>>,
         state' \in SUBSET Note, events' \in Seq(EventType), centreIndex' \in TreeType,
         mishaps \subseteq {"torn"} => Logs(events)' /\ Lists(state, Owed)',
         mishaps \subseteq {"torn"} /\ step = "commit" => NC!Event(c) \in NC!ToSet(events'),
         mishaps \subseteq {"torn"} /\ step \in {"append", "commit"} => Lists(state', {NC!Event(c)}),
         mishaps = {} => Matches(task[c].previous),
         mishaps = {} /\ step = "append" =>
           /\ Applies(task[c].op, task[c].previous.state)
           /\ NC!Tree' = [state |-> NC!apply(task[c].previous.state, task[c].op.id, task[c].op.kind),
                          events |-> task[c].previous.events],
         mishaps = {} /\ step = "commit" => Matches(NC!Tree')
  PROVE  CentreInv'
<1> DEFINE t == [task[c] EXCEPT !.step = step]
<1>1. /\ t \in CentreTask /\ task' = [task EXCEPT ![c] = t] /\ t.step = step
      /\ t.op = task[c].op /\ t.previous = task[c].previous
  BY GoesTo DEF CentreSteps
<1> HIDE DEF t
<1>2. task'[c] = t /\ NC!Event(c)' = NC!Event(c) /\ Owed' = Owed /\ NC!HEAD' = NC!HEAD
  BY <1>1, CentreTask1 DEF NC!Event, Owed, NC!HEAD, NC!Last
<1>3. ASSUME mishaps \subseteq {"torn"} PROVE KeptBy(c)'
  <2>1. Logs(task[c].previous.events) /\ Lists(task[c].previous.state, Owed)
    BY <1>3, Owner DEF KeptBy
  <2> QED
    BY <1>1, <1>2, <1>3, <2>1 DEF KeptBy, Logs
<1>4. ASSUME mishaps = {} PROVE AgreedBy(c)'
  BY <1>1, <1>2, <1>4 DEF AgreedBy
<1>5. ASSUME mishaps = {}, crashes = 0 PROVE SettledBy(c)'
  <2>1. NC!HEAD = task[c].previous
    BY <1>5, Owner DEF SettledBy
  <2> QED
    BY <1>1, <1>2, <2>1 DEF SettledBy
<1>6. /\ lock = c /\ lock # NC!nobody /\ centreCommits # <<>> /\ made = NC!Files
      /\ \A d \in Clients \ {c} : task[d].step \notin HolderSteps
      /\ task[c].op.kind \in Asked \ {"undo"}
      /\ mishaps = {} => \A i \in DOMAIN centreCommits : Matches(centreCommits[i])
  BY Owner
<1>7. centreCommits' \in Seq(TreeType) /\ crashes' \in Nat
  BY DEF CentreInv, CentreTypes
<1>8. (mishaps = {} => /\ lock = NC!nobody => Matches(NC!Tree)
                       /\ \A i \in DOMAIN centreCommits : Matches(centreCommits[i])
                       /\ AgreedBy(c))'
  BY <1>4, <1>6
<1>9. (mishaps = {} /\ crashes = 0 => (lock = NC!nobody => NC!HEAD = NC!Tree) /\ SettledBy(c))'
  BY <1>5, <1>6
<1>10. (mishaps \subseteq {"torn"} => Logs(events) /\ Lists(state, Owed) /\ KeptBy(c))'
  BY <1>3
<1>11. task[c].step # "idle" /\ t.step # "idle" /\ t.step # "revert"
  BY <1>1
<1> QED
  BY <1>1, <1>6, <1>7, <1>8, <1>9, <1>10, <1>11, OwnerSteps

\* notifications.json is written first,
LEMMA WritesState ==
  ASSUME CentreInv, NEW c \in Clients, NC!write(c)
  PROVE  CentreInv'
<1>1. /\ task[c].step = "write"
      /\ UNCHANGED <<made, events, centreIndex, centreCommits, lock, queue, items, listed, told, withdrawn,
                     mine, mishaps, ops, crashes>>
      /\ \/ /\ state' = NC!apply(task[c].previous.state, task[c].op.id, task[c].op.kind)
            /\ NC!goto(c, "append")
         \/ NC!goto(c, "rollback") /\ state' = state
  BY DEF NC!write, NC!git, NC!screen, NC!told
<1>2. task[c].step \in HolderSteps /\ "append" \in HolderSteps /\ "rollback" \in HolderSteps
  BY <1>1 DEF HolderSteps
<1>3. /\ task[c].op.kind \in Asked \ {"undo"}
      /\ mishaps \subseteq {"torn"} =>
           /\ Logs(events) /\ Lists(state, Owed)
           /\ Lists(task[c].previous.state, Owed)
      /\ mishaps = {} => /\ Matches(task[c].previous) /\ NC!Tree = task[c].previous
                         /\ Applies(task[c].op, task[c].previous.state)
  BY <1>1, <1>2, Owner DEF KeptBy, AgreedBy
<1>4. /\ task[c].previous.state \in SUBSET Note /\ state \in SUBSET Note /\ events \in Seq(EventType)
      /\ centreIndex \in TreeType /\ task[c].op \in Op /\ task[c].previous \in TreeType
  BY CentreTask1 DEF TreeType, CentreInv, CentreTypes
<1>5. Owed' = Owed /\ (Logs(events)' <=> Logs(events))
  BY <1>1 DEF Owed, Logs
<1>6. CASE state' = NC!apply(task[c].previous.state, task[c].op.id, task[c].op.kind) /\ NC!goto(c, "append")
  <2>1. /\ state' \in SUBSET Note /\ (\A n \in task[c].previous.state : \E m \in state' : m.id = n.id)
        /\ task[c].op.kind \in NC!creates => \E m \in state' : m.id = task[c].op.id
    <3> DEFINE s == task[c].previous.state
               op == task[c].op
    <3>1. s \in SUBSET Note /\ op \in Op /\ op.kind \in Asked \ {"undo"}
      BY <1>3, <1>4
    <3> HIDE DEF s, op
    <3>2. /\ NC!apply(s, op.id, op.kind) \in SUBSET Note
          /\ \A n \in s : \E m \in NC!apply(s, op.id, op.kind) : m.id = n.id
          /\ op.kind \in NC!creates => \E m \in NC!apply(s, op.id, op.kind) : m.id = op.id
      BY <3>1, ApplyNotes
    <3>3. state' = NC!apply(s, op.id, op.kind)
      BY <1>6 DEF s, op
    <3>4. /\ state' \in SUBSET Note /\ (\A n \in s : \E m \in state' : m.id = n.id)
          /\ op.kind \in NC!creates => \E m \in state' : m.id = op.id
      BY <3>2, <3>3
    <3> QED
      BY <3>4 DEF s, op
  <2>2. mishaps \subseteq {"torn"} => Lists(state', Owed) /\ Lists(state', {NC!Event(c)})
    BY <1>3, <2>1 DEF Lists, NC!Event
  <2>3. mishaps = {} => NC!Tree' = [state |-> NC!apply(task[c].previous.state, task[c].op.id, task[c].op.kind),
                                    events |-> task[c].previous.events]
    BY <1>1, <1>3, <1>6 DEF NC!Tree
  <2>4. mishaps \subseteq {"torn"} => Logs(events)' /\ Lists(state, Owed)'
    BY <1>3, <1>5, <2>2
  <2> QED
    BY <1>1, <1>2, <1>3, <1>4, <1>6, <2>1, <2>2, <2>3, <2>4, Writes1
<1>7. CASE NC!goto(c, "rollback") /\ state' = state
  <2>1. mishaps \subseteq {"torn"} => Logs(events)' /\ Lists(state, Owed)'
    BY <1>3, <1>5, <1>7
  <2> QED
    BY <1>1, <1>2, <1>3, <1>4, <1>7, <2>1, Writes1
<1> QED
  BY <1>1, <1>6, <1>7

\* The event of an operation says what the operation is.
LEMMA EventTypes ==
  ASSUME CentreInv, NEW c \in Clients
  PROVE  /\ NC!Event(c) \in EventType /\ NC!Event(c).id = task[c].op.id /\ NC!Event(c).action = task[c].op.kind
         /\ NC!Event(c).by = c
BY CentreTask1 DEF NC!Event, EventType, Op

\* the event is appended then: now both files match again,
LEMMA AppendsEvent ==
  ASSUME CentreInv, NEW c \in Clients, NC!append(c)
  PROVE  CentreInv'
<1>1. /\ task[c].step = "append"
      /\ UNCHANGED <<made, state, centreIndex, centreCommits, lock, queue, items, listed, told, withdrawn,
                     mine, mishaps, ops, crashes>>
      /\ \/ events' = Append(events, NC!Event(c)) /\ NC!goto(c, "commit")
         \/ NC!goto(c, "rollback") /\ events' = events
  BY DEF NC!append, NC!git, NC!screen, NC!told
<1>2. task[c].step \in HolderSteps /\ "commit" \in HolderSteps /\ "rollback" \in HolderSteps
  BY <1>1 DEF HolderSteps
<1>3. /\ task[c].op.kind \in Asked \ {"undo"}
      /\ mishaps \subseteq {"torn"} => Logs(events) /\ Lists(state, Owed) /\ Lists(state, {NC!Event(c)})
      /\ mishaps = {} => /\ Matches(task[c].previous) /\ Applies(task[c].op, task[c].previous.state)
                         /\ NC!Tree = [state |-> NC!apply(task[c].previous.state, task[c].op.id, task[c].op.kind),
                                       events |-> task[c].previous.events]
  BY <1>1, <1>2, Owner DEF KeptBy, AgreedBy
<1>4. /\ state \in SUBSET Note /\ events \in Seq(EventType)
      /\ centreIndex \in TreeType /\ task[c].op \in Op /\ task[c].previous \in TreeType
  BY CentreTask1 DEF CentreInv, CentreTypes
<1>5. Owed' = Owed
  BY <1>1 DEF Owed
<1>6. CASE events' = Append(events, NC!Event(c)) /\ NC!goto(c, "commit")
  <2>1. events' \in Seq(EventType) /\ NC!ToSet(events') = NC!ToSet(events) \cup {NC!Event(c)}
    <3>1. /\ events' \in Seq(EventType) /\ DOMAIN events' = 1 .. Len(events) + 1 /\ DOMAIN events = 1 .. Len(events)
          /\ Len(events) \in Nat /\ events'[Len(events) + 1] = NC!Event(c)
          /\ \A i \in 1 .. Len(events) : events'[i] = events[i]
      BY <1>4, <1>6, EventTypes
    <3> QED
      BY <3>1 DEF NC!ToSet
  <2>2. mishaps = {} => Matches(NC!Tree')
    <3>1. NC!Tree' = [state |-> state, events |-> Append(events, NC!Event(c))]
      BY <1>1, <1>6 DEF NC!Tree
    <3>2. NC!Tree.state = state /\ NC!Tree.events = events
      BY DEF NC!Tree
    <3> QED
      <4> DEFINE tree == task[c].previous
                 op == task[c].op
                 e == NC!Event(c)
      <4>1. /\ e \in EventType /\ e.id = op.id /\ e.action = op.kind
            /\ op \in Op /\ op.kind \in Asked \ {"undo"} /\ tree \in TreeType
        BY <1>3, <1>4, EventTypes
      <4>2. mishaps = {} => Matches(tree) /\ Applies(op, tree.state)
        BY <1>3
      <4>3. mishaps = {} => state = NC!apply(tree.state, op.id, op.kind) /\ events = tree.events
        BY <1>3, <3>2
      <4> HIDE DEF tree, op, e
      <4>4. mishaps = {} => Matches([state |-> NC!apply(tree.state, op.id, op.kind), events |-> Append(tree.events, e)])
        BY <4>1, <4>2, MatchesAppend
      <4> QED
        BY <3>1, <4>3, <4>4 DEF e
  <2>3. mishaps \subseteq {"torn"} => Logs(events)' /\ Lists(state, Owed)' /\ NC!Event(c) \in NC!ToSet(events')
    BY <1>1, <1>3, <1>5, <2>1 DEF Logs
  <2>4. mishaps \subseteq {"torn"} => Lists(state', {NC!Event(c)})
    BY <1>1, <1>3
  <2> QED
    BY <1>1, <1>2, <1>3, <1>4, <1>6, <2>1, <2>2, <2>3, <2>4, Writes1
<1>7. CASE NC!goto(c, "rollback") /\ events' = events
  <2>1. mishaps \subseteq {"torn"} => Logs(events)' /\ Lists(state, Owed)'
    BY <1>1, <1>3, <1>5, <1>7 DEF Logs
  <2> QED
    BY <1>1, <1>2, <1>3, <1>4, <1>7, <2>1, Writes1
<1> QED
  BY <1>1, <1>6, <1>7

\* The client that has the lock ends, and gives it back.
LEMMA OwnerEnds ==
  ASSUME CentreInv, NEW c \in Clients, task[c].step \in HolderSteps,
         \E step \in {"idle", "list", "failed"} :
           task' = [task EXCEPT ![c] = NC!AtRest(step)] /\ (c = window => step # "idle"),
         lock' = NC!released(c),
         UNCHANGED <<made, queue, items, listed, mine, ops>>, crashes' \in Nat,
         state' \in SUBSET Note, events' \in Seq(EventType), centreIndex' \in TreeType,
         centreCommits' \in Seq(TreeType), centreCommits' # <<>>,
         mishaps \subseteq mishaps', crashes' = 0 => crashes = 0,
         withdrawn \subseteq withdrawn', \A e \in told' : e \in told \/ e.by = c,
         mishaps' \subseteq {"torn"} => Logs(events)' /\ Lists(state, Owed)',
         mishaps' = {} => Matches(NC!Tree)' /\ \A i \in DOMAIN centreCommits' : Matches(centreCommits'[i]),
         mishaps' = {} /\ crashes' = 0 => NC!HEAD' = NC!Tree'
  PROVE  CentreInv'
<1>1. PICK step \in {"idle", "list", "failed"} :
        task' = [task EXCEPT ![c] = NC!AtRest(step)] /\ (c = window => step # "idle")
  OBVIOUS
<1> DEFINE t == NC!AtRest(step)
<1>2. t \in CentreTask /\ t.step = step
  BY CentreConstants DEF CentreSteps
<1> HIDE DEF t
<1>3. task'[c] = t
  BY <1>1, CentreTask1 DEF t
<1>4. /\ lock = c /\ lock' = NC!nobody /\ centreCommits # <<>> /\ made = NC!Files
      /\ \A d \in Clients \ {c} : task[d].step \notin HolderSteps
  BY Owner DEF NC!released
<1>5. KeptBy(c)' /\ AgreedBy(c)' /\ SettledBy(c)'
  BY <1>2, <1>3 DEF KeptBy, AgreedBy, SettledBy
<1>6. task[c].step # "idle" /\ t.step \in {"idle", "list", "failed"} /\ (c = window => t.step # "idle")
  BY <1>1, <1>2 DEF HolderSteps
<1>7. (mishaps \subseteq {"torn"} => Logs(events) /\ Lists(state, Owed) /\ KeptBy(c))'
  BY <1>5
<1>8. (mishaps = {} => /\ lock = NC!nobody => Matches(NC!Tree)
                       /\ \A i \in DOMAIN centreCommits : Matches(centreCommits[i])
                       /\ AgreedBy(c))'
  BY <1>5
<1>9. (mishaps = {} /\ crashes = 0 => (lock = NC!nobody => NC!HEAD = NC!Tree) /\ SettledBy(c))'
  BY <1>5
<1>10. (t.step \in {"write", "append", "commit"} => t.op.kind \in Asked \ {"undo"}) /\ t.step # "revert"
  BY <1>6
<1>11. task' = [task EXCEPT ![c] = t]
  BY <1>1 DEF t
<1> QED
  BY <1>2, <1>4, <1>6, <1>7, <1>8, <1>9, <1>10, <1>11, OwnerSteps

\* The commit put behind the others.
LEMMA CommitsAppend ==
  ASSUME CentreInv, NEW tree \in TreeType, centreCommits' = Append(centreCommits, tree)
  PROVE  /\ centreCommits' \in Seq(TreeType) /\ centreCommits' # <<>> /\ NC!HEAD' = tree
         /\ (\A i \in DOMAIN centreCommits : Matches(centreCommits[i])) /\ Matches(tree) =>
              \A i \in DOMAIN centreCommits' : Matches(centreCommits'[i])
<1>1. centreCommits \in Seq(TreeType)
  BY DEF CentreInv, CentreTypes
<1>2. /\ centreCommits' \in Seq(TreeType) /\ Len(centreCommits') = Len(centreCommits) + 1
      /\ DOMAIN centreCommits' = 1 .. Len(centreCommits) + 1 /\ DOMAIN centreCommits = 1 .. Len(centreCommits)
      /\ Len(centreCommits) \in Nat /\ centreCommits'[Len(centreCommits) + 1] = tree
      /\ \A i \in 1 .. Len(centreCommits) : centreCommits'[i] = centreCommits[i]
  BY <1>1
<1>3. NC!HEAD' = tree
  BY <1>2 DEF NC!HEAD, NC!Last
<1> QED
  BY <1>2, <1>3

\* The two files are a tree to commit.
LEMMA TreeIsTree == CentreInv => NC!Tree \in TreeType /\ NC!Tree.state = state /\ NC!Tree.events = events
BY DEF NC!Tree, TreeType, CentreInv, CentreTypes

\* and both are committed, or put back.
LEMMA CommitsBoth ==
  ASSUME CentreInv, NEW c \in Clients, NC!commit(c)
  PROVE  CentreInv'
<1>1. /\ task[c].step = "commit"
      /\ UNCHANGED <<made, state, events, queue, items, listed, withdrawn, mine, mishaps, ops, crashes>>
  BY DEF NC!commit, NC!files, NC!screen
<1>2. task[c].step \in HolderSteps /\ "rollback" \in HolderSteps
  BY <1>1 DEF HolderSteps
<1>3. /\ mishaps \subseteq {"torn"} => /\ Logs(events) /\ Lists(state, Owed)
                                       /\ NC!Event(c) \in NC!ToSet(events) /\ Lists(state, {NC!Event(c)})
                                       /\ Logs(task[c].previous.events) /\ Lists(task[c].previous.state, Owed)
      /\ mishaps = {} => /\ Matches(NC!Tree) /\ \A i \in DOMAIN centreCommits : Matches(centreCommits[i])
                         /\ Matches(task[c].previous)
  BY <1>1, <1>2, Owner DEF KeptBy, AgreedBy
<1>4. /\ state \in SUBSET Note /\ events \in Seq(EventType) /\ centreIndex \in TreeType /\ crashes \in Nat
      /\ NC!Tree \in TreeType /\ NC!Tree' = NC!Tree
  BY <1>1, TreeIsTree DEF CentreInv, CentreTypes, NC!Tree
<1>5. CASE /\ centreIndex' = NC!Tree /\ centreCommits' = Append(centreCommits, NC!Tree)
           /\ lock' = NC!released(c) /\ NC!finish(c, TRUE) /\ told' = told \cup {NC!Event(c)}
  <2>1. /\ centreCommits' \in Seq(TreeType) /\ centreCommits' # <<>> /\ NC!HEAD' = NC!Tree
        /\ mishaps = {} => \A i \in DOMAIN centreCommits' : Matches(centreCommits'[i])
    BY <1>3, <1>4, <1>5, CommitsAppend
  <2>2. mishaps \subseteq {"torn"} => Logs(events)' /\ Lists(state, Owed)'
    BY <1>1, <1>3, <1>5 DEF Logs, Lists, Owed
  <2>3. \A e \in told' : e \in told \/ e.by = c
    BY <1>5, EventTypes
  <2>4. \E step \in {"idle", "list", "failed"} :
          task' = [task EXCEPT ![c] = NC!AtRest(step)] /\ (c = window => step # "idle")
    BY <1>5, Finishes
  <2>5. mishaps' = {} => Matches(NC!Tree)'
    BY <1>1, <1>3, <1>4
  <2>6. mishaps' = {} /\ crashes' = 0 => NC!HEAD' = NC!Tree'
    BY <1>4, <2>1
  <2> QED
    BY <1>1, <1>2, <1>4, <1>5, <2>1, <2>2, <2>3, <2>4, <2>5, <2>6, OwnerEnds
<1>6. CASE centreIndex' \in {centreIndex, NC!Tree} /\ NC!goto(c, "rollback") /\ UNCHANGED <<centreCommits, lock, told>>
  <2>1. mishaps \subseteq {"torn"} => Logs(events)' /\ Lists(state, Owed)'
    BY <1>1, <1>3, <1>6 DEF Logs, Owed
  <2> QED
    BY <1>1, <1>2, <1>3, <1>4, <1>6, <2>1, Writes1
<1> QED
  BY <1>5, <1>6 DEF NC!commit, NC!success


\* What a rollback does to the files: each gets its earlier bytes or keeps what it has,
\* and one that could not be read may be emptied.
PutBack(c) ==
  \E unread \in SUBSET NC!Files :
    LET bytes == NC!Restored(c, unread)
        emptied == IF unread = {} THEN {} ELSE {"emptied"}
    IN  \/ /\ state' = bytes[1] /\ events' = bytes[2]
           /\ mishaps' = mishaps \cup emptied
        \/ /\ state' \in {state, bytes[1]} /\ events' \in {events, bytes[2]}
           /\ mishaps' = mishaps \cup emptied \cup {"torn"}

LEMMA PuttingBack ==
  ASSUME NEW c \in Clients, PutBack(c),
         task[c].previous.state \in SUBSET Note, task[c].previous.events \in Seq(EventType),
         state \in SUBSET Note, events \in Seq(EventType)
  PROVE  /\ state' \in SUBSET Note /\ events' \in Seq(EventType) /\ mishaps \subseteq mishaps'
         /\ mishaps' \subseteq {"torn"} => /\ state' \in {state, task[c].previous.state}
                                            /\ events' \in {events, task[c].previous.events}
         /\ mishaps' = {} => state' = task[c].previous.state /\ events' = task[c].previous.events
<1> DEFINE bytes(unread) == NC!Restored(c, unread)
<1>1. ASSUME NEW unread \in SUBSET NC!Files
      PROVE  bytes(unread)[1] \in SUBSET Note /\ bytes(unread)[2] \in Seq(EventType)
  <2>1. NC!Unreadable \in SUBSET Note
    BY DEF NC!Unreadable, NC!Notification, Note, NoteId
  <2>2. bytes(unread)[1] \in {NC!Unreadable, task[c].previous.state}
    BY DEF NC!Restored
  <2>3. bytes(unread)[2] \in {<<>>, task[c].previous.events}
    BY DEF NC!Restored
  <2>4. <<>> \in Seq(EventType)
    OBVIOUS
  <2> QED
    BY <2>1, <2>2, <2>3, <2>4
<1>2. bytes({})[1] = task[c].previous.state /\ bytes({})[2] = task[c].previous.events
  BY DEF NC!Restored
<1> HIDE DEF bytes
<1>3. PICK unread \in SUBSET NC!Files :
        \/ /\ state' = bytes(unread)[1] /\ events' = bytes(unread)[2]
           /\ mishaps' = mishaps \cup (IF unread = {} THEN {} ELSE {"emptied"})
        \/ /\ state' \in {state, bytes(unread)[1]} /\ events' \in {events, bytes(unread)[2]}
           /\ mishaps' = mishaps \cup (IF unread = {} THEN {} ELSE {"emptied"}) \cup {"torn"}
  BY DEF PutBack, bytes
<1>4. unread # {} => "emptied" \in mishaps'
  BY <1>3
<1>5. mishaps' \subseteq {"torn"} => unread = {}
  BY <1>4
<1>6. mishaps \subseteq mishaps' /\ (mishaps' = {} => ~("torn" \in mishaps'))
  BY <1>3
<1>7. mishaps' = {} => state' = bytes(unread)[1] /\ events' = bytes(unread)[2]
  BY <1>3
<1>8. state' \in {state, bytes(unread)[1]} /\ events' \in {events, bytes(unread)[2]}
  BY <1>3
<1> QED
  BY <1>1, <1>2, <1>5, <1>6, <1>7, <1>8

\* A rollback restores what was found, or leaves the files torn.
LEMMA RollsBack ==
  ASSUME CentreInv, NEW c \in Clients, NC!rollback(c)
  PROVE  CentreInv'
<1>0. /\ task[c].step = "rollback" /\ lock' = NC!released(c) /\ NC!finish(c, FALSE)
      /\ UNCHANGED <<made, centreIndex, centreCommits, queue, items, listed, told, withdrawn, mine, ops, crashes>>
      /\ PutBack(c)
  BY DEF NC!rollback, NC!git, NC!screen, NC!told, PutBack
<1>a. /\ task[c].previous.state \in SUBSET Note /\ task[c].previous.events \in Seq(EventType)
      /\ state \in SUBSET Note /\ events \in Seq(EventType)
  BY CentreTask1 DEF CentreInv, CentreTypes, TreeType
<1>1. /\ state' \in SUBSET Note /\ events' \in Seq(EventType) /\ mishaps \subseteq mishaps'
      /\ mishaps' \subseteq {"torn"} => /\ state' \in {state, task[c].previous.state}
                                         /\ events' \in {events, task[c].previous.events}
      /\ mishaps' = {} => state' = task[c].previous.state /\ events' = task[c].previous.events
  BY <1>0, <1>a, PuttingBack
<1>2. task[c].step \in HolderSteps
  BY <1>0 DEF HolderSteps
<1>3. /\ mishaps \subseteq {"torn"} => /\ Logs(events) /\ Lists(state, Owed)
                                       /\ Logs(task[c].previous.events) /\ Lists(task[c].previous.state, Owed)
      /\ mishaps = {} => Matches(task[c].previous) /\ \A i \in DOMAIN centreCommits : Matches(centreCommits[i])
      /\ mishaps = {} /\ crashes = 0 => NC!HEAD = task[c].previous
      /\ centreCommits # <<>>
  BY <1>0, <1>1, <1>2, Owner DEF KeptBy, AgreedBy, SettledBy
<1>4. /\ state' \in SUBSET Note /\ events' \in Seq(EventType) /\ centreIndex \in TreeType /\ crashes \in Nat
      /\ centreCommits \in Seq(TreeType)
      /\ task[c].previous = [state |-> task[c].previous.state, events |-> task[c].previous.events]
  BY <1>0, <1>1, CentreTask1 DEF CentreInv, CentreTypes, TreeType
<1>5. mishaps' \subseteq {"torn"} => Logs(events)' /\ Lists(state, Owed)'
  <2>1. Owed' = Owed
    BY <1>0, <1>1 DEF Owed
  <2> QED
    BY <1>1, <1>3, <2>1 DEF Logs
<1>6. mishaps' = {} => NC!Tree' = task[c].previous
  BY <1>0, <1>1, <1>4 DEF NC!Tree
<1>7. mishaps' = {} => Matches(NC!Tree)' /\ \A i \in DOMAIN centreCommits' : Matches(centreCommits'[i])
  BY <1>0, <1>1, <1>3, <1>6
<1>8. mishaps' = {} /\ crashes' = 0 => NC!HEAD' = NC!Tree'
  BY <1>0, <1>1, <1>3, <1>6 DEF NC!HEAD, NC!Last
<1>9. \E step \in {"idle", "list", "failed"} :
        task' = [task EXCEPT ![c] = NC!AtRest(step)] /\ (c = window => step # "idle")
  BY <1>0, <1>1, Finishes
<1> QED
  BY <1>0, <1>1, <1>2, <1>3, <1>4, <1>5, <1>7, <1>8, <1>9, OwnerEnds

\* An undo withdraws the last commit's event,
LEMMA Reverts ==
  ASSUME CentreInv, NEW c \in Clients, NC!revertLatest(c)
  PROVE  CentreInv'
<1> DEFINE parent == centreCommits[Len(centreCommits) - 1]
           t == [task[c] EXCEPT !.step = "revertCommit"]
<1>1. /\ task[c].step = "revert" /\ NC!goto(c, "revertCommit")
      /\ UNCHANGED <<made, centreCommits, lock, queue, items, listed, told, mine, mishaps, ops, crashes>>
      /\ state' = parent.state /\ events' = parent.events /\ centreIndex' = parent
      /\ withdrawn' = withdrawn \cup NC!ToSet(events) \cup NC!ToSet(parent.events)
  BY DEF NC!revertLatest, NC!screen
<1>2. task[c].step \in HolderSteps
  BY <1>1 DEF HolderSteps
<1>3. /\ mishaps \subseteq {"torn"} => Logs(events)
      /\ mishaps = {} => \A i \in DOMAIN centreCommits : Matches(centreCommits[i])
      /\ lock = c /\ lock # NC!nobody /\ centreCommits # <<>> /\ made = NC!Files
      /\ \A d \in Clients \ {c} : task[d].step \notin HolderSteps
  BY <1>2, Owner
<1>4. Len(centreCommits) - 1 \in DOMAIN centreCommits /\ parent \in TreeType
  <2>1. centreCommits \in Seq(TreeType) /\ Len(centreCommits) >= 2
    BY <1>1 DEF CentreInv, CentreTypes, Ready
  <2> QED
    BY <2>1
<1>5. /\ t \in CentreTask /\ task' = [task EXCEPT ![c] = t] /\ t.step = "revertCommit" /\ task'[c] = t
  <2>1. t \in CentreTask /\ task' = [task EXCEPT ![c] = t] /\ t.step = "revertCommit"
    BY <1>1, GoesTo DEF CentreSteps, HolderSteps
  <2> HIDE DEF t
  <2> QED
    BY <2>1, CentreTask1
<1>6. mishaps = {} => Matches(parent)
  BY <1>3, <1>4
<1> HIDE DEF parent, t
<1>7. NC!Tree' = parent /\ parent.state \in SUBSET Note /\ parent.events \in Seq(EventType)
  BY <1>1, <1>4 DEF NC!Tree, TreeType
<1>8. mishaps \subseteq {"torn"} => Owed' = {}
  BY <1>1, <1>3 DEF Logs, Owed
<1>9. (mishaps \subseteq {"torn"} => Logs(events) /\ Lists(state, Owed) /\ KeptBy(c))'
  BY <1>1, <1>5, <1>8 DEF Logs, Lists, KeptBy
<1>10. (mishaps = {} => /\ lock = NC!nobody => Matches(NC!Tree)
                       /\ \A i \in DOMAIN centreCommits : Matches(centreCommits[i])
                       /\ AgreedBy(c))'
  BY <1>1, <1>3, <1>5, <1>6, <1>7 DEF AgreedBy
<1>11. (mishaps = {} /\ crashes = 0 => (lock = NC!nobody => NC!HEAD = NC!Tree) /\ SettledBy(c))'
  BY <1>1, <1>3, <1>5 DEF SettledBy
<1>12. centreCommits' \in Seq(TreeType) /\ crashes' \in Nat
  BY <1>1 DEF CentreInv, CentreTypes
<1>13. t.step \in HolderSteps
  BY <1>5 DEF HolderSteps
<1>14. withdrawn \subseteq withdrawn'
  BY <1>1
<1> QED
  BY <1>1, <1>3, <1>4, <1>5, <1>7, <1>9, <1>10, <1>11, <1>12, <1>13, <1>14, OwnerSteps

\* and is committed itself, or aborted.
LEMMA RevertCommits ==
  ASSUME CentreInv, NEW c \in Clients, NC!revertCommit(c)
  PROVE  CentreInv'
<1>1. /\ task[c].step = "revertCommit"
      /\ UNCHANGED <<made, queue, items, listed, withdrawn, mine, mishaps, ops, crashes>>
      /\ lock' = NC!released(c) /\ told' = told
      /\ \E success \in BOOLEAN : NC!finish(c, success)
      /\ \/ centreCommits' = Append(centreCommits, centreIndex) /\ UNCHANGED <<state, events, centreIndex>>
         \/ /\ state' = NC!HEAD.state /\ events' = NC!HEAD.events /\ centreIndex' = NC!HEAD
            /\ centreCommits' = centreCommits
  BY DEF NC!revertCommit, NC!screen, NC!success
<1>2. task[c].step \in HolderSteps
  BY <1>1 DEF HolderSteps
<1>3. /\ mishaps \subseteq {"torn"} => Owed = {}
      /\ mishaps = {} => /\ Matches(NC!Tree) /\ centreIndex = NC!Tree
                         /\ \A i \in DOMAIN centreCommits : Matches(centreCommits[i])
      /\ centreCommits # <<>>
  BY <1>1, <1>2, Owner DEF KeptBy, AgreedBy
<1>4. \E step \in {"idle", "list", "failed"} :
        task' = [task EXCEPT ![c] = NC!AtRest(step)] /\ (c = window => step # "idle")
  BY <1>1, Finishes
<1>5. /\ state \in SUBSET Note /\ events \in Seq(EventType) /\ centreIndex \in TreeType /\ crashes' \in Nat
      /\ centreCommits \in Seq(TreeType)
  BY <1>1 DEF CentreInv, CentreTypes
<1>6. mishaps' \subseteq {"torn"} => Logs(events)' /\ Lists(state, Owed)'
  <2>1. mishaps' \subseteq {"torn"} => Owed' = {}
    BY <1>1, <1>3 DEF Owed
  <2> QED
    BY <2>1 DEF Logs, Lists
<1>7. CASE centreCommits' = Append(centreCommits, centreIndex) /\ UNCHANGED <<state, events, centreIndex>>
  <2>1. NC!Tree' = NC!Tree
    BY <1>7 DEF NC!Tree
  <2>2. /\ centreCommits' \in Seq(TreeType) /\ centreCommits' # <<>> /\ NC!HEAD' = centreIndex
        /\ mishaps = {} => \A i \in DOMAIN centreCommits' : Matches(centreCommits'[i])
    BY <1>3, <1>5, <1>7, CommitsAppend
  <2>3. mishaps' = {} => Matches(NC!Tree)' /\ \A i \in DOMAIN centreCommits' : Matches(centreCommits'[i])
    BY <1>1, <1>3, <2>1, <2>2
  <2>4. mishaps' = {} /\ crashes' = 0 => NC!HEAD' = NC!Tree'
    BY <1>1, <1>3, <2>1, <2>2
  <2> QED
    BY <1>1, <1>2, <1>4, <1>5, <1>6, <1>7, <2>2, <2>3, <2>4, OwnerEnds
<1>8. CASE /\ state' = NC!HEAD.state /\ events' = NC!HEAD.events /\ centreIndex' = NC!HEAD
           /\ centreCommits' = centreCommits
  <2>1. Len(centreCommits) \in DOMAIN centreCommits /\ NC!HEAD \in TreeType /\ NC!HEAD = centreCommits[Len(centreCommits)]
    BY <1>3, <1>5 DEF NC!HEAD, NC!Last
  <2>2. NC!Tree' = NC!HEAD /\ state' \in SUBSET Note /\ events' \in Seq(EventType) /\ NC!HEAD' = NC!HEAD
    BY <1>8, <2>1 DEF NC!Tree, TreeType, NC!HEAD, NC!Last
  <2>3. mishaps' = {} => Matches(NC!Tree)' /\ \A i \in DOMAIN centreCommits' : Matches(centreCommits'[i])
    BY <1>1, <1>3, <1>8, <2>1, <2>2
  <2> QED
    BY <1>1, <1>2, <1>3, <1>4, <1>5, <1>6, <1>8, <2>1, <2>2, <2>3, OwnerEnds
<1> QED
  BY <1>1, <1>7, <1>8

\* What a client writes into a store it found incomplete, or that has no commit yet.
LEMMA Creates ==
  ASSUME CentreInv, NEW c \in Clients, NC!create(c)
  PROVE  CentreInv'
<1> DEFINE missing == task[c].missing
<1>1. /\ task[c].step = "create"
      /\ UNCHANGED <<lock, queue, items, listed, told, withdrawn, mine, ops, crashes>>
      /\ state' = IF "state" \in missing THEN {} ELSE state
      /\ mishaps' = IF missing \cap made = {} /\ lock = NC!nobody THEN mishaps ELSE mishaps \cup {"late creation"}
  BY DEF NC!create, NC!screen, NC!told
<1>2. /\ made \subseteq NC!Files /\ missing \subseteq NC!Files /\ NC!Files \ made \subseteq missing
      /\ ("events" \in made => "state" \in made) /\ ("state" \notin made => state = {})
      /\ ("events" \notin made => events = <<>>) /\ task[c].op.kind \in Asked \cup {"refresh"}
      /\ centreCommits # <<>> => made = NC!Files
  BY <1>1, CentreTask1 DEF CentreInv, Ready, CentreTask
<1>3. \E t \in CentreTask :
        /\ task' = [task EXCEPT ![c] = t] /\ t.step \in {"list", "lock", "idle", "failed"}
        /\ t.step = "lock" => centreCommits' # <<>> /\ made' = NC!Files /\ t.op.kind \in Asked
        /\ c = window => t.step # "idle"
  <2>1. CASE NC!finish(c, FALSE)
    <3>1. task' = [task EXCEPT ![c] = NC!AtRest(IF c # window THEN "idle" ELSE "failed")]
      BY <2>1 DEF NC!finish
    <3> DEFINE step == IF c # window THEN "idle" ELSE "failed"
    <3>2. step \in CentreSteps /\ step \in {"idle", "failed"} /\ (c = window => step # "idle")
      BY DEF CentreSteps
    <3> HIDE DEF step
    <3>3. NC!AtRest(step) \in CentreTask /\ NC!AtRest(step).step = step
      BY <3>2, CentreConstants
    <3> QED
      BY <3>1, <3>2, <3>3 DEF step
  <2>2. CASE made' = NC!Files /\ centreCommits' = Append(centreCommits, centreIndex') /\ NC!goto(c, NC!prepared(c))
    <3> DEFINE step == NC!prepared(c)
               t == [task[c] EXCEPT !.step = step]
    <3>1. step \in {"list", "lock", "failed"} /\ step \in CentreSteps /\ (step = "lock" => task[c].op.kind # "refresh")
      BY PreparedSteps DEF CentreSteps
    <3> HIDE DEF step
    <3>2. t \in CentreTask /\ task' = [task EXCEPT ![c] = t] /\ t.step = step /\ t.op = task[c].op
      BY <2>2, <3>1, GoesTo DEF step
    <3> HIDE DEF t
    <3>3. centreCommits' # <<>>
      <4>1. centreCommits \in Seq(TreeType)
        BY DEF CentreInv, CentreTypes
      <4> QED
        BY <2>2, <4>1
    <3> QED
      BY <1>2, <2>2, <3>1, <3>2, <3>3
  <2> QED
    BY <2>1, <2>2 DEF NC!create
<1>4. PICK t \in CentreTask :
        /\ task' = [task EXCEPT ![c] = t] /\ t.step \in {"list", "lock", "idle", "failed"}
        /\ t.step = "lock" => centreCommits' # <<>> /\ made' = NC!Files /\ t.op.kind \in Asked
        /\ c = window => t.step # "idle"
  BY <1>3, Zenon
<1>5. /\ made \subseteq made' /\ made' \subseteq NC!Files /\ ("events" \in made' => "state" \in made')
      /\ "state" \notin made' => "state" \notin made /\ "state" \notin missing
      /\ events' = events \/ (events' = <<>> /\ "events" \in missing)
      /\ \/ centreCommits' = centreCommits /\ centreIndex' = centreIndex
         \/ /\ made' = NC!Files
            /\ centreIndex' = [state |-> state', events |-> events']
            /\ centreCommits' = Append(centreCommits, centreIndex')
  BY <1>2 DEF NC!create, NC!Files, NC!git
<1>6. /\ state \in SUBSET Note /\ events \in Seq(EventType) /\ centreIndex \in TreeType /\ crashes \in Nat
      /\ centreCommits \in Seq(TreeType) /\ task \in [Clients -> CentreTask] /\ queue \in Seq(Op) /\ ops \in Nat
  BY DEF CentreInv, CentreTypes
<1>7. state' \in SUBSET Note /\ events' \in Seq(EventType)
  <2>1. {} \in SUBSET Note /\ <<>> \in Seq(EventType)
    OBVIOUS
  <2> QED
    BY <1>1, <1>5, <1>6, <2>1
<1>8. centreIndex' \in TreeType
  BY <1>5, <1>6, <1>7 DEF TreeType
<1>9. /\ centreCommits' \in Seq(TreeType) /\ Len(centreCommits') >= Len(centreCommits)
      /\ centreCommits # <<>> => centreCommits' # <<>>
  <2>1. CASE centreCommits' = centreCommits
    BY <1>6, <2>1
  <2>2. CASE centreCommits' = Append(centreCommits, centreIndex')
    <3> DEFINE tree == centreIndex'
    <3>1. tree \in TreeType /\ centreCommits' = Append(centreCommits, tree)
      BY <1>8, <2>2
    <3> HIDE DEF tree
    <3> QED
      BY <1>6, <3>1
  <2> QED
    BY <1>5, <2>1, <2>2
<1>10. task' \in [Clients -> CentreTask] /\ task'[c] = t /\ \A d \in Clients \ {c} : task'[d] = task[d]
  BY <1>4, <1>6
<1>11. CentreTypes'
  BY <1>1, <1>6, <1>7, <1>8, <1>9, <1>10 DEF CentreTypes
<1>12. task[c].step \notin HolderSteps /\ t.step \notin HolderSteps
  BY <1>1, <1>4 DEF HolderSteps
<1>13. Exclusive'
  <2>1. Exclusive
    BY DEF CentreInv
  <2> QED
    BY <1>1, <1>10, <1>12, <2>1 DEF Exclusive
<1>14. Ready'
  <2>1. Ready
    BY DEF CentreInv
  <2>2. /\ "state" \notin made' => state' = {}
        /\ "events" \notin made' => events' = <<>>
    BY <1>1, <1>2, <1>5
  <2>3. centreCommits' # <<>> => made' = NC!Files
    BY <1>2, <1>5
  <2>4. \A i \in DOMAIN queue' : queue'[i].kind \in Asked \cup {"refresh"}
    BY <1>1, <2>1 DEF Ready
  <2>5. task'[window].step # "idle" => queue' # <<>>
    BY <1>1, <1>10, <2>1, NoteKinds DEF Ready
  <2>6. ASSUME NEW d \in Clients
        PROVE  /\ task'[d].step \in {"initialize", "create"} => task'[d].op.kind \in Asked \cup {"refresh"}
               /\ task'[d].step = "create" => NC!Files \ made' \subseteq task'[d].missing
               /\ task'[d].step \in HolderSteps \cup {"lock"} => centreCommits' # <<>>
               /\ task'[d].step = "revert" => Len(centreCommits') >= 2
               /\ task'[d].step = "lock" => task'[d].op.kind \in Asked
               /\ task'[d].step \in {"write", "append", "commit"} => task'[d].op.kind \in Asked \ {"undo"}
    <3>1. CASE d = c
      BY <1>4, <1>10, <1>12, <3>1 DEF HolderSteps
    <3>2. CASE d # c
      <4>1. Len(centreCommits) \in Nat /\ Len(centreCommits') \in Nat
        BY <1>6, <1>9
      <4> QED
        BY <1>5, <1>9, <1>10, <2>1, <3>2, <4>1 DEF Ready
    <3> QED
      BY <3>1, <3>2
  <2> QED
    BY <1>5, <2>2, <2>3, <2>4, <2>5, <2>6 DEF Ready
<1>15. CASE ~(missing \cap made = {} /\ lock = NC!nobody)
  <2>1. "late creation" \in mishaps'
    BY <1>1, <1>15
  <2>2. ~(mishaps' \subseteq {"torn"}) /\ mishaps' # {}
    BY <2>1
  <2>3. Kept' /\ Agreed' /\ Settled'
    BY <2>2 DEF Kept, Agreed, Settled
  <2> QED
    BY <1>11, <1>13, <1>14, <2>3 DEF CentreInv
<1>16. CASE missing \cap made = {} /\ lock = NC!nobody
  <2>1. mishaps' = mishaps
    BY <1>1, <1>16
  <2>2. state' = state /\ events' = events
    BY <1>1, <1>2, <1>5, <1>16
  <2>3. NC!Tree' = NC!Tree /\ NC!Tree = [state |-> state, events |-> events] /\ NC!Tree \in TreeType
    BY <1>6, <2>2 DEF NC!Tree, TreeType
  <2>4. \A d \in Clients : task[d].step \notin HolderSteps /\ task'[d].step \notin HolderSteps
    BY <1>10, <1>12, <1>16, OthersWait
  <2>5. Kept'
    <3>1. Kept
      BY DEF CentreInv
    <3>2. Logs(events)' = Logs(events) /\ Lists(state, Owed)' = Lists(state, Owed) /\ Owed' = Owed
      BY <1>1, <2>2 DEF Logs, Lists, Owed
    <3>3. \A d \in Clients : KeptBy(d)'
      BY <2>4 DEF KeptBy, HolderSteps
    <3>4. task'[window].step = "deliver" => task[window].step = "deliver"
      BY <1>4, <1>10, NoteKinds
    <3>5. Lists(items, mine \ withdrawn)' = Lists(items, mine \ withdrawn)
      BY <1>1 DEF Lists
    <3>6. Lists(listed, {e \in Owed : e.by = window})' = Lists(listed, {e \in Owed : e.by = window})
      BY <1>1, <3>2 DEF Lists
    <3> QED
      BY <2>1, <3>1, <3>2, <3>3, <3>4, <3>5, <3>6 DEF Kept
  <2>6. mishaps = {} => Matches(NC!Tree) /\ \A i \in DOMAIN centreCommits : Matches(centreCommits[i])
    BY <1>16 DEF CentreInv, Agreed
  <2>7. CASE centreCommits' = centreCommits
    <3>1. Agreed'
      <4>1. \A d \in Clients : AgreedBy(d)'
        BY <2>4 DEF AgreedBy, HolderSteps
      <4>2. Matches(NC!Tree)' = Matches(NC!Tree)
        BY <2>3 DEF Matches
      <4>3. mishaps = {} => \A i \in DOMAIN centreCommits' : Matches(centreCommits'[i])
        BY <2>6, <2>7
      <4> QED
        BY <2>1, <2>6, <4>1, <4>2, <4>3 DEF Agreed, Matches
    <3>2. Settled'
      <4>1. \A d \in Clients : SettledBy(d)'
        BY <2>4 DEF SettledBy, HolderSteps
      <4>2. NC!HEAD' = NC!HEAD
        BY <2>7 DEF NC!HEAD, NC!Last
      <4> QED
        BY <1>1, <1>16, <2>1, <2>3, <2>7, <4>1, <4>2 DEF CentreInv, Settled
    <3> QED
      BY <1>11, <1>13, <1>14, <2>5, <3>1, <3>2 DEF CentreInv
  <2>8. CASE centreIndex' = [state |-> state', events |-> events'] /\ centreCommits' = Append(centreCommits, centreIndex')
    <3>1. centreCommits' = Append(centreCommits, NC!Tree)
      BY <2>2, <2>3, <2>8
    <3>2. /\ NC!HEAD' = NC!Tree
          /\ mishaps = {} => \A i \in DOMAIN centreCommits' : Matches(centreCommits'[i])
      BY <2>3, <2>6, <3>1, CommitsAppend
    <3>3. Agreed'
      <4>1. \A d \in Clients : AgreedBy(d)'
        BY <2>4 DEF AgreedBy, HolderSteps
      <4>2. Matches(NC!Tree)' = Matches(NC!Tree)
        BY <2>3 DEF Matches
      <4> QED
        BY <2>1, <2>6, <3>2, <4>1, <4>2 DEF Agreed, Matches
    <3>4. Settled'
      <4>1. \A d \in Clients : SettledBy(d)'
        BY <2>4 DEF SettledBy, HolderSteps
      <4> QED
        BY <2>3, <3>2, <4>1 DEF Settled
    <3> QED
      BY <1>11, <1>13, <1>14, <2>5, <3>3, <3>4 DEF CentreInv
  <2> QED
    BY <1>5, <2>7, <2>8
<1> QED
  BY <1>15, <1>16

\* A notification like a recent one is not added.
LEMMA Suppresses ==
  ASSUME CentreInv, NEW c \in Clients, NC!suppressed(c)
  PROVE  CentreInv'
BY Refused DEF NC!suppressed

\* A killed command line leaves the files as they are and its lock to be noticed.
LEMMA Crashes ==
  ASSUME CentreInv, NEW c \in Clients, NC!crash(c)
  PROVE  CentreInv'
<1>1. /\ c # window /\ task[c].step # "idle" /\ crashes' = crashes + 1
      /\ task' = [task EXCEPT ![c] = NC!AtRest("idle")] /\ lock' = NC!released(c)
      /\ mishaps' = IF task[c].step \in {"append", "rollback"} THEN mishaps \cup {"torn"} ELSE mishaps
      /\ UNCHANGED <<made, state, events, centreIndex, centreCommits, queue, items, listed, told, withdrawn, mine, ops>>
  BY DEF NC!crash, NC!files, NC!git, NC!screen, NC!told
<1>2. /\ crashes' \in Nat /\ crashes' # 0 /\ state \in SUBSET Note /\ events \in Seq(EventType)
      /\ centreIndex \in TreeType /\ centreCommits \in Seq(TreeType) /\ queue \in Seq(Op) /\ ops \in Nat
  BY <1>1 DEF CentreInv, CentreTypes
<1>3. CASE task[c].step \in HolderSteps
  <2>1. /\ centreCommits # <<>> /\ NC!Tree' = NC!Tree
        /\ mishaps \subseteq {"torn"} => Logs(events) /\ Lists(state, Owed)
        /\ mishaps = {} => (\A i \in DOMAIN centreCommits : Matches(centreCommits[i])) /\ AgreedBy(c)
    BY <1>1, <1>3, Owner DEF NC!Tree
  <2>2. mishaps \subseteq mishaps' /\ (mishaps' \subseteq {"torn"} => mishaps \subseteq {"torn"})
    BY <1>1
  <2>3. mishaps' \subseteq {"torn"} => Logs(events)' /\ Lists(state, Owed)'
    BY <1>1, <2>1, <2>2 DEF Logs, Lists, Owed
  <2>4. mishaps' = {} => Matches(NC!Tree) /\ \A i \in DOMAIN centreCommits : Matches(centreCommits[i])
    BY <1>1, <1>3, <2>1 DEF AgreedBy, HolderSteps
  <2>5. mishaps' = {} => Matches(NC!Tree)' /\ \A i \in DOMAIN centreCommits' : Matches(centreCommits'[i])
    BY <1>1, <2>1, <2>4 DEF Matches
  <2>6. \E step \in {"idle", "list", "failed"} :
          task' = [task EXCEPT ![c] = NC!AtRest(step)] /\ (c = window => step # "idle")
    BY <1>1
  <2> QED
    BY <1>1, <1>2, <1>3, <2>1, <2>2, <2>3, <2>5, <2>6, OwnerEnds
<1>4. CASE task[c].step \notin HolderSteps
  <2>1. lock # c
    BY <1>4, NoteKinds DEF CentreInv, Exclusive
  <2>2. lock' = lock /\ mishaps' = mishaps
    BY <1>1, <1>4, <2>1 DEF NC!released, HolderSteps
  <2> DEFINE t == NC!AtRest("idle")
  <2>3. t \in CentreTask /\ t.step = "idle" /\ t.step \notin HolderSteps
    BY CentreConstants DEF CentreSteps, HolderSteps
  <2>4. task' = [task EXCEPT ![c] = t]
    BY <1>1
  <2> HIDE DEF t
  <2>5. task'[window] = task[window]
    BY <1>1, <2>4, CentreTask1
  <2>6. /\ \A i \in DOMAIN queue' : queue'[i].kind \in Asked \cup {"refresh"}
        /\ task'[window].step # "idle" => queue' # <<>>
    BY <1>1, <2>5 DEF CentreInv, Ready
  <2>7. /\ mishaps \subseteq {"torn"} => Lists(items', mine' \ withdrawn)
        /\ mishaps \subseteq {"torn"} /\ task'[window].step = "deliver" =>
             Lists(listed', {e \in Owed : e.by = window})
    BY <1>1, <2>5 DEF CentreInv, Kept
  <2> QED
    BY <1>1, <1>2, <1>4, <2>2, <2>3, <2>4, <2>6, <2>7, CentreTaskChanges
<1> QED
  BY <1>3, <1>4

\* Every step of the centre keeps the invariant.
LEMMA CentreStep == CentreInv /\ NC!Next => CentreInv'
<1> SUFFICES ASSUME CentreInv, NC!Next PROVE CentreInv'
  OBVIOUS
<1>1. CASE \E operation \in NC!Operations, c \in Clients : NC!begin(c, operation)
  BY <1>1, CentreBegins
<1>2. CASE \E operation \in NC!Operations : NC!queueNotificationOperation(operation)
  BY <1>2, OperationTypes, Queued
<1>3. CASE NC!queueNotificationOperation(NC!Operation("refresh", NC!Idle.id))
  BY <1>3, OperationTypes, Queued
<1>4. CASE NC!beginNextNotificationOperation \/ NC!list \/ NC!deliver
  BY <1>4, WindowBegins, Listed, Delivered
<1>5. ASSUME NEW c \in Clients,
             \/ NC!initialize(c) \/ NC!create(c) \/ NC!tryLock(c) \/ NC!suppressed(c) \/ NC!write(c)
             \/ NC!append(c) \/ NC!commit(c) \/ NC!rollback(c) \/ NC!revertLatest(c)
             \/ NC!revertCommit(c) \/ NC!crash(c)
      PROVE  CentreInv'
  BY <1>5, Initializes, Creates, Locks, Suppresses, WritesState, AppendsEvent, CommitsBoth, RollsBack,
     Reverts, RevertCommits, Crashes
<1> QED
  BY <1>1, <1>2, <1>3, <1>4, <1>5 DEF NC!Next

\* A step of another store leaves the centre alone.
LEMMA CentreStutters == CentreInv /\ UNCHANGED centreVars => CentreInv'
<1> SUFFICES ASSUME CentreInv, UNCHANGED centreVars PROVE CentreInv'
  OBVIOUS
<1>1. UNCHANGED <<made, state, events, centreIndex, centreCommits, lock, task, queue, items,
                  listed, told, mine, withdrawn, mishaps, ops, crashes>>
  BY DEF centreVars
<1>2. CentreTypes' /\ Exclusive' /\ Ready'
  BY <1>1 DEF CentreInv, CentreTypes, Exclusive, Ready
<1>3. Kept'
  BY <1>1 DEF CentreInv, Kept, KeptBy, Logs, Lists, Owed, NC!Event
<1>4. Agreed' /\ Settled'
  BY <1>1 DEF CentreInv, Agreed, AgreedBy, Settled, SettledBy, NC!Tree, NC!HEAD, NC!Last
<1> QED
  BY <1>2, <1>3, <1>4 DEF CentreInv

\* The invariant of the centre holds throughout.
LEMMA CentreHolds == MCSpec => []CentreInv
<1>1. CentreInv /\ [MCNext]_<<vars, centreVars, vmVars, subject>> => CentreInv'
  <2> SUFFICES ASSUME CentreInv, [MCNext]_<<vars, centreVars, vmVars, subject>> PROVE CentreInv'
    OBVIOUS
  <2>1. NC!Next \/ UNCHANGED centreVars
    BY DEF MCNext
  <2> QED
    BY <2>1, CentreStep, CentreStutters
<1> QED
  BY <1>1, CentreInit, PTL DEF MCSpec

-----------------------------------------------------------------------------
\* Every event reported as done is in a commit, and the one about to be committed is in
\* the log, in a store that was not created late.
Archived ==
  "late creation" \notin mishaps =>
    /\ \A e \in told : \E i \in DOMAIN centreCommits : e \in NC!ToSet(centreCommits[i].events)
    /\ \A c \in Clients : task[c].step = "commit" => NC!Event(c) \in NC!ToSet(events)

\* The line of commits only grows: a commit that is added is its last.
Grows == \/ centreCommits' = centreCommits
         \/ \E tree \in TreeType : centreCommits' = Append(centreCommits, tree)

LEMMA GrowingKeeps ==
  ASSUME CentreInv, Grows
  PROVE  \A i \in DOMAIN centreCommits : i \in DOMAIN centreCommits' /\ centreCommits'[i] = centreCommits[i]
<1>1. centreCommits \in Seq(TreeType)
  BY DEF CentreInv, CentreTypes
<1>2. ASSUME NEW tree \in TreeType, centreCommits' = Append(centreCommits, tree)
      PROVE  \A i \in DOMAIN centreCommits : i \in DOMAIN centreCommits' /\ centreCommits'[i] = centreCommits[i]
  BY <1>1, <1>2
<1> QED
  BY <1>2 DEF Grows

\* A step that reports nothing and brings nobody to its commit.
LEMMA ArchivedStays ==
  ASSUME CentreInv, Archived, Grows, told' = told, mishaps \subseteq mishaps',
         \/ "late creation" \in mishaps'
         \/ \A d \in Clients : task'[d].step = "commit" => task'[d] = task[d] /\ events' = events
  PROVE  Archived'
<1> SUFFICES ASSUME "late creation" \notin mishaps' PROVE Archived'
  BY DEF Archived
<1>1. /\ \A e \in told : \E i \in DOMAIN centreCommits : e \in NC!ToSet(centreCommits[i].events)
      /\ \A c \in Clients : task[c].step = "commit" => NC!Event(c) \in NC!ToSet(events)
  BY DEF Archived
<1>2. ASSUME NEW e \in told'
      PROVE  \E i \in DOMAIN centreCommits' : e \in NC!ToSet(centreCommits'[i].events)
  <2>1. PICK i \in DOMAIN centreCommits : e \in NC!ToSet(centreCommits[i].events)
    BY <1>1
  <2> QED
    BY <2>1, GrowingKeeps
<1>3. ASSUME NEW c \in Clients, task'[c].step = "commit"
      PROVE  NC!Event(c)' \in NC!ToSet(events')
  BY <1>1, <1>3 DEF NC!Event
<1> QED
  BY <1>2, <1>3 DEF Archived

\* The client of a step, and what it goes on to.
LEMMA MovesOn ==
  ASSUME CentreInv, NEW c \in Clients, NEW t, task' = [task EXCEPT ![c] = t], t.step # "commit"
  PROVE  \A d \in Clients : task'[d].step = "commit" => d # c /\ task'[d] = task[d]
BY CentreTask1

LEMMA GoesElsewhere ==
  ASSUME CentreInv, NEW c \in Clients, NEW step \in CentreSteps, step # "commit", NC!goto(c, step)
  PROVE  \A d \in Clients : task'[d].step = "commit" => d # c /\ task'[d] = task[d]
<1> DEFINE t == [task[c] EXCEPT !.step = step]
<1>1. task' = [task EXCEPT ![c] = t] /\ t.step = step
  BY GoesTo
<1> HIDE DEF t
<1> QED
  BY <1>1, MovesOn

LEMMA FinishesElsewhere ==
  ASSUME CentreInv, NEW c \in Clients, NEW success, NC!finish(c, success)
  PROVE  \A d \in Clients : task'[d].step = "commit" => d # c /\ task'[d] = task[d]
<1>1. PICK step \in {"idle", "list", "failed"} : task' = [task EXCEPT ![c] = NC!AtRest(step)]
  BY Finishes
<1> DEFINE t == NC!AtRest(step)
<1>2. t.step = step
  BY CentreConstants DEF CentreSteps
<1> HIDE DEF t
<1> QED
  BY <1>1, <1>2, MovesOn DEF t

\* With no owner of the lock but c nobody else commits.
LEMMA OwnerCommitsAlone ==
  ASSUME CentreInv, NEW c \in Clients, task[c].step \in HolderSteps \/ lock = NC!nobody,
         \A d \in Clients : task'[d].step = "commit" => d # c /\ task'[d] = task[d]
  PROVE  \A d \in Clients : task'[d].step # "commit"
BY OthersWait DEF HolderSteps

LEMMA BeginningArchives ==
  ASSUME CentreInv, Archived, NEW c \in Clients, NEW op,
         task' = [task EXCEPT ![c].step = "initialize", ![c].op = op],
         UNCHANGED <<centreCommits, told, mishaps, events>>
  PROVE  Archived'
<1>1. task \in [Clients -> CentreTask] /\ task[c] \in CentreTask
  BY CentreTask1
<1>2. task'[c].step = "initialize" /\ \A d \in Clients : d # c => task'[d] = task[d]
  BY <1>1 DEF CentreTask
<1> QED
  BY <1>2, ArchivedStays DEF Grows

\* A client outside the lock reports nothing and commits nothing but a new store.
LEMMA OutsideArchives ==
  ASSUME CentreInv, Archived, NEW c \in Clients,
         NC!initialize(c) \/ NC!tryLock(c) \/ NC!suppressed(c) \/ NC!crash(c)
  PROVE  Archived'
<1>1. /\ UNCHANGED <<centreCommits, told, events>> /\ mishaps \subseteq mishaps'
  BY DEF NC!initialize, NC!tryLock, NC!suppressed, NC!crash, NC!files, NC!git, NC!told
<1>2. \A d \in Clients : task'[d].step = "commit" => d # c /\ task'[d] = task[d]
  <2>1. CASE NC!initialize(c)
    <3>1. CASE NC!goto(c, NC!prepared(c))
      BY <3>1, GoesElsewhere, PreparedSteps DEF CentreSteps
    <3>2. CASE task' = [task EXCEPT ![c].step = "create", ![c].missing = NC!Files \ made]
      <4>1. task \in [Clients -> CentreTask] /\ task[c] \in CentreTask
        BY CentreTask1
      <4>2. task'[c].step = "create" /\ \A d \in Clients : d # c => task'[d] = task[d]
        BY <3>2, <4>1 DEF CentreTask
      <4> QED
        BY <4>2
    <3>3. CASE NC!finish(c, FALSE)
      BY <3>3, FinishesElsewhere
    <3> QED
      BY <2>1, <3>1, <3>2, <3>3 DEF NC!initialize
  <2>2. CASE NC!tryLock(c)
    <3> DEFINE step == IF task[c].op.kind = "undo" THEN "revert" ELSE "write"
    <3>1. step \in {"revert", "write"}
      OBVIOUS
    <3> HIDE DEF step
    <3>2. CASE task' = [task EXCEPT ![c].previous = NC!Tree, ![c].step = step]
      <4>1. task \in [Clients -> CentreTask] /\ task[c] \in CentreTask
        BY CentreTask1
      <4>2. task'[c].step = step /\ \A d \in Clients : d # c => task'[d] = task[d]
        BY <3>2, <4>1 DEF CentreTask
      <4> QED
        BY <3>1, <4>2
    <3>3. CASE NC!finish(c, FALSE)
      BY <3>3, FinishesElsewhere
    <3> QED
      BY <2>2, <3>2, <3>3 DEF NC!tryLock, step
  <2>3. CASE NC!suppressed(c)
    BY <2>3, FinishesElsewhere DEF NC!suppressed
  <2>4. CASE NC!crash(c)
    <3> DEFINE t == NC!AtRest("idle")
    <3>1. t.step = "idle" /\ task' = [task EXCEPT ![c] = t]
      BY <2>4, CentreConstants DEF NC!crash, CentreSteps
    <3> HIDE DEF t
    <3> QED
      BY <3>1, MovesOn
  <2> QED
    BY <2>1, <2>2, <2>3, <2>4
<1> QED
  BY <1>1, <1>2, ArchivedStays DEF Grows

LEMMA CreatingArchives ==
  ASSUME CentreInv, Archived, NEW c \in Clients, NC!create(c)
  PROVE  Archived'
<1>1. /\ task[c].step = "create" /\ told' = told
      /\ mishaps' = IF task[c].missing \cap made = {} /\ lock = NC!nobody THEN mishaps ELSE mishaps \cup {"late creation"}
      /\ state' = IF "state" \in task[c].missing THEN {} ELSE state
      /\ NC!goto(c, NC!prepared(c)) \/ NC!finish(c, FALSE)
      /\ events' = events \/ events' = <<>>
      /\ \/ UNCHANGED <<centreIndex, centreCommits>>
         \/ centreIndex' = [state |-> state', events |-> events'] /\ centreCommits' = Append(centreCommits, centreIndex')
  BY DEF NC!create, NC!told, NC!git
<1>2. Grows
  <2>1. state \in SUBSET Note /\ events \in Seq(EventType)
    BY DEF CentreInv, CentreTypes
  <2>2. {} \in SUBSET Note /\ <<>> \in Seq(EventType)
    OBVIOUS
  <2>3. state' \in SUBSET Note /\ events' \in Seq(EventType)
    BY <1>1, <2>1, <2>2
  <2>4. [state |-> state', events |-> events'] \in TreeType
    BY <2>3 DEF TreeType
  <2> QED
    BY <1>1, <2>4, Zenon DEF Grows
<1>3. \A d \in Clients : task'[d].step = "commit" => d # c /\ task'[d] = task[d]
  <2>1. CASE NC!goto(c, NC!prepared(c))
    BY <2>1, GoesElsewhere, PreparedSteps DEF CentreSteps
  <2>2. CASE NC!finish(c, FALSE)
    BY <2>2, FinishesElsewhere
  <2> QED
    BY <1>1, <2>1, <2>2
<1>4. CASE lock = NC!nobody
  BY <1>1, <1>2, <1>3, <1>4, OwnerCommitsAlone, ArchivedStays
<1>5. CASE lock # NC!nobody
  BY <1>1, <1>2, <1>5, ArchivedStays
<1> QED
  BY <1>4, <1>5

\* The lock's owner, before and after its commit.
LEMMA OwnerArchives ==
  ASSUME CentreInv, Archived, NEW c \in Clients,
         NC!write(c) \/ NC!rollback(c) \/ NC!revertLatest(c) \/ NC!revertCommit(c)
  PROVE  Archived'
<1>1. /\ task[c].step \in HolderSteps /\ told' = told /\ mishaps \subseteq mishaps'
  <2>1. NC!rollback(c) => mishaps \subseteq mishaps'
    <3>1. NC!rollback(c) => PutBack(c)
      BY DEF NC!rollback, PutBack
    <3> QED
      BY <3>1, Zenon DEF PutBack
  <2> QED
    BY <2>1 DEF NC!write, NC!rollback, NC!revertLatest, NC!revertCommit, NC!success, HolderSteps, NC!told
<1>2. Grows
  <2>1. centreIndex \in TreeType
    BY DEF CentreInv, CentreTypes
  <2> QED
    BY <2>1 DEF Grows, NC!write, NC!rollback, NC!revertLatest, NC!revertCommit, NC!git
<1>3. \A d \in Clients : task'[d].step = "commit" => d # c /\ task'[d] = task[d]
  <2>1. CASE \E step \in {"append", "rollback", "revertCommit"} : NC!goto(c, step)
    BY <2>1, GoesElsewhere DEF CentreSteps, HolderSteps
  <2>2. CASE \E success \in BOOLEAN : NC!finish(c, success)
    BY <2>2, FinishesElsewhere
  <2> QED
    BY <2>1, <2>2 DEF NC!write, NC!rollback, NC!revertLatest, NC!revertCommit, NC!success
<1> QED
  BY <1>1, <1>2, <1>3, OwnerCommitsAlone, ArchivedStays

LEMMA AppendingArchives ==
  ASSUME CentreInv, Archived, NEW c \in Clients, NC!append(c)
  PROVE  Archived'
<1>1. /\ task[c].step = "append" /\ task[c].step \in HolderSteps
      /\ UNCHANGED <<centreCommits, told, mishaps>>
      /\ \/ events' = Append(events, NC!Event(c)) /\ NC!goto(c, "commit")
         \/ NC!goto(c, "rollback") /\ events' = events
  BY DEF NC!append, NC!git, NC!told, HolderSteps
<1>2. CASE NC!goto(c, "rollback") /\ events' = events
  <2>1. "rollback" \in CentreSteps /\ "rollback" # "commit"
    BY DEF CentreSteps, HolderSteps
  <2> QED
    BY <1>1, <1>2, <2>1, GoesElsewhere, OwnerCommitsAlone, ArchivedStays DEF Grows
<1>3. CASE events' = Append(events, NC!Event(c)) /\ NC!goto(c, "commit")
  <2> DEFINE e == NC!Event(c)
             t == [task[c] EXCEPT !.step = "commit"]
  <2>1. task' = [task EXCEPT ![c] = t] /\ t.step = "commit" /\ t.op = task[c].op
    BY <1>3, GoesTo DEF CentreSteps, HolderSteps
  <2> HIDE DEF t
  <2>2. task'[c] = t /\ \A d \in Clients : d # c => task'[d] = task[d]
    BY <2>1, CentreTask1
  <2>3. NC!Event(c)' = e
    BY <2>1, <2>2 DEF NC!Event
  <2>4. events \in Seq(EventType) /\ e \in EventType
    BY EventTypes DEF CentreInv, CentreTypes
  <2> HIDE DEF e
  <2>5. e \in NC!ToSet(events')
    <3>1. events' = Append(events, e)
      BY <1>3 DEF e
    <3>2. Len(events) + 1 \in DOMAIN events' /\ events'[Len(events) + 1] = e
      BY <2>4, <3>1
    <3> QED
      BY <3>2 DEF NC!ToSet
  <2>6. \A d \in Clients : d # c => task'[d].step # "commit"
    BY <1>1, <2>2, OthersWait DEF HolderSteps
  <2> QED
    BY <1>1, <2>3, <2>5, <2>6 DEF Archived
<1> QED
  BY <1>1, <1>2, <1>3

LEMMA CommittingArchives ==
  ASSUME CentreInv, Archived, NEW c \in Clients, NC!commit(c)
  PROVE  Archived'
<1>1. /\ task[c].step = "commit" /\ task[c].step \in HolderSteps /\ mishaps' = mishaps /\ events' = events
      /\ \/ /\ centreCommits' = Append(centreCommits, NC!Tree) /\ NC!finish(c, TRUE)
            /\ told' = told \cup {NC!Event(c)}
         \/ UNCHANGED <<centreCommits, told>> /\ NC!goto(c, "rollback")
  BY DEF NC!commit, NC!success, NC!files, HolderSteps
<1>2. CASE UNCHANGED <<centreCommits, told>> /\ NC!goto(c, "rollback")
  <2>1. "rollback" \in CentreSteps /\ "rollback" # "commit"
    BY DEF CentreSteps, HolderSteps
  <2> QED
    BY <1>1, <1>2, <2>1, GoesElsewhere, OwnerCommitsAlone, ArchivedStays DEF Grows
<1>3. CASE /\ centreCommits' = Append(centreCommits, NC!Tree) /\ NC!finish(c, TRUE)
           /\ told' = told \cup {NC!Event(c)}
  <2> SUFFICES ASSUME "late creation" \notin mishaps PROVE Archived'
    BY <1>1 DEF Archived
  <2> DEFINE tree == NC!Tree
             e == NC!Event(c)
  <2>1. /\ tree \in TreeType /\ tree.events = events /\ centreCommits \in Seq(TreeType)
    BY TreeIsTree DEF CentreInv, CentreTypes
  <2>2. e \in NC!ToSet(events) /\ \A x \in told : \E i \in DOMAIN centreCommits : x \in NC!ToSet(centreCommits[i].events)
    BY <1>1 DEF Archived
  <2>3. Grows
    BY <1>3, <2>1 DEF Grows
  <2>4. \A d \in Clients : task'[d].step # "commit"
    BY <1>1, <1>3, FinishesElsewhere, OwnerCommitsAlone
  <2> HIDE DEF tree, e
  <2>5. Len(centreCommits) + 1 \in DOMAIN centreCommits' /\ centreCommits'[Len(centreCommits) + 1] = tree
    <3>1. centreCommits' = Append(centreCommits, tree)
      BY <1>3 DEF tree
    <3>2. /\ centreCommits' \in Seq(TreeType) /\ Len(centreCommits') = Len(centreCommits) + 1
          /\ DOMAIN centreCommits' = 1 .. Len(centreCommits) + 1
          /\ Len(centreCommits) \in Nat /\ centreCommits'[Len(centreCommits) + 1] = tree
      BY ONLY <2>1, <3>1
    <3> QED
      BY ONLY <3>2
  <2>6. ASSUME NEW x \in told'
        PROVE  \E i \in DOMAIN centreCommits' : x \in NC!ToSet(centreCommits'[i].events)
    <3>1. CASE x = e
      BY <2>1, <2>2, <2>5, <3>1
    <3>2. CASE x \in told
      <4>1. PICK i \in DOMAIN centreCommits : x \in NC!ToSet(centreCommits[i].events)
        BY <2>2, <3>2
      <4> QED
        BY <2>3, <4>1, GrowingKeeps
    <3> QED
      BY <1>3, <3>1, <3>2 DEF e
  <2> QED
    BY <2>4, <2>6 DEF Archived
<1> QED
  BY <1>1, <1>2, <1>3

LEMMA ArchivedStep == CentreInv /\ Archived /\ NC!Next => Archived'
<1> SUFFICES ASSUME CentreInv, Archived, NC!Next PROVE Archived'
  OBVIOUS
<1>1. ASSUME NEW operation, NEW c \in Clients, NC!begin(c, operation)
      PROVE  Archived'
  BY <1>1, BeginningArchives DEF NC!begin, NC!files, NC!git, NC!told
<1>2. ASSUME NEW operation, NC!queueNotificationOperation(operation)
      PROVE  Archived'
  BY <1>2, ArchivedStays DEF NC!queueNotificationOperation, NC!files, NC!git, NC!told, Grows
<1>3. CASE NC!beginNextNotificationOperation
  BY <1>3, NoteKinds, BeginningArchives DEF NC!beginNextNotificationOperation, NC!files, NC!git, NC!told
<1>4. CASE NC!list \/ NC!deliver
  <2>1. UNCHANGED <<centreCommits, told, mishaps, events>>
    BY <1>4 DEF NC!list, NC!deliver, NC!files, NC!git, NC!told
  <2>2. PICK step \in {"deliver", "failed", "idle"} : NC!goto(window, step)
    BY <1>4 DEF NC!list, NC!deliver
  <2>3. \A d \in Clients : task'[d].step = "commit" => d # window /\ task'[d] = task[d]
    BY <2>2, NoteKinds, GoesElsewhere DEF CentreSteps
  <2> QED
    BY <2>1, <2>3, ArchivedStays DEF Grows
<1>5. ASSUME NEW c \in Clients,
             \/ NC!initialize(c) \/ NC!create(c) \/ NC!tryLock(c) \/ NC!suppressed(c) \/ NC!write(c)
             \/ NC!append(c) \/ NC!commit(c) \/ NC!rollback(c) \/ NC!revertLatest(c)
             \/ NC!revertCommit(c) \/ NC!crash(c)
      PROVE  Archived'
  BY <1>5, OutsideArchives, CreatingArchives, OwnerArchives, AppendingArchives, CommittingArchives
<1> QED
  BY <1>1, <1>2, <1>3, <1>4, <1>5 DEF NC!Next

LEMMA ArchiveHolds == MCSpec => []Archived
<1>1. MCInit => Archived
  <2> SUFFICES ASSUME MCInit PROVE Archived
    OBVIOUS
  <2>1. told = {} /\ task = [c \in Clients |-> NC!AtRest("idle")]
    BY DEF MCInit, NC!Init
  <2>2. \A c \in Clients : task[c].step = "idle"
    BY <2>1, CentreConstants DEF CentreSteps
  <2> QED
    BY <2>1, <2>2 DEF Archived
<1>2. CentreInv /\ Archived /\ [MCNext]_<<vars, centreVars, vmVars, subject>> => Archived'
  <2> SUFFICES ASSUME CentreInv, Archived, [MCNext]_<<vars, centreVars, vmVars, subject>> PROVE Archived'
    OBVIOUS
  <2>1. NC!Next \/ UNCHANGED centreVars
    BY DEF MCNext
  <2>2. CASE UNCHANGED centreVars
    BY <2>2 DEF centreVars, Archived, NC!Event
  <2> QED
    BY <2>1, <2>2, ArchivedStep
<1> QED
  BY <1>1, <1>2, CentreHolds, PTL DEF MCSpec

\* A notification operation that was reported as done stays in the event log until an
\* undo or redo touches it, for any number of clients: no second writer and no rollback
\* of another operation loses it, unless the store was created again under its users, or
\* an operation failed to read the log and then failed again, so that its rollback emptied
\* it.  The commits have it even then (NotificationStore::mutate, initialize, fileBytes).
THEOREM AcknowledgedAreKept == MCSpec => []AcknowledgedStays
<1>1. CentreInv /\ Archived => AcknowledgedStays
  BY DEF CentreInv, Kept, Logs, Owed, AcknowledgedStays, NC!AcknowledgedStays, Archived
<1> QED
  BY <1>1, CentreHolds, ArchiveHolds, PTL

\* The notification centre agrees with itself, for any number of clients: with nobody at
\* it and nobody killed in between, notifications.json is what events.jsonl says and both
\* are committed, and the drawer shows what the window has reported
\* (NotificationCenter::mutate, rollback; AppController's queue of operations).
THEOREM CentresAgree == MCSpec => []CentreAgrees
<1>1. CentreInv => CentreAgrees
  <2> SUFFICES ASSUME CentreInv PROVE CentreAgrees
    OBVIOUS
  <2>1. NC!StateMatchesEvents
    BY TreeIsTree DEF CentreInv, Agreed, Matches, NC!StateMatchesEvents
  <2>2. NC!QuietStoreIsCommitted
    BY DEF CentreInv, Settled, NC!QuietStoreIsCommitted
  <2>3. NC!WindowShowsWhatItReports
    BY DEF CentreInv, Kept, Lists, NC!WindowShowsWhatItReports
  <2> QED
    BY <2>1, <2>2, <2>3 DEF CentreAgrees, NC!CentreAgrees
<1> QED
  BY <1>1, CentreHolds, PTL
=============================================================================
