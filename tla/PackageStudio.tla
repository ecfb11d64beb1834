--------------------------- MODULE PackageStudio ---------------------------
(***************************************************************************)
(* A package profile becomes a bundle of files, the bundle becomes part of *)
(* the image, and on the installed machine a script of the bundle installs *)
(* the packages at logons until all of them are there. The desktop stages  *)
(* the bundle for the servicing plan, the command line into a folder that  *)
(* somebody carries to a machine. The contents of a payload are "good"     *)
(* (those of the profile's SHA-256 and publisher), "bad" or "none".        *)
(***************************************************************************)
EXTENDS Naturals, Sequences, FiniteSets, SequencesExt

CONSTANTS Names,       \* the identifiers of packages
          Profiles,    \* the profiles the operator may write
          MaxTroubles, \* bound: edits of files, failures, crashes, removals
          MaxStagings  \* bound: stagings begun

VARIABLES
  profile,   \* m_packageProfile, or the profile file of the command line
  source,    \* the payload files beside the project or the profile
  files,     \* per stager: the profile its script was made of, its payloads
  writing,   \* per stager: the files still to write
  recorded,  \* options.extra["stagedFiles"]: script's profile, payloads
  gated,     \* the plan's check of the recorded hashes: "none", "passed", or
             \* "stale" once the bundle was written again
  image,     \* the files on the installed machine, "none" before
  task,      \* the scheduled task is registered
  programs,  \* the packages that are installed and verify
  marker,    \* the state file of each package
  cache,     \* the downloaded payloads
  runs,      \* per way to start it: the running first-logon script
  mutex,     \* Global\WimForge.PackageStudio is held
  troubles, stagings
workbench == <<source, files, writing, recorded, gated, stagings>>
staged == <<profile, workbench>>
machine == <<task, programs, marker, cache, runs, mutex>>
vars == <<staged, image, machine, troubles>>

Stagers == {"desktop", "command"}
Starts == {"logon", "hand"}
contents == {"none", "good", "bad"}

(***************************************************************************)
(* Profiles. An entry has an identifier, is enabled or not (on), has a     *)
(* provider, may need a network (net), may name a payload file and a       *)
(* download address, and depends on others (a sequence of identifiers).    *)
(***************************************************************************)
\* The entries of a list at some of its places, in their order.
kept(entries, places) ==
  [k \in 1..Cardinality(places) |->
    entries[CHOOSE i \in places: Cardinality({j \in places: j <= i}) = k]]
enabled(p) == kept(p.packages, {i \in DOMAIN p.packages: p.packages[i].on})
identifiers(p) == {e.id : e \in ToSet(enabled(p))}
entry(p, n) == CHOOSE e \in ToSet(enabled(p)): e.id = n
needsPayload(e) == e.provider \in {"direct", "offline"}

(* Depth-first, a package after its dependencies: the packages of a list one  *)
(* after the other, while those of path are being visited.  One of these met  *)
(* again closes a cycle, which ends all loops.                                *)
visited(p) ==
  LET ids == identifiers(p)
      visit[v \in [path: SUBSET ids, list: Seq(ids), done: [order: Seq(ids), cycle: BOOLEAN]]] ==
        LET n == Head(v.list)
            others(done) == visit[[path |-> v.path, list |-> Tail(v.list), done |-> done]]
            within == visit[[path |-> v.path \cup {n}, list |-> entry(p, n).dependencies, done |-> v.done]]
        IN IF v.list = <<>> \/ v.done.cycle THEN v.done
           ELSE IF n \in ToSet(v.done.order) THEN others(v.done)
           ELSE IF n \in v.path THEN [v.done EXCEPT !.cycle = TRUE]
           ELSE others([within EXCEPT !.order = Append(@, n)])
  IN visit[[path |-> {}, list |-> [i \in DOMAIN enabled(p) |-> enabled(p)[i].id],
            done |-> [order |-> <<>>, cycle |-> FALSE]]]
dependencyOrder(p) == [i \in DOMAIN visited(p).order |-> entry(p, visited(p).order[i])]

(* What a profile must be to be loaded, exported or staged.                  *)
validate(p) ==
  LET all == ToSet(p.packages)
  IN /\ p.packages # <<>>
     /\ \A i, j \in 1 .. Len(p.packages): p.packages[i].id = p.packages[j].id => i = j
     /\ \A e \in all:
          /\ e.provider = "offline" => ~e.net
          /\ e.on => /\ p.mode = "offline" => ~e.net
                     /\ e.provider = "offline" => e.payload
                     /\ e.provider = "direct" => e.payload \/ e.url
                     /\ ToSet(e.dependencies) \subseteq identifiers(p) \ {e.id}
     /\ ~visited(p).cycle

payloads(p) == kept(p.packages, {i \in DOMAIN p.packages: p.packages[i].on /\ p.packages[i].payload})
payloadRequired(p, e) == e.provider = "offline" \/ p.mode = "offline" \/ ~e.url

-----------------------------------------------------------------------------
rest == [stage |-> "none"]
nothing == [by |-> "none"]
noProfile == [packages |-> <<>>]
allGood == [n \in Names |-> "good"]
noFiles == [s \in Stagers |-> [script |-> noProfile, payload |-> [n \in Names |-> "none"]]]
unstaged == [script |-> noProfile, payloads |-> {}]
Init ==
  /\ profile \in Profiles /\ source = allGood /\ files = noFiles
  /\ writing = [s \in Stagers |-> rest] /\ recorded = unstaged /\ gated = "none" /\ stagings = 0
  /\ image = nothing /\ task = FALSE /\ programs = {}
  /\ marker = [n \in Names |-> "none"] /\ cache = [n \in Names |-> "none"]
  /\ runs = [s \in Starts |-> rest] /\ mutex = FALSE /\ troubles = 0

trouble == troubles < MaxTroubles /\ troubles' = troubles + 1

(* Until the image is installed the operator works on its files. What is done *)
(* with them later concerns other images: the bench is then left as it began. *)
preparing == image = nothing
leavesBench ==
  /\ profile' = image'.script.of /\ source' = allGood /\ files' = noFiles
  /\ writing' = [s \in Stagers |-> rest] /\ recorded' = unstaged /\ gated' = "none" /\ stagings' = 0
(* The operator imports a profile or enables and disables packages.          *)
Edit == \E p \in Profiles \ {profile}:
  /\ preparing /\ trouble /\ profile' = p
  /\ UNCHANGED <<source, files, writing, recorded, gated, stagings, image, machine>>
(* A payload file is replaced, or removed, or put there.                     *)
Replace == \E n \in {e.id : e \in ToSet(payloads(profile))}: \E c \in contents \ {source[n]}:
  /\ preparing /\ trouble /\ source' = [source EXCEPT ![n] = c]
  /\ UNCHANGED <<profile, files, writing, recorded, gated, stagings, image, machine>>

(***************************************************************************)
(* Staging. The desktop writes the generated files and then each payload,  *)
(* and at last records the files in the project; the command line copies   *)
(* the payloads, each after it was read once for its hash, and then writes *)
(* the generated files.                                                    *)
(***************************************************************************)
Stage(s) ==
  /\ writing[s] = rest /\ preparing /\ stagings < MaxStagings /\ validate(profile) /\ stagings' = stagings + 1
  /\ writing' = [writing EXCEPT ![s] = [stage |-> IF s = "desktop" THEN "script" ELSE "payloads", of |-> profile,
                                  left |-> payloads(profile), copied |-> {}, hashed |-> FALSE]]
  /\ UNCHANGED <<profile, source, files, recorded, gated, image, machine, troubles>>

(* generateFirstLogonPowerShell: the enabled packages, in order.             *)
generated(p) == [of |-> p, packages |-> dependencyOrder(p)]
rewritten(s) == IF s = "desktop" /\ gated = "passed" THEN "stale" ELSE gated
Script(s) ==
  /\ preparing /\ writing[s].stage = "script"
  /\ files' = [files EXCEPT ![s].script = generated(writing[s].of)]
  /\ writing' = [writing EXCEPT ![s] = IF s = "desktop" THEN [@ EXCEPT !.stage = "payloads"] ELSE rest]
  /\ gated' = rewritten(s)
  /\ UNCHANGED <<profile, source, recorded, stagings, image, machine, troubles>>

next(s) == Head(writing[s].left)
passed(s, copied) == [writing[s] EXCEPT !.left = Tail(@), !.copied = @ \cup copied, !.hashed = FALSE]
(* The desktop copies and hashes in one pass and publishes only a match.     *)
desktopCopy(n) == source[n] = "good"
Copy ==
  /\ preparing /\ writing["desktop"].stage = "payloads" /\ writing["desktop"].left # <<>>
  /\ LET e == next("desktop") IN
       \/ /\ desktopCopy(e.id)
          /\ files' = [files EXCEPT !["desktop"].payload[e.id] = source[e.id]]
          /\ writing' = [writing EXCEPT !["desktop"] = passed("desktop", {e.id})]
       \/ /\ ~desktopCopy(e.id) /\ UNCHANGED files
          /\ writing' = [writing EXCEPT !["desktop"] =
                        IF source[e.id] = "none" /\ ~payloadRequired(@.of, e) THEN passed("desktop", {}) ELSE rest]
  /\ gated' = IF files' = files THEN gated ELSE rewritten("desktop")
  /\ UNCHANGED <<profile, source, recorded, stagings, image, machine, troubles>>
Hash ==
  /\ preparing /\ writing["command"].stage = "payloads" /\ writing["command"].left # <<>> /\ ~writing["command"].hashed
  /\ writing' = [writing EXCEPT !["command"] = IF source[next("command").id] = "good" THEN [@ EXCEPT !.hashed = TRUE] ELSE rest]
  /\ UNCHANGED <<profile, source, files, recorded, gated, stagings, image, machine, troubles>>
CopyHashed ==
  /\ preparing /\ writing["command"].stage = "payloads" /\ writing["command"].hashed
  /\ LET n == next("command").id IN
       /\ files' = [files EXCEPT !["command"].payload[n] = source[n]]
       /\ writing' = [writing EXCEPT !["command"] = IF source[n] = "none" THEN rest ELSE passed("command", {n})]
  /\ UNCHANGED <<profile, source, recorded, gated, stagings, image, machine, troubles>>

(* All payloads are there: the desktop saves the project, which may fail;    *)
(* the command line goes on to the generated files.                          *)
Payloads(s) ==
  /\ preparing /\ writing[s].stage = "payloads" /\ writing[s].left = <<>>
  /\ \/ /\ s = "desktop" /\ writing' = [writing EXCEPT ![s] = rest]
        /\ \/ recorded' = [script |-> generated(writing[s].of), payloads |-> writing[s].copied] /\ UNCHANGED troubles
           \/ trouble /\ UNCHANGED recorded
     \/ /\ s = "command" /\ writing' = [writing EXCEPT ![s].stage = "script"] /\ UNCHANGED <<recorded, troubles>>
  /\ UNCHANGED <<profile, source, files, gated, stagings, image, machine>>
Interrupt(s) ==
  /\ preparing /\ writing[s] # rest /\ trouble /\ writing' = [writing EXCEPT ![s] = rest]
  /\ UNCHANGED <<profile, source, files, recorded, gated, stagings, image, machine>>

(***************************************************************************)
(* The image. An operation of the plan checks every recorded file against  *)
(* its recorded hash, when the project's options ask for it, and later     *)
(* ones copy the files; SetupComplete runs the registration script. A      *)
(* folder of the command line has no registration script.                  *)
(***************************************************************************)
matches == /\ files["desktop"].script = recorded.script
           /\ \A n \in recorded.payloads: files["desktop"].payload[n] = "good"
Gate ==
  /\ preparing /\ recorded.script # noProfile /\ gated # "passed" /\ matches /\ gated' = "passed"
  /\ UNCHANGED <<profile, source, files, writing, recorded, stagings, image, machine, troubles>>
Apply ==
  /\ preparing /\ recorded.script # noProfile
  /\ image' = [by |-> "desktop", script |-> files["desktop"].script, checked |-> gated = "passed",
               payload |-> [n \in Names |-> IF n \in recorded.payloads THEN files["desktop"].payload[n] ELSE "none"]]
  /\ task' = TRUE /\ leavesBench
  /\ UNCHANGED <<programs, marker, cache, runs, mutex, troubles>>
Carry ==
  /\ preparing /\ files["command"].script # noProfile /\ writing["command"] = rest
  /\ image' = [by |-> "command", checked |-> FALSE, script |-> files["command"].script, payload |-> files["command"].payload]
  /\ leavesBench
  /\ UNCHANGED <<machine, troubles>>

(***************************************************************************)
(* The first-logon script. A thrown error ends the run and releases the    *)
(* mutex; the task stays registered.                                       *)
(***************************************************************************)
list == image.script.packages
current(s) == list[runs[s].at]
ended(s) == /\ runs' = [runs EXCEPT ![s] = rest] /\ mutex' = FALSE
goOn(s, n) ==
  runs' = [runs EXCEPT ![s].stage = "verify", ![s].at = @ + 1, ![s].seen = @ \cup {n}]

(* A second run finds the mutex held and exits at once.                      *)
mayRun == ~mutex
Run(s) ==
  /\ image # nothing /\ runs[s] = rest /\ mayRun /\ (s = "logon" => task)
  /\ mutex' = TRUE
  /\ runs' = [runs EXCEPT ![s] = [stage |-> "verify", at |-> 1, attempt |-> 1, network |-> FALSE, seen |-> {}]]
  /\ UNCHANGED <<staged, image, task, programs, marker, cache, troubles>>

Verify(s) ==
  /\ runs[s].stage = "verify" /\ runs[s].at <= Len(list)
  /\ LET n == current(s).id IN
       \/ n \in programs /\ marker' = [marker EXCEPT ![n] = "installed"] /\ goOn(s, n)
       \/ /\ n \notin programs
          /\ marker' = [marker EXCEPT ![n] = IF @ = "unreadable" THEN "none" ELSE @]
          /\ runs' = [runs EXCEPT ![s].stage = IF needsPayload(current(s)) THEN "payload"
                                               ELSE IF current(s).net /\ ~runs[s].network THEN "network" ELSE "install",
                                  ![s].attempt = 1]
  /\ UNCHANGED <<staged, image, task, programs, cache, mutex, troubles>>

(* Wait-WimForgeNetwork throws at once in the offline mode, and else when    *)
(* its time is over.                                                         *)
Network(s) ==
  /\ runs[s].stage = "network"
  /\ \/ /\ image.script.of.mode # "offline" /\ UNCHANGED <<mutex, troubles>>
        /\ runs' = [runs EXCEPT ![s].stage = IF needsPayload(current(s)) THEN "payload" ELSE "install", ![s].network = TRUE]
     \/ image.script.of.mode = "offline" /\ ended(s) /\ UNCHANGED troubles
     \/ image.script.of.mode # "offline" /\ trouble /\ ended(s)
  /\ UNCHANGED <<staged, image, task, programs, marker, cache>>

(* Get-WimForgePayload: the file of the bundle, or the cached download, or a *)
(* new download, which may end with an error or bring other contents.        *)
carried(s) == image.payload[current(s).id]
Download(s) ==
  /\ runs[s].stage = "payload" /\ carried(s) = "none"
  /\ LET n == current(s).id IN
       \/ ~current(s).url /\ ended(s) /\ UNCHANGED <<cache, troubles>>
       \/ /\ current(s).url /\ ~runs[s].network
          /\ runs' = [runs EXCEPT ![s].stage = "network"] /\ UNCHANGED <<cache, mutex, troubles>>
       \/ /\ current(s).url /\ runs[s].network /\ cache[n] = "none" /\ UNCHANGED <<runs, mutex>>
          /\ \/ cache' = [cache EXCEPT ![n] = "good"] /\ UNCHANGED troubles
             \/ trouble /\ cache' = [cache EXCEPT ![n] = "bad"]
       \/ /\ current(s).url /\ runs[s].network /\ cache[n] = "none"
          /\ trouble /\ ended(s) /\ UNCHANGED cache
  /\ UNCHANGED <<staged, image, task, programs, marker>>
payload(s) == IF carried(s) # "none" THEN carried(s) ELSE cache[current(s).id]
mutantTrusting(c) == c \in {"good", "bad"}
trusted(c) == c = "good"
Check(s) ==
  /\ runs[s].stage = "payload"
  /\ carried(s) # "none" \/ (cache[current(s).id] # "none" /\ runs[s].network)
  /\ \/ trusted(payload(s)) /\ runs' = [runs EXCEPT ![s].stage = "install"] /\ UNCHANGED mutex
     \/ ~trusted(payload(s)) /\ ended(s)
  /\ UNCHANGED <<staged, image, task, programs, marker, cache, troubles>>

Install(s) ==
  /\ runs[s].stage = "install"
  /\ marker' = [marker EXCEPT ![current(s).id] = "installing"]
  /\ runs' = [runs EXCEPT ![s].stage = "installing"]
  /\ UNCHANGED <<staged, image, task, programs, cache, mutex, troubles>>
Installed(s) ==
  /\ runs[s].stage = "installing"
  /\ LET n == current(s).id IN
       /\ programs' = programs \cup {n} /\ marker' = [marker EXCEPT ![n] = "installed"] /\ goOn(s, n)
  /\ UNCHANGED <<staged, image, task, cache, mutex, troubles>>

(* The installer fails, or it ends well and the package does not verify; it  *)
(* may have installed the package and still report a failure.                *)
lastAttempt(s) == runs[s].attempt = image.script.of.retries
afterFailure(s) == ended(s)
Failed(s) ==
  /\ runs[s].stage = "installing" /\ trouble
  /\ LET n == current(s).id IN
       /\ programs' \in {programs, programs \cup {n}}
       /\ marker' = [marker EXCEPT ![n] = "failed"]
       /\ \/ lastAttempt(s) /\ afterFailure(s)
          \/ /\ ~lastAttempt(s) /\ UNCHANGED mutex
             /\ runs' = [runs EXCEPT ![s].stage = "install", ![s].attempt = @ + 1]
  /\ UNCHANGED <<staged, image, task, cache>>
mutantStaysRegistered(s) ==
  /\ runs[s].stage = "verify" /\ runs[s].at > Len(list) /\ ended(s)
  /\ UNCHANGED <<staged, image, task, programs, marker, cache, troubles>>

(* Unregister-ScheduledTask may fail without a word: the task then starts    *)
(* the script at the next logon again.                                       *)
Complete(s) ==
  /\ runs[s].stage = "verify" /\ runs[s].at > Len(list) /\ ended(s)
  /\ \/ task' = FALSE /\ UNCHANGED troubles
     \/ trouble /\ UNCHANGED task
  /\ UNCHANGED <<staged, image, programs, marker, cache>>

(* The machine restarts, an installation may have taken hold, and the marker *)
(* last written may be unreadable.                                           *)
Restart ==
  /\ \E s \in Starts:
       /\ runs[s] # rest /\ runs[s].at <= Len(list)
       /\ LET n == current(s).id IN
            /\ programs' \in {programs} \cup {programs \cup {n} : t \in {u \in Starts: runs[u].stage = "installing"}}
            /\ marker' \in {marker, [marker EXCEPT ![n] = IF @ = "none" THEN @ ELSE "unreadable"]}
  /\ trouble /\ runs' = [s \in Starts |-> rest] /\ mutex' = FALSE
  /\ UNCHANGED <<staged, image, task, cache>>
Uninstall == \E n \in programs:
  /\ trouble /\ programs' = programs \ {n}
  /\ UNCHANGED <<staged, image, task, marker, cache, runs, mutex>>

Steps(s) == \/ Verify(s) \/ Network(s) \/ Download(s) \/ Check(s) \/ Install(s) \/ Installed(s) \/ Complete(s)
Next ==
  \/ Edit \/ Replace \/ Gate \/ Copy \/ Hash \/ CopyHashed \/ Apply \/ Carry \/ Restart \/ Uninstall
  \/ \E s \in Stagers: Stage(s) \/ Script(s) \/ Payloads(s) \/ Interrupt(s)
  \/ \E s \in Starts: Run(s) \/ Steps(s) \/ Failed(s)

(* Administrators keep logging on, and what the script starts comes to its   *)
(* end: network waits and retries are bounded, the task has a time limit.    *)
Fairness == WF_vars(Run("logon")) /\ \A s \in Starts: WF_vars(Steps(s))
Spec == Init /\ [][Next]_vars /\ Fairness

-----------------------------------------------------------------------------
TypeOK ==
  /\ profile \in Profiles /\ source \in [Names -> contents] /\ cache \in [Names -> contents]
  /\ marker \in [Names -> {"none", "installing", "installed", "failed", "unreadable"}]
  /\ programs \subseteq Names /\ {task, mutex} \subseteq BOOLEAN
  /\ troubles \in 0 .. MaxTroubles /\ stagings \in 0 .. MaxStagings

(* An image whose staged files were checked carries the bundle of one        *)
(* staging: every payload the profile of its script requires is there and is *)
(* the one the profile names, whatever later stagings, interrupted or not,   *)
(* did to the bundle's directory before the check                            *)
(* (materializeFirstLogonBundle writes it in place).                         *)
ImageIsComplete ==
  image # nothing /\ image.checked =>
    \A e \in ToSet(payloads(image.script.of)):
      /\ payloadRequired(image.script.of, e) => image.payload[e.id] = "good"
      /\ image.payload[e.id] # "bad"

(* A package is installed only after every package it depends on was seen    *)
(* to verify in the same run ("stops on failure so dependants do not install *)
(* into a broken state", docs/wiki/Package-Studio.md).                       *)
DependenciesFirst == \A s \in Starts:
  runs[s].stage = "installing" => ToSet(current(s).dependencies) \subseteq runs[s].seen

(* Only one installer runs at a time, and an installer of a payload runs     *)
(* only with the contents the profile names, whoever staged the bundle and   *)
(* whatever was downloaded.                                                  *)
OneTrustedInstaller == \A s \in Starts:
  runs[s].stage = "installing" =>
    /\ \A t \in Starts \ {s}: runs[t] = rest
    /\ needsPayload(current(s)) => payload(s) = "good"

(* The task is unregistered only by a run at whose end every package of the  *)
(* script has been installed and verified.                                   *)
UnregisteredWhenDone ==
  [][task /\ ~task' => \A e \in ToSet(list): marker[e.id] = "installed"]_vars

(* Later logons complete the installation and unregister the task, which is  *)
(* one of the troubles they go through, unless a download brought other      *)
(* contents, which stay in the cache and are refused each time, or the       *)
(* image was made of unchecked files, or the profile is offline and enables  *)
(* an installer with only an address.                                        *)
poisoned == \E n \in Names: cache[n] = "bad"
cutOff == /\ image # nothing /\ image.script.of.mode = "offline"
          /\ \E e \in ToSet(enabled(image.script.of)): needsPayload(e) /\ ~e.payload
LogonsComplete == (task /\ image.checked) ~> (~task \/ poisoned \/ cutOff)
=============================================================================
