----------------------------- MODULE MCSessions -----------------------------
(***************************************************************************)
(* The three things that run programs for the operator, checked in one     *)
(* run: an embedded terminal, the OpenCode helper, and the packages of an  *)
(* image. They share nothing, so a behaviour is one of one of them, with   *)
(* the others at rest.                                                     *)
(***************************************************************************)
EXTENDS Terminal, TLC

CONSTANTS Names, Profiles, MaxCalls, MaxChanges, MaxTroubles, MaxStagings

VARIABLES machine, setup, authorized, shuttingDown, attempt, path, callers, requests,
          request, verified, calls, changes,
          profile, source, files, writing, recorded, gated, image, task, programs, marker,
          cache, runs, mutex, troubles, stagings,
          subject       \* which of the three this behaviour is about
helper == <<machine, setup, authorized, shuttingDown, attempt, path, callers, requests,
            request, verified, calls, changes>>
packages == <<profile, source, files, writing, recorded, gated, image, task, programs, marker,
              cache, runs, mutex, troubles, stagings>>

OC == INSTANCE OpenCode

(* Profiles: a download before what depends on it; only carried payloads; an   *)
(* address in an offline profile; a payload or an address; a cycle.            *)
Package(id, provider, net, payload, url, dependencies) ==
  [id |-> id, on |-> TRUE, provider |-> provider, net |-> net, payload |-> payload, url |-> url,
   dependencies |-> dependencies]
Profile(mode, retries, list) == [mode |-> mode, retries |-> retries, packages |-> list]
SmallProfiles ==
  {Profile("online", 2, <<Package("b", "winget", TRUE, FALSE, FALSE, <<"a">>),
                          Package("a", "direct", FALSE, FALSE, TRUE, <<>>)>>),
   Profile("offline", 1, <<Package("b", "offline", FALSE, TRUE, FALSE, <<"a">>),
                           Package("a", "offline", FALSE, TRUE, FALSE, <<>>)>>),
   Profile("offline", 1, <<Package("a", "direct", FALSE, FALSE, TRUE, <<>>)>>),
   Profile("prefer-offline", 2, <<Package("a", "direct", FALSE, TRUE, TRUE, <<>>)>>),
   Profile("online", 2, <<Package("b", "winget", TRUE, FALSE, FALSE, <<"a">>),
                          Package("a", "winget", TRUE, FALSE, FALSE, <<"b">>)>>)}
PS == INSTANCE PackageStudio

ASSUME BoundsAssumption ==
  MaxCalls \in Nat /\ MaxChanges \in Nat /\ MaxTroubles \in Nat /\ MaxStagings \in Nat

(* A profile lists packages, each with its identifier and those it names as   *)
(* its dependencies.                                                          *)
ASSUME ProfilesAssumption ==
  \A p \in Profiles:
    /\ p.packages \in Seq(ToSet(p.packages))
    /\ \A e \in ToSet(p.packages): e.id \in Names /\ e.dependencies \in Seq(Names)

(* A process that writes up to five bytes; the second and the third are one  *)
(* character.                                                                *)
SmallStream == <<"single", "first", "second", "single", "single">>

MCInit ==
  /\ subject \in {"terminal", "opencode", "packages"}
  /\ Init /\ OC!Init /\ PS!Init
  /\ (subject = "opencode" \/ machine = {})
  /\ (subject = "packages" \/ profile.mode = "prefer-offline")
MCNext ==
  \/ subject = "terminal" /\ Next /\ UNCHANGED <<helper, packages, subject>>
  \/ subject = "opencode" /\ OC!Next /\ UNCHANGED <<vars, packages, subject>>
  \/ subject = "packages" /\ PS!Next /\ UNCHANGED <<vars, helper, subject>>
MCSpec == MCInit /\ [][MCNext]_<<vars, helper, packages, subject>> /\ Fairness /\ OC!Fairness /\ PS!Fairness

-----------------------------------------------------------------------------
(* What a terminal shows is what its process wrote: all of it when the exit  *)
(* is reported, in whole characters; and a session is terminated only by its *)
(* own stop (Terminal).                                                      *)
OutputIsFaithful ==
  TypeOK /\ ExitShowsEverything /\ WholeCharacters /\ ForcedOnlyByItsStop

(* What is installed was meant to be: a checked image carries the payloads   *)
(* of its profile, one trusted installer runs at a time, after what it       *)
(* depends on (PackageStudio), and OpenCode is called ready only when the    *)
(* program has answered (OpenCode).                                          *)
InstallsAreSafe ==
  /\ PS!TypeOK /\ PS!ImageIsComplete /\ PS!DependenciesFirst /\ PS!OneTrustedInstaller
  /\ OC!TypeOK /\ OC!ReadyIsVerified

(* What is asked for comes to an end: a terminal's stop, a request for       *)
(* readiness and a queued OpenCode request. The first-logon task is          *)
(* unregistered only when everything is installed, and later logons get      *)
(* there (PackageStudio).                                                    *)
AskedEnds ==
  /\ StopEnds /\ OC!CallersAnswered /\ OC!RequestsEnd
  /\ PS!UnregisteredWhenDone /\ PS!LogonsComplete
=============================================================================
