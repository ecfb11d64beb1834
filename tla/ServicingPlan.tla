---------------------------- MODULE ServicingPlan ----------------------------
(***************************************************************************)
(* ServicingPlan::build: from a project to a list of operations with their *)
(* dependencies.  Program(p) is the control flow of the function, the      *)
(* operations a project asks for in the order of the code; one action per  *)
(* kind of operation appends the next one and wires its dependencies from  *)
(* the local variables the code keeps (lastImageWrite and its like).       *)
(*                                                                         *)
(* An operation is its place in the list: nextId counts what was created,  *)
(* and everything created is appended at once.  `writes` and `reads` name  *)
(* the trees the operation's command touches, which the code does not      *)
(* record; `behind` collects everything the operation waits for, directly  *)
(* or not.  Command lines, titles and warnings are left out, and the       *)
(* checks of paths are one flag, pathsOk.                                  *)
(***************************************************************************)
EXTENDS Naturals, Sequences

CONSTANT Projects       \* the projects a plan is built for

VARIABLES
  project,          \* the argument of build
  todo,             \* the operations build has still to create
  ops,              \* result.operations
  verificationIds, mediaPreparation, imagePreparation,
  lastMediaWrite, lastImageWrite, lastOutputWrite,
  outcome           \* "building", "rejected", "incomplete" or "built"

builder == <<verificationIds, mediaPreparation, imagePreparation,
             lastMediaWrite, lastImageWrite, lastOutputWrite>>
vars == <<project, todo, ops, builder, outcome>>

None == 0               \* the empty id
ids == 1..Len(ops)
next == Len(ops) + 1

-----------------------------------------------------------------------------
(* Facts about the project that build computes first. *)

mediaSource(p) == ~p.online /\ p.source \in {"folder", "iso"}
splitInput(p) == p.container = "swm"
esdInput(p) == p.container = "esd"
convertedInput(p) == splitInput(p) \/ esdInput(p)
creatingIso(p) == p.format = "iso" \/ p.createIso

Entries(list) == {list[i] : i \in DOMAIN list}

pathErrors(p) == ~p.pathsOk

sourceErrors(p) ==
  \/ ~p.online /\ ~p.clone /\ (~p.inPlace \/ mediaSource(p) \/ convertedInput(p))
  \/ creatingIso(p) /\ (p.online \/ ~mediaSource(p))

\* What would be put into a mounted image cannot be asked of the running system.
payloadErrors(p) ==
  p.online /\ (p.tasks > 0 \/ "image" \in Entries(p.staged) \/ "removeImage" \in Entries(p.answers))

\* Two of build's returns: nothing has been planned by then.
rejects(p) == pathErrors(p) \/ sourceErrors(p) \/ payloadErrors(p)

-----------------------------------------------------------------------------
(* The operations of a project, in the order of the code. *)

Times(n, step) == [i \in 1..n |-> step]
When(condition, steps) == IF condition THEN steps ELSE <<>>

preparation(p) ==
  When(~p.online /\ p.clone,
       When(mediaSource(p), <<"media">>)
       \o When(~convertedInput(p) /\ (~mediaSource(p) \/ p.external), <<"image">>)
       \o When(convertedInput(p), <<"convertClear", "convert", "convertPublish">>))

\* Drivers, updates, packages, features and capabilities; then what is removed or provisioned.
integrations(p) == Times(p.changes, "change")
removals(p) == Times(p.removals, "change") \o Times(p.tasks, "change")

registryEdits(p) ==
  IF p.online THEN Times(p.tweaks, "hostEdit")
  ELSE [i \in 1..(3 * p.tweaks) |-> <<"regload", "regedit", "regunload">>[((i - 1) % 3) + 1]]

lastChanges(p) == Times(p.postSetup, "change") \o When(p.cleanup, <<"change">>) \o <<"validate">>

publication(p) ==
  When(~p.online /\ ~p.discard,
       When(p.format \in {"wim", "esd"}, <<"exportClear", "export", "exportPublish">>)
       \o When(p.format = "swm",
               When(~p.workingIsWim, <<"wimClear", "wimExport", "wimPublish">>)
               \o <<"splitClear", "split", "splitPublish">>))

mediaImage(p) ==
  When(~p.online /\ ~p.discard /\ mediaSource(p) /\ creatingIso(p),
       When(esdInput(p), <<"esdClear", "esdExport", "esdPublish">>)
       \o When(splitInput(p), <<"partsClear", "parts", "partsPublish">>))

isoBuild(p) == When(~p.online /\ ~p.discard /\ creatingIso(p), <<"isoClear", "iso", "isoPublish">>)

Program(p) ==
  When(p.verify, Times(p.inputs, "hash"))
  \o preparation(p)
  \o When(~p.online, <<"inspect", "mount">>)
  \o integrations(p) \o removals(p)
  \o [i \in DOMAIN p.staged |-> IF p.staged[i] = "image" THEN "stageImage" ELSE "stageMedia"]
  \o registryEdits(p)
  \o p.answers
  \o lastChanges(p)
  \o When(~p.online, <<"unmount">>)
  \o publication(p) \o mediaImage(p) \o isoBuild(p)

-----------------------------------------------------------------------------
(* Appending one operation. *)

\* The image file is a place of its own, also when it lies in the media tree.
imageInMedia == mediaSource(project) /\ ~convertedInput(project)
target == IF project.online THEN {"host"} ELSE {"mount"}

Given(dependencies) == dependencies \ {None}
waitsFor(dependencies) == dependencies \cup UNION {ops[d].behind : d \in dependencies}

NewOperation(dependencies, writes, reads, flag) ==
  [step |-> Head(todo), deps |-> Given(dependencies), behind |-> waitsFor(Given(dependencies)),
   writes |-> writes, reads |-> reads, flag |-> flag]

Creates(step) == outcome = "building" /\ todo # <<>> /\ Head(todo) = step

Emit(dependencies, writes, reads, flag) ==
  /\ todo' = Tail(todo)
  /\ ops' = Append(ops, NewOperation(dependencies, writes, reads, flag))
  /\ UNCHANGED <<project, outcome>>

\* writesMountedImage and writesMediaWorkspace are the flag.
chainImageWrite(dependencies, writes) ==
  /\ Emit(dependencies \cup {lastImageWrite}, writes, {}, "image")
  /\ lastImageWrite' = next

mutantForgetMedia(dependencies, writes, reads) ==
  /\ Emit(dependencies, writes, reads, "media")
  /\ lastMediaWrite' = next

chainMediaWrite(dependencies, writes, reads) ==
  /\ Emit(dependencies \cup {lastMediaWrite}, writes, reads, "media")
  /\ lastMediaWrite' = next

\* An operation that only follows the one appended before it.
follow(writes, reads) == Emit({Len(ops)}, writes, reads, "none")

-----------------------------------------------------------------------------
Reject ==
  /\ outcome = "building" /\ ops = <<>> /\ rejects(project)
  /\ outcome' = "rejected"
  /\ UNCHANGED <<project, todo, ops, builder>>

Accepted == ~rejects(project)

verified(known, id) == known \cup {id}

VerifyInput ==
  /\ Accepted /\ Creates("hash")
  /\ Emit({}, {}, {"source"}, "none")
  /\ verificationIds' = verified(verificationIds, next)
  /\ UNCHANGED <<mediaPreparation, imagePreparation, lastMediaWrite, lastImageWrite, lastOutputWrite>>

PrepareMedia ==
  /\ Accepted /\ Creates("media")
  /\ chainMediaWrite(verificationIds,
                     IF imageInMedia THEN {"media", "image"} ELSE {"media"}, {"source"})
  /\ mediaPreparation' = next
  /\ imagePreparation' = IF convertedInput(project) \/ project.external
                         THEN imagePreparation ELSE next
  /\ UNCHANGED <<verificationIds, lastImageWrite, lastOutputWrite>>

\* The copy is chained as a media write when the working image lies in the media tree.
CloneImage ==
  /\ Accepted /\ Creates("image")
  /\ imagePreparation' = next
  /\ IF mediaSource(project)
     THEN chainMediaWrite(verificationIds \cup {mediaPreparation}, {"image"}, {"source"})
     ELSE /\ Emit(verificationIds \cup {mediaPreparation}, {"image"}, {"source"}, "image")
          /\ UNCHANGED lastMediaWrite
  /\ UNCHANGED <<verificationIds, mediaPreparation, lastImageWrite, lastOutputWrite>>

ConvertInput ==
  /\ Accepted
  /\ \/ /\ Creates("convertClear")
        /\ Emit(verificationIds \cup {mediaPreparation}, {"partial"}, {}, "none")
        /\ UNCHANGED imagePreparation
     \/ /\ Creates("convert")
        /\ follow({"partial"}, IF mediaSource(project) /\ ~project.external
                               THEN {"media"} ELSE {"source"})
        /\ UNCHANGED imagePreparation
     \/ /\ Creates("convertPublish")
        /\ follow({"image"}, {"partial"})
        /\ imagePreparation' = next
  /\ UNCHANGED <<verificationIds, mediaPreparation, lastMediaWrite, lastImageWrite, lastOutputWrite>>

Inspect ==
  /\ Accepted /\ Creates("inspect")
  /\ Emit(verificationIds \cup {imagePreparation}, {}, {"image"}, "none")
  /\ UNCHANGED builder

Mount ==
  /\ Accepted /\ Creates("mount")
  /\ chainImageWrite(verificationIds \cup {Len(ops)}, {"mount"})
  /\ UNCHANGED <<verificationIds, mediaPreparation, imagePreparation, lastMediaWrite, lastOutputWrite>>

\* One change of the mounted image (or of the running system): an integration, a
\* removal, an answer file, a post-setup command, the cleanup, the health scan.
ChangeTarget ==
  /\ Accepted
  /\ \E step \in {"change", "apply", "removeImage", "validate", "regload", "regedit", "regunload"} :
       Creates(step)
  /\ chainImageWrite({}, target)
  /\ UNCHANGED <<verificationIds, mediaPreparation, imagePreparation, lastMediaWrite, lastOutputWrite>>

\* A registry edit of the running system is chained but not flagged.
EditHostRegistry ==
  /\ Accepted /\ Creates("hostEdit")
  /\ Emit({lastImageWrite}, {"host"}, {}, "none")
  /\ lastImageWrite' = next
  /\ UNCHANGED <<verificationIds, mediaPreparation, imagePreparation, lastMediaWrite, lastOutputWrite>>

StageFile ==
  /\ Accepted
  /\ \/ /\ Creates("stageImage")
        /\ chainImageWrite(verificationIds, target)
        /\ UNCHANGED lastMediaWrite
     \/ /\ Creates("stageMedia")
        /\ chainMediaWrite(verificationIds \cup {mediaPreparation}, {"media"}, {})
        /\ UNCHANGED lastImageWrite
  /\ UNCHANGED <<verificationIds, mediaPreparation, imagePreparation, lastOutputWrite>>

RemoveMediaAnswer ==
  /\ Accepted /\ Creates("removeMedia")
  /\ chainMediaWrite({mediaPreparation}, {"media"}, {})
  /\ UNCHANGED <<verificationIds, mediaPreparation, imagePreparation, lastImageWrite, lastOutputWrite>>

\* Commit or discard, then release the mount.
Unmount ==
  /\ Accepted /\ Creates("unmount")
  /\ chainImageWrite({}, {"mount"} \cup IF project.discard THEN {} ELSE {"image"})
  /\ lastOutputWrite' = next
  /\ UNCHANGED <<verificationIds, mediaPreparation, imagePreparation, lastMediaWrite>>

ExportImage ==
  /\ Accepted
  /\ \/ /\ Creates("exportClear")
        /\ Emit({lastImageWrite}, {"output"}, {}, "none")
        /\ UNCHANGED lastOutputWrite
     \/ /\ Creates("export")
        /\ follow({"output"}, {"image"})
        /\ UNCHANGED lastOutputWrite
     \/ /\ Creates("exportPublish")
        /\ follow({"output"}, {})
        /\ lastOutputWrite' = next
  /\ UNCHANGED <<verificationIds, mediaPreparation, imagePreparation, lastMediaWrite, lastImageWrite>>

\* The working image as a WIM, when it is something else and is to be split.
ExportForSplit ==
  /\ Accepted
  /\ \/ Creates("wimClear") /\ Emit({lastImageWrite}, {"intermediary"}, {}, "none")
     \/ Creates("wimExport") /\ follow({"intermediary"}, {"image"})
     \/ Creates("wimPublish") /\ follow({"intermediary"}, {})
  /\ UNCHANGED builder

SplitOutput ==
  /\ Accepted
  /\ \/ /\ Creates("splitClear")
        /\ Emit({IF project.workingIsWim THEN lastImageWrite ELSE Len(ops)}, {"split"}, {}, "none")
        /\ UNCHANGED lastOutputWrite
     \/ /\ Creates("split")
        /\ follow({"split"}, IF project.workingIsWim THEN {"image"} ELSE {"intermediary"})
        /\ UNCHANGED lastOutputWrite
     \/ /\ Creates("splitPublish")
        /\ follow({"output"}, {"split"})
        /\ lastOutputWrite' = next
  /\ UNCHANGED <<verificationIds, mediaPreparation, imagePreparation, lastMediaWrite, lastImageWrite>>

\* The serviced edition goes back into the media as an ESD ...
RebuildMediaEsd ==
  /\ Accepted
  /\ \/ Creates("esdClear") /\ chainMediaWrite({lastImageWrite}, {"media"}, {})
     \/ Creates("esdExport") /\ chainMediaWrite({}, {"media"}, {"image"})
     \/ Creates("esdPublish") /\ chainMediaWrite({}, {"media"}, {})
  /\ UNCHANGED <<verificationIds, mediaPreparation, imagePreparation, lastImageWrite, lastOutputWrite>>

\* ... or as SWM parts; only their publication is flagged as a media write.
SplitIntoMedia ==
  /\ Accepted
  /\ \/ /\ Creates("partsClear")
        /\ Emit({lastImageWrite, lastMediaWrite}, {"parts"}, {}, "none")
        /\ UNCHANGED lastMediaWrite
     \/ /\ Creates("parts")
        /\ follow({"parts"}, {"image"})
        /\ UNCHANGED lastMediaWrite
     \/ /\ Creates("partsPublish")
        /\ Emit({Len(ops)}, {"media"}, {"parts"}, "media")
        /\ lastMediaWrite' = next
  /\ UNCHANGED <<verificationIds, mediaPreparation, imagePreparation, lastImageWrite, lastOutputWrite>>

flagged == {i \in ids : ops[i].flag # "none"}

CreateIso ==
  /\ Accepted /\ project.isoPathOk
  /\ \/ Creates("isoClear") /\ Emit({lastOutputWrite, lastMediaWrite}, {"iso"}, {}, "none")
     \/ Creates("iso") /\ Emit(flagged \cup {Len(ops)}, {"iso"},
                           IF imageInMedia THEN {"media", "image"} ELSE {"media"}, "none")
     \/ Creates("isoPublish") /\ follow({"iso"}, {})
  /\ UNCHANGED builder

\* A bad ISO path is an error, and the operations planned so far are returned with it.
RefuseIso ==
  /\ Accepted /\ Creates("isoClear") /\ ~project.isoPathOk
  /\ outcome' = "incomplete" /\ todo' = <<>>
  /\ UNCHANGED <<project, ops, builder>>

Finish ==
  /\ Accepted /\ outcome = "building" /\ todo = <<>>
  /\ outcome' = "built"
  /\ UNCHANGED <<project, todo, ops, builder>>

Start ==
  /\ todo = Program(project)
  /\ ops = <<>>
  /\ verificationIds = {}
  /\ mediaPreparation = None /\ imagePreparation = None
  /\ lastMediaWrite = None /\ lastImageWrite = None /\ lastOutputWrite = None
  /\ outcome = "building"

Init == project \in Projects /\ Start

Next ==
  \/ Reject \/ VerifyInput \/ PrepareMedia \/ CloneImage \/ ConvertInput \/ Inspect \/ Mount
  \/ ChangeTarget \/ EditHostRegistry \/ StageFile \/ RemoveMediaAnswer \/ Unmount
  \/ ExportImage \/ ExportForSplit \/ SplitOutput \/ RebuildMediaEsd \/ SplitIntoMedia
  \/ CreateIso \/ RefuseIso \/ Finish

Spec == Init /\ [][Next]_vars

-----------------------------------------------------------------------------
\* Of two operations that write the same tree the later one waits for the earlier
\* one through dependencies, whatever order the user brings the list into.
WritersOrdered ==
  \A i, j \in ids :
    i < j /\ ops[i].writes \cap ops[j].writes # {} => i \in ops[j].behind

\* What is published, exported, split or burned is final: every operation of the
\* plan that writes what the command reads is over before it starts.
Publishing == {"export", "wimExport", "split", "esdExport", "parts", "iso"}
OutputIsFinal ==
  \A i, j \in ids :
    ops[j].step \in Publishing /\ ops[i].writes \cap ops[j].reads # {} => i \in ops[j].behind

hashes == {i \in ids : ops[i].step = "hash"}

\* No working image is written, mounted or changed before every hash has been
\* verified, so that a failed hash blocks all of it.
ImageWritesGated ==
  \A i \in ids :
    ops[i].writes \cap {"image", "mount", "partial"} # {} => hashes \subseteq ops[i].behind
=============================================================================
