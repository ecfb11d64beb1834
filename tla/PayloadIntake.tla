---------------------------- MODULE PayloadIntake ----------------------------
(***************************************************************************)
(* What a window takes into its project: payload files and folders,        *)
(* downloads of the Microsoft Update Catalog, the host's drivers, and the  *)
(* inventory of the source.  Threads, processes and network replies answer *)
(* later, when another project may be open.  A late answer is told by      *)
(* generations: taken with the question, compared with the answer.         *)
(* mutateProject() changes a project at once; ProjectPersistence has its   *)
(* saving.                                                                 *)
(***************************************************************************)
EXTENDS Naturals, FiniteSets

CONSTANTS
  Directory, NoDirectory,
  Source, NoSource,          \* paths of Windows images
  UpdateFiles,               \* the number of files of an update in the catalogue
  MaxRequests,               \* bound: what the operator asks for
  MaxOpenings,               \* bound: openings of a project and other reloads of it
  MaxTroubles                \* bound: failures

ASSUME NoDirectoryAssumption == NoDirectory \notin Directory /\ NoSource \notin Source
ASSUME UpdateAssumption == UpdateFiles \in Nat \ {0}

VARIABLES
  running,             \* FALSE once the program has died of using a freed reply
  project,             \* m_project
  transition,          \* the project being opened, while m_projectTransitionBusy
  scope,               \* m_projectScopeGeneration
  \* of each project
  payloads,            \* drivers and updates
  source, inventory,   \* sourcePath, and the source imageInventory was read from
  disk,                \* the downloads in its payload folders
  \* the update catalogue
  query, results,      \* m_updateCatalogQuery, m_updateCatalogResults
  busy,                \* m_updateCatalogBusy
  operation,           \* m_catalogOperationGeneration
  reply,               \* m_catalogReply
  replies,             \* the replies in flight; one that ended is freed
  automatic,           \* zero timers of loadProjectState()
  \* the folder scan
  scanBusy, scanGeneration, scans,
  \* the metadata of the payloads: m_catalogDriverPaths and m_catalogUpdatePaths,
  \* the items shown, and the readers
  paths, described, metadataBusy, metadataGeneration, readers,
  \* processes
  inspecting,          \* m_inspecting
  inspection,          \* m_sourceInspectionGeneration
  inspections, exports,
  \* history
  refused,             \* whole downloads of the open project that it did not queue
  lost,                \* downloads lost by a rename that failed
  unopened,            \* has an opening or a reload failed?
  requests, openings, troubles

projectVars  == <<project, transition, scope>>
contents     == <<payloads, source, inventory>>
catalogue    == <<query, results, busy, operation, reply, replies>>
scanning     == <<scanBusy, scanGeneration, scans>>
metadata     == <<paths, described, metadataBusy, metadataGeneration, readers>>
processes    == <<inspecting, inspection, inspections, exports>>
downloads    == <<disk, refused, lost>>
spent       == <<requests, openings, troubles>>
intakeVars == <<running, projectVars, contents, catalogue, automatic, scanning, metadata, processes,
          downloads, unopened, spent>>

Category == {"drivers", "updates"}
Payload == [as : Category, what : {"inf", "cab", "folder", "hostDrivers", "download"},
            for : Directory, n : 0 .. UpdateFiles]

Query == Source \cup {NoSource, "typed"}
Reply == [kind : {"search", "dialog", "file"}, operation : Nat, scope : Nat,
          for : Directory \cup {NoDirectory}, as : Category, what : Query, n : 0 .. UpdateFiles]
NoReply == [kind |-> "none", operation |-> 0, scope |-> 0, for |-> NoDirectory, as |-> "updates",
            what |-> NoSource, n |-> 0]
Automatic == [scope : Nat, query : Source]
Scan == [generation : Nat, scope : Nat, for : Directory, as : Category]
Reader == [generation : Nat, paths : SUBSET Payload]
Inspection == [generation : Nat, scope : Nat, for : Directory, source : Source, late : BOOLEAN]
Export == [id : Nat, for : Directory]

IntakeTypeOK ==
  /\ running \in BOOLEAN /\ unopened \in BOOLEAN
  /\ project \in Directory \cup {NoDirectory} /\ transition \in Directory \cup {NoDirectory}
  /\ scope \in Nat
  /\ payloads \in [Directory -> SUBSET Payload]
  /\ source \in [Directory -> Source \cup {NoSource}]
  /\ inventory \in [Directory -> Source \cup {NoSource}]
  /\ disk \subseteq Payload /\ refused \subseteq Payload /\ lost \subseteq Payload
  /\ query \in Query /\ busy \in BOOLEAN /\ operation \in Nat
  /\ results \subseteq [query : Query, for : Directory \cup {NoDirectory}]
  /\ reply \in Reply \cup {NoReply} /\ replies \subseteq Reply
  /\ automatic \subseteq Automatic
  /\ scanBusy \in BOOLEAN /\ scanGeneration \in Nat /\ scans \subseteq Scan
  /\ paths \subseteq Payload /\ described \subseteq Payload
  /\ metadataBusy \in BOOLEAN /\ metadataGeneration \in Nat /\ readers \subseteq Reader
  /\ inspecting \in BOOLEAN /\ inspection \in Nat /\ inspections \subseteq Inspection
  /\ exports \subseteq Export
  /\ requests \in Nat /\ openings \in Nat /\ troubles \in Nat

IntakeInit ==
  /\ running = TRUE
  /\ project \in Directory \cup {NoDirectory} /\ transition = NoDirectory /\ scope = 0
  /\ payloads = [p \in Directory |-> {}] /\ source = [p \in Directory |-> NoSource]
  /\ inventory = source /\ disk = {}
  /\ query = NoSource /\ results = {} /\ busy = FALSE /\ operation = 0
  /\ reply = NoReply /\ replies = {} /\ automatic = {}
  /\ scanBusy = FALSE /\ scanGeneration = 0 /\ scans = {}
  /\ paths = {} /\ described = {} /\ metadataBusy = FALSE /\ metadataGeneration = 0
  /\ readers = {}
  /\ inspecting = FALSE /\ inspection = 0 /\ inspections = {} /\ exports = {}
  /\ refused = {} /\ lost = {} /\ unopened = FALSE
  /\ requests = 0 /\ openings = 0 /\ troubles = 0

ask  == requests < MaxRequests /\ requests' = requests + 1 /\ UNCHANGED <<openings, troubles>>
opening == openings < MaxOpenings /\ openings' = openings + 1 /\ UNCHANGED <<requests, troubles>>
spend(k) ==
  troubles + k <= MaxTroubles /\ troubles' = troubles + k /\ UNCHANGED <<requests, openings>>

\* What mutateProject() asks for.
mayChange == project # NoDirectory /\ transition = NoDirectory

-----------------------------------------------------------------------------
(* The metadata of the queued payloads, read by a thread.                   *)

describe(list) ==
  /\ paths' = list /\ described' = {}
  /\ metadataGeneration' = metadataGeneration + 1
  /\ metadataBusy' = (list # {})
  /\ readers' = IF list = {} THEN readers
                ELSE readers \cup {[generation |-> metadataGeneration', paths |-> list]}

\* reloadPayloadCatalog(), unless it is forced.
reloadPayloadCatalog(list) == IF list = paths THEN UNCHANGED metadata ELSE describe(list)

MetadataRead(r) ==
  /\ r \in readers /\ readers' = readers \ {r}
  /\ IF r.generation = metadataGeneration /\ r.paths = paths
     THEN described' = r.paths /\ metadataBusy' = FALSE
     ELSE UNCHANGED <<described, metadataBusy>>
  /\ UNCHANGED <<running, projectVars, contents, catalogue, automatic, scanning, paths,
                 metadataGeneration, processes, downloads, unopened, spent>>

now == IF project = NoDirectory THEN {} ELSE payloads[project]

refreshPayloadCatalog ==
  /\ ask /\ describe(now)
  /\ UNCHANGED <<running, projectVars, contents, catalogue, automatic, scanning, processes,
                 downloads, unopened>>

\* mutateProject() on the lists of payloads, and the refresh behind it.
setPayloads(list) ==
  /\ payloads' = [payloads EXCEPT ![project] = list]
  /\ reloadPayloadCatalog(list)

-----------------------------------------------------------------------------
(* The update catalogue. Qt's abort() delivers finished() before it returns, *)
(* so an aborted reply is gone at once; its handler finds nothing to do.     *)

\* cancelUpdateCatalog() aborts the reply it kept. Of one that was freed meanwhile
\* anything may come: the program dies or it does not.
abortKept == running' \in IF reply \in replies \cup {NoReply} THEN {TRUE} ELSE BOOLEAN
notAborted == replies \ {reply}

begin(kind, op, as, what, n, others) ==
  LET r == [kind |-> kind, operation |-> op, scope |-> scope, for |-> project, as |-> as,
            what |-> what, n |-> n]
  IN  reply' = r /\ replies' = others \cup {r}

\* Nothing to search for: the reply in flight is not aborted, but outdated.
searchUpdateCatalog(q) ==
  /\ operation' = operation + 1
  /\ query' = q /\ results' = {}
  /\ \/ q = NoSource /\ busy' = FALSE /\ UNCHANGED <<running, reply, replies>>
     \/ /\ q # NoSource
        /\ abortKept /\ begin("search", operation + 1, "updates", q, 0, notAborted)
        /\ busy' = TRUE

\* The sheet searches what was typed while it is not busy, and what the inventory
\* suggests whenever it is opened.
Search ==
  /\ ask
  /\ \/ ~busy /\ \E q \in {"typed", NoSource} : searchUpdateCatalog(q)
     \/ /\ project # NoDirectory /\ inventory[project] # NoSource
        /\ searchUpdateCatalog(inventory[project])
  /\ UNCHANGED <<projectVars, contents, automatic, scanning, metadata, processes, downloads,
                 unopened>>

AutomaticSearch(a) ==
  /\ a \in automatic /\ automatic' = automatic \ {a}
  /\ IF a.scope = scope THEN searchUpdateCatalog(a.query) ELSE UNCHANGED <<running, catalogue>>
  /\ UNCHANGED <<projectVars, contents, scanning, metadata, processes, downloads, unopened,
                 spent>>

cancelUpdateCatalog ==
  /\ ask /\ busy
  /\ abortKept /\ reply' = NoReply /\ replies' = notAborted /\ busy' = FALSE
  /\ UNCHANGED <<projectVars, contents, query, results, operation, automatic, scanning,
                 metadata, processes, downloads, unopened>>

downloadUpdateCatalogItem(as) ==
  /\ ask /\ project # NoDirectory /\ ~busy /\ results # {}
  /\ abortKept
  /\ operation' = operation + 1
  /\ begin("dialog", operation + 1, as, NoSource, 0, notAborted)
  /\ busy' = TRUE
  /\ UNCHANGED <<projectVars, contents, query, results, automatic, scanning, metadata,
                 processes, downloads, unopened>>

currentRequest(r) == r.operation = operation /\ r.scope = scope /\ r.for = project

\* A stale reply is freed, and m_catalogReply may go on pointing to it.
StaleReply(r) ==
  /\ r \in replies /\ r.kind # "file" /\ ~currentRequest(r)
  /\ replies' = replies \ {r}
  /\ UNCHANGED <<running, projectVars, contents, query, results, busy, operation, reply,
                 automatic, scanning, metadata, processes, downloads, unopened, spent>>

forget(r) == IF reply = r THEN NoReply ELSE reply

SearchEnds(r) ==
  /\ r \in replies /\ r.kind = "search" /\ currentRequest(r)
  /\ replies' = replies \ {r} /\ reply' = forget(r) /\ busy' = FALSE
  /\ \/ results' = results \cup {[query |-> r.what, for |-> r.for]} /\ spend(0)
     \/ results' = {} /\ spend(1)
  /\ UNCHANGED <<running, projectVars, contents, query, operation, automatic, scanning, metadata,
                 processes, downloads, unopened>>

mutantForgetTheBusyFlag(r, others, kept) == busy' = busy /\ reply' = kept /\ replies' = others
\* No file is left to download.
downloadsEnd(r, others, kept) == busy' = FALSE /\ reply' = kept /\ replies' = others

\* The next file whose sidecar can be opened, at or after the n-th.
nextFile(r, n, others, kept, failures) ==
  \E i \in n .. UpdateFiles + 1 :
    /\ spend(failures + i - n)
    /\ IF i > UpdateFiles THEN downloadsEnd(r, others, kept)
       ELSE begin("file", r.operation, r.as, NoSource, i, others) /\ UNCHANGED busy

\* The answer holds the addresses of the files, or none that is trusted.
DialogEnds(r) ==
  /\ r \in replies /\ r.kind = "dialog" /\ currentRequest(r)
  /\ \/ nextFile(r, 1, replies \ {r}, forget(r), 0)
     \/ busy' = FALSE /\ reply' = forget(r) /\ replies' = replies \ {r} /\ spend(1)
  /\ UNCHANGED <<running, projectVars, contents, query, results, operation, automatic, scanning,
                 metadata, processes, downloads, unopened>>

supported(e) == e.what \in IF e.as = "drivers" THEN {"inf"} ELSE {"cab", "download"}

mutantForgetsTheQueue(e) == FALSE
\* Is the file already queued, as by an earlier download of it?
referenced(e) == e \in payloads[project]

\* A whole file takes the place of what it replaces, which is removed first.
\* If it can be queued it is, else it is removed again.
arrives(e) ==
  \/ /\ referenced(e) \/ (supported(e) /\ e \notin payloads[project] /\ mayChange)
     /\ disk' = disk \cup {e}
     /\ setPayloads(payloads[project] \cup {e})
     /\ UNCHANGED refused
  \/ /\ ~referenced(e) /\ ~(supported(e) /\ e \notin payloads[project] /\ mayChange)
     /\ disk' = disk \ {e}
     /\ refused' = IF mayChange THEN refused \cup {e} ELSE refused
     /\ UNCHANGED <<payloads, metadata>>

\* A file that is late, cut off, too long or not trusted leaves only its sidecar,
\* which is removed.
FileEnds(r) ==
  LET e == [as |-> r.as, what |-> "download", for |-> r.for, n |-> r.n]
      others == replies \ {r}
  IN
  /\ r \in replies /\ r.kind = "file"
  /\ \/ /\ ~currentRequest(r)
        /\ reply' = forget(r) /\ replies' = others
        /\ UNCHANGED <<busy, downloads, payloads, metadata, spent>>
     \/ /\ currentRequest(r) /\ arrives(e) /\ UNCHANGED lost
        /\ nextFile(r, r.n + 1, others, forget(r), 0)
     \/ /\ currentRequest(r) /\ nextFile(r, r.n + 1, others, forget(r), 1)
        /\ \/ UNCHANGED <<disk, lost>>
           \/ disk' = disk \ {e} /\ lost' = lost \cup {e}      \* the rename fails
        /\ UNCHANGED <<payloads, metadata, refused>>
  /\ UNCHANGED <<running, projectVars, source, inventory, query, results, operation, automatic,
                 scanning, processes, unopened>>

-----------------------------------------------------------------------------
(* Payloads from the operator's disks.                                      *)

addPayloadFiles(as, what) ==
  LET e == [as |-> as, what |-> what, for |-> project, n |-> 0]
  IN  /\ ask /\ mayChange /\ supported(e) /\ e \notin payloads[project]
      /\ setPayloads(payloads[project] \cup {e})
  /\ UNCHANGED <<running, projectVars, source, inventory, catalogue, automatic, scanning,
                 processes, downloads, unopened>>

\* Removed by the operator, or by the reload after a save that failed.
removeListItem(e) ==
  /\ ask /\ mayChange /\ e \in payloads[project]
  /\ setPayloads(payloads[project] \ {e})
  /\ UNCHANGED <<running, projectVars, source, inventory, catalogue, automatic, scanning,
                 processes, downloads, unopened>>

addPayloadDirectory(as) ==
  /\ ask /\ project # NoDirectory /\ ~scanBusy
  /\ scanBusy' = TRUE /\ scanGeneration' = scanGeneration + 1
  /\ scans' = scans \cup {[generation |-> scanGeneration + 1, scope |-> scope, for |-> project,
                           as |-> as]}
  /\ UNCHANGED <<running, projectVars, contents, catalogue, automatic, metadata, processes,
                 downloads, unopened>>

\* What was found is queued, unless mutateProject() refuses, which nobody is told.
ScanEnds(s) ==
  LET current == s.generation = scanGeneration /\ s.scope = scope /\ s.for = project
      e == [as |-> s.as, what |-> "folder", for |-> s.for, n |-> 0]
  IN
  /\ s \in scans /\ scans' = scans \ {s}
  /\ scanBusy' = IF current THEN FALSE ELSE scanBusy
  /\ \/ current /\ mayChange /\ setPayloads(payloads[project] \cup {e})
     \/ UNCHANGED <<payloads, metadata>>       \* late, refused, or nothing found
  /\ UNCHANGED <<running, projectVars, source, inventory, catalogue, automatic, scanGeneration,
                 processes, downloads, unopened, spent>>

-----------------------------------------------------------------------------
(* The source and its inventory, and the drivers of the host.               *)

setSourcePath(s) ==
  /\ ask /\ mayChange /\ s # source[project]
  /\ source' = [source EXCEPT ![project] = s]
  /\ inventory' = [inventory EXCEPT ![project] = NoSource]
  /\ UNCHANGED <<running, projectVars, payloads, catalogue, automatic, scanning, metadata,
                 processes, downloads, unopened>>

\* A process that cannot be started says so before start() returns.
inspectSource ==
  /\ mayChange /\ ~inspecting /\ source[project] # NoSource
  /\ inspection' = inspection + 1
  /\ \/ /\ ask /\ inspecting' = TRUE
        /\ inspections' = inspections \cup
             {[generation |-> inspection + 1, scope |-> scope, for |-> project,
               source |-> source[project], late |-> FALSE]}
     \/ spend(1) /\ UNCHANGED <<inspecting, inspections>>
  /\ UNCHANGED <<running, projectVars, contents, catalogue, automatic, scanning, metadata,
                 exports, downloads, unopened>>

\* After three minutes the process is told to end, and killed.
InspectionOverdue(i) ==
  /\ i \in inspections /\ ~i.late /\ i.generation = inspection
  /\ spend(1)
  /\ inspections' = (inspections \ {i}) \cup {[i EXCEPT !.late = TRUE]}
  /\ UNCHANGED <<running, projectVars, contents, catalogue, automatic, scanning, metadata,
                 inspecting, inspection, exports, downloads, unopened>>

mutantOfAnySource(i) == TRUE
sameSource(i) == source[project] = i.source

InspectionEnds(i) ==
  LET current == i.generation = inspection /\ i.scope = scope /\ i.for = project
  IN
  /\ i \in inspections /\ inspections' = inspections \ {i}
  /\ inspecting' = IF i.generation = inspection THEN FALSE ELSE inspecting
  /\ \/ /\ current /\ ~i.late /\ sameSource(i) /\ mayChange
        /\ inventory' = [inventory EXCEPT ![project] = i.source]
        /\ \/ searchUpdateCatalog(i.source)
           \/ UNCHANGED <<running, catalogue>>      \* too little is known of the product
     \/ UNCHANGED <<running, inventory, catalogue>>     \* late, failed or incomplete
  /\ UNCHANGED <<projectVars, payloads, source, automatic, scanning, metadata, inspection,
                 exports, downloads, unopened, spent>>

importHostDrivers ==
  /\ project # NoDirectory
  /\ \/ /\ ask /\ inspecting' = TRUE
        /\ exports' = exports \cup {[id |-> requests, for |-> project]}
     \/ spend(1) /\ inspecting' = FALSE /\ UNCHANGED exports
  /\ UNCHANGED <<running, projectVars, contents, catalogue, automatic, scanning, metadata,
                 inspection, inspections, downloads, unopened>>

\* The drivers go to the project that is open by now.
ExportEnds(x) ==
  /\ x \in exports /\ exports' = exports \ {x}
  /\ inspecting' = FALSE
  /\ \/ /\ mayChange
        /\ setPayloads(payloads[project] \cup
             {[as |-> "drivers", what |-> "hostDrivers", for |-> x.for, n |-> 0]})
     \/ UNCHANGED <<payloads, metadata>>
  /\ UNCHANGED <<running, projectVars, source, inventory, catalogue, automatic, scanning,
                 inspection, inspections, downloads, unopened, spent>>

-----------------------------------------------------------------------------
(* Projects come and go.                                                    *)

\* createProject(), openProject() and importProject().
openDirectory(p) ==
  /\ opening /\ transition = NoDirectory
  /\ transition' = p /\ scope' = scope + 1
  /\ scanGeneration' = scanGeneration + 1 /\ scanBusy' = FALSE
  /\ UNCHANGED <<running, project, contents, catalogue, automatic, scans, metadata, processes,
                 downloads, unopened>>

\* The watcher's import, which leaves the scan alone.
externalChange ==
  /\ opening /\ mayChange
  /\ transition' = project /\ scope' = scope + 1
  /\ UNCHANGED <<running, project, contents, catalogue, automatic, scanning, metadata, processes,
                 downloads, unopened>>

forgetResults == query' = NoSource /\ results' = {}

loadProjectState(p) ==
  /\ project' = p /\ transition' = NoDirectory
  /\ scope' = scope + 1
  /\ scanGeneration' = scanGeneration + 1 /\ scanBusy' = FALSE
  /\ abortKept /\ reply' = NoReply /\ replies' = notAborted
  /\ operation' = operation + 1 /\ busy' = FALSE /\ forgetResults
  /\ reloadPayloadCatalog(payloads[p])
  /\ automatic' = IF inventory[p] = NoSource THEN automatic
                  ELSE automatic \cup {[scope |-> scope + 1, query |-> inventory[p]]}
  /\ UNCHANGED <<contents, scans, processes, downloads>>

OpeningEnds ==
  /\ transition # NoDirectory
  /\ \/ loadProjectState(transition) /\ spend(0) /\ UNCHANGED unopened
     \/ /\ spend(1) /\ transition' = NoDirectory /\ unopened' = TRUE
        /\ UNCHANGED <<running, project, scope, contents, catalogue, automatic, scanning,
                       metadata, processes, downloads>>

\* Undo and redo load the project again; ActionHistory has what they change in it.
reloadAfterUndo == opening /\ mayChange /\ loadProjectState(project) /\ UNCHANGED unopened

-----------------------------------------------------------------------------
Answered ==
  \/ \E r \in replies : StaleReply(r) \/ SearchEnds(r) \/ DialogEnds(r) \/ FileEnds(r)
  \/ \E a \in automatic : AutomaticSearch(a)

IntakeNext ==
  /\ running
  /\ \/ Answered
     \/ \E r \in readers : MetadataRead(r)
     \/ \E s \in scans : ScanEnds(s)
     \/ \E i \in inspections : InspectionOverdue(i) \/ InspectionEnds(i)
     \/ \E x \in exports : ExportEnds(x)
     \/ OpeningEnds
     \/ Search \/ cancelUpdateCatalog \/ refreshPayloadCatalog
     \/ \E as \in Category : downloadUpdateCatalogItem(as) \/ addPayloadDirectory(as)
                               \/ \E what \in {"inf", "cab"} : addPayloadFiles(as, what)
     \/ \E e \in now : removeListItem(e)
     \/ \E s \in Source : setSourcePath(s)
     \/ inspectSource \/ importHostDrivers
     \/ \E p \in Directory : openDirectory(p)
     \/ externalChange \/ reloadAfterUndo

\* Replies have transfer timeouts and inspections a time limit; threads and the
\* event loop go on. Nothing is assumed of an export of drivers.
IntakeFairness ==
  /\ WF_intakeVars(running /\ Answered)
  /\ WF_intakeVars(running /\ \E r \in readers : MetadataRead(r))
  /\ WF_intakeVars(running /\ \E s \in scans : ScanEnds(s))
  /\ WF_intakeVars(running /\ \E i \in inspections : InspectionEnds(i))
  /\ WF_intakeVars(running /\ OpeningEnds)

IntakeSpec == IntakeInit /\ [][IntakeNext]_intakeVars /\ IntakeFairness

-----------------------------------------------------------------------------
(* Properties.                                                              *)

\* A project gets only what was asked for in it: scans, picks and downloads of one
\* project never end up in another. (The drivers of the host may.)
AnswersBelong ==
  \A p \in Directory : \A e \in payloads[p] : e.what # "hostDrivers" => e.for = p

\* The inventory of a project was read from the source it names, whatever was
\* chosen while the image was inspected.
InventoryFitsSource ==
  \A p \in Directory : inventory[p] \in {NoSource, source[p]}

\* The sheet shows what was found for the query it shows, in the open project.
ResultsFitQuery == results \subseteq {[query |-> query, for |-> project]}

\* A queued download is on the disk as a whole, through any later download of it,
\* unless a rename failed after the old copy was removed.
QueuedDownloadsExist ==
  \A p \in Directory : \A e \in payloads[p] : e.what = "download" => e \in disk \cup lost

\* An update that arrived whole is queued. (A driver never is.)
UpdatesAreQueued == \A e \in refused : e.as = "drivers"

\* The sheet is busy only with a reply in flight that it can cancel, unless the answer
\* came while a project was being opened or read again.
BusyHasAReply == running /\ busy => reply \in replies \/ transition # NoDirectory \/ unopened

\* The items shown describe the payloads queued, or a reader of them is at work.
MetadataIsCurrent ==
  /\ paths = now
  /\ IF metadataBusy
     THEN [generation |-> metadataGeneration, paths |-> paths] \in readers
     ELSE described = paths

IntakeIsSound ==
  /\ IntakeTypeOK /\ AnswersBelong /\ InventoryFitsSource /\ ResultsFitQuery
  /\ QueuedDownloadsExist /\ UpdatesAreQueued /\ BusyHasAReply /\ MetadataIsCurrent

\* What is busy comes to rest. A project that could not be opened or read again may
\* leave the sheet and the scan busy for good.
died == unopened \/ ~running
IntakeSettles ==
  /\ busy ~> (~busy \/ died)
  /\ scanBusy ~> (~scanBusy \/ died)
  /\ metadataBusy ~> (~metadataBusy \/ ~running)
  /\ (inspecting /\ exports = {}) ~> (~inspecting \/ exports # {} \/ ~running)

=============================================================================
