------------------------------ MODULE Imports ------------------------------
(***************************************************************************)
(* Importing a server (handlers_import.go): the operation's row in SQLite  *)
(* (operations.Store), the upload session, the goroutine that installs it  *)
(* under the operation lock, the project's row and its directory, with     *)
(* cancellation, project deletion and restarts of either process.          *)
(*                                                                         *)
(* A step is what one request does under uploadMu, one database statement, *)
(* or one phase of the installing goroutine.  An archive and a directory   *)
(* tree have two parts, so that either can be there in part.               *)
(***************************************************************************)
EXTENDS Naturals, Sequences

CONSTANTS
    Ops,            \* imports; an import also names the project row it creates
    Slugs,          \* project slugs, each with its directory
    Kinds,          \* the ways to import that are asked for
    MaxDeaths,      \* bound: deaths of a process
    Missing         \* no upload file; no operation; nobody

VARIABLES
    kind, slug,     \* what was asked for
    stage,          \* operations.stage
    job,            \* where the request or goroutine of an import is
    upload,         \* <home>/system/temp/uploads/<op>/upload.archive: its parts
    canceller,      \* imports whose cancel request has read "receiving_upload"
    aborted,        \* imports whose download context is cancelled
    lock,           \* the holder of the operation lock
    project,        \* instances: slug -> the import that created its row
    active,         \* active_instance
    dest,           \* slug -> its directory: parts, each with its import
    up, deaths      \* the control plane runs; how often a process has died

importVars == <<kind, slug, stage, job, upload, canceller, aborted, lock,
                project, active, dest, up, deaths>>
requestVars == <<kind, slug>>
deathVars == <<up, deaths>>

Parts == 1..2
Archives == {"chunked", "multipart", "url", "local"}
Directories == {"copy", "move", "link", "cli"}

ASSUME ImportsAssumption ==
    /\ Kinds \subseteq Archives \cup Directories
    /\ Missing \notin Ops \cup Slugs \cup Archives \cup Directories \cup {"other"}
    /\ "other" \notin Ops
    /\ MaxDeaths \in Nat
Terminal(st) == st \in {"completed", "failed", "cancelled"}
Jobs == {"none", "session", "stream", "fetch", "project", "acquire", "extract",
         "validate", "move", "copying", "install", "activate", "complete",
         "cleanup", "dead"}
Holders == Ops \cup {Missing, "other"}

ImportsTypeOK ==
    /\ kind \in [Ops -> Kinds \cup {Missing}]
    /\ slug \in [Ops -> Slugs \cup {Missing}]
    /\ stage \in [Ops -> {"none", "queued", "receiving_upload", "verifying_download",
                          "extracting", "moving_to_destination",
                          "completed", "failed", "cancelled"}]
    /\ job \in [Ops -> Jobs]
    /\ upload \in [Ops -> Seq(Parts) \cup {Missing}]
    /\ canceller \subseteq Ops /\ aborted \subseteq Ops /\ lock \in Holders
    /\ project \in [Slugs -> Ops \cup {Missing}] /\ active \in Ops \cup {Missing}
    /\ dest \in [Slugs -> SUBSET (Ops \X Parts)]
    /\ up \in BOOLEAN /\ deaths \in 0..MaxDeaths

ImportsInit ==
    /\ kind = [o \in Ops |-> Missing] /\ slug = [o \in Ops |-> Missing]
    /\ stage = [o \in Ops |-> "none"] /\ job = [o \in Ops |-> "none"]
    /\ upload = [o \in Ops |-> Missing]
    /\ canceller = {} /\ aborted = {} /\ lock = Missing
    /\ project = [s \in Slugs |-> Missing] /\ active = Missing
    /\ dest = [s \in Slugs |-> {}]
    /\ up = TRUE /\ deaths = 0

-----------------------------------------------------------------------------
(* The operation's row *)

Runs(o) == kind[o] = "cli" \/ up
At(o, line) == job[o] = line /\ Runs(o)
Goto(o, line) == job' = [job EXCEPT ![o] = line]
SetStage(o, st) == stage' = [stage EXCEPT ![o] = st]
Whole(o) == {o} \X Parts

\* Operations.Finish and the end of the goroutine: both are unconditional.
Fails(o, line) == SetStage(o, "failed") /\ Goto(o, line)
DropUpload(o) == upload' = [upload EXCEPT ![o] = Missing]

\* createProjectForImport: the slug is UNIQUE.
CreateProject(o, s) ==
    /\ project[s] = Missing
    /\ project' = [project EXCEPT ![s] = o]

-----------------------------------------------------------------------------
(* Requests that start an import *)

Request(o, k, s) ==
    /\ kind[o] = Missing /\ k \in Kinds
    /\ kind' = [kind EXCEPT ![o] = k] /\ slug' = [slug EXCEPT ![o] = s]
    /\ UNCHANGED <<canceller, aborted, lock, active, dest, deathVars>>

Receives(o, k, s, line) ==
    /\ up /\ Request(o, k, s)
    /\ SetStage(o, "receiving_upload") /\ Goto(o, line)
    /\ upload' = [upload EXCEPT ![o] = <<>>]
    /\ UNCHANGED project

\* The upload's directory or file cannot be made: only the chunked session
\* records it.
RefusedUpload(o, k, s) ==
    /\ up /\ Request(o, k, s)
    /\ SetStage(o, IF k = "chunked" THEN "failed" ELSE "queued") /\ Goto(o, "dead")
    /\ UNCHANGED <<upload, project>>

\* An upload creates its project when it has arrived, ...
handleImportUploadStart(o, s) == Receives(o, "chunked", s, "session") \/ RefusedUpload(o, "chunked", s)
handleImportUpload(o, s) == Receives(o, "multipart", s, "stream") \/ RefusedUpload(o, "multipart", s)

\* ... every other import at once.
BeginProject(o, k, s) ==
    /\ Request(o, k, s)
    /\ CreateProject(o, s)
    /\ SetStage(o, "queued")
    /\ Goto(o, IF k \in Archives THEN "fetch" ELSE "acquire")
    /\ UNCHANGED upload

handleImportURL(o, s) == up /\ BeginProject(o, "url", s)
handleImportLocal(o, s) == up /\ BeginProject(o, "local", s)
handleImportExisting(o, s) == up /\ \E k \in {"copy", "move", "link"} : BeginProject(o, k, s)
ImportDirectoryCLI(o, s) == BeginProject(o, "cli", s)

-----------------------------------------------------------------------------
(* A chunked session: each request runs under uploadMu from its look at the *)
(* row to its answer.                                                       *)

Receiving(o) == up /\ kind[o] = "chunked" /\ stage[o] = "receiving_upload"

\* (mutant) the offset of the chunk is not compared with the file
AppendAnyChunk(o, part) ==
    /\ Receiving(o) /\ upload[o] # Missing
    /\ Len(upload[o]) < Len(<<1, 2>>)
    /\ upload' = [upload EXCEPT ![o] = Append(@, part)]
    /\ UNCHANGED <<requestVars, stage, job, canceller, aborted, lock, project, active, dest, deathVars>>

\* handleImportUploadChunk.  A chunk may be sent twice, late or out of order;
\* one that breaks off is truncated away, which changes nothing.
AppendChunk(o, part) ==
    /\ Receiving(o) /\ upload[o] # Missing
    /\ Len(upload[o]) = part - 1
    /\ upload' = [upload EXCEPT ![o] = Append(@, part)]
    /\ UNCHANGED <<requestVars, stage, job, canceller, aborted, lock, project, active, dest, deathVars>>

\* handleImportUploadFinish, up to where it lets go of uploadMu.
FinishUpload(o) ==
    /\ Receiving(o)
    /\ upload[o] # Missing /\ Len(upload[o]) = 2
    /\ SetStage(o, "verifying_download") /\ Goto(o, "project")
    /\ UNCHANGED <<requestVars, upload, canceller, aborted, lock, project, active, dest, deathVars>>

\* handleOperationCancel looks at the row, and acts under uploadMu later.
CancelLooks(o) ==
    /\ Receiving(o) /\ o \notin canceller
    /\ canceller' = canceller \cup {o}
    /\ UNCHANGED <<requestVars, stage, job, upload, aborted, lock, project, active, dest, deathVars>>

CancelActs(o) ==
    /\ up /\ o \in canceller
    /\ canceller' = canceller \ {o}
    /\ SetStage(o, "cancelled") /\ DropUpload(o)
    /\ job' = [job EXCEPT ![o] = IF @ = "session" THEN "dead" ELSE @]
    /\ UNCHANGED <<requestVars, aborted, lock, project, active, dest, deathVars>>

\* Operations.Cancel: only a download registers one, and only the download
\* itself looks at its context.
Cancellable(o) == kind[o] = "url" /\ job[o] \notin {"none", "dead"} /\ ~Terminal(stage[o])
Cancel(o) ==
    /\ up /\ Cancellable(o) /\ o \notin aborted
    /\ aborted' = aborted \cup {o}
    /\ UNCHANGED <<requestVars, stage, job, upload, canceller, lock, project, active, dest, deathVars>>

-----------------------------------------------------------------------------
(* Before the installation *)

\* A multipart body, a download (download.Fetch) or a copy of a local archive
\* arrives, or breaks off and is removed.
Arrives(o) ==
    /\ upload' = [upload EXCEPT ![o] = <<1, 2>>]
    /\ Goto(o, IF kind[o] = "multipart" THEN "project" ELSE "acquire")
    /\ IF kind[o] = "url" THEN SetStage(o, "verifying_download")
                          ELSE SetStage(o, "receiving_upload")

Stream(o) ==
    /\ At(o, "stream") \/ At(o, "fetch")
    /\ \/ o \notin aborted /\ Arrives(o)
       \/ Fails(o, "dead") /\ DropUpload(o)
    /\ UNCHANGED <<requestVars, canceller, aborted, lock, project, active, dest, deathVars>>

ProjectAfterUpload(o) ==
    /\ At(o, "project")
    /\ \/ /\ CreateProject(o, slug[o]) /\ Goto(o, "acquire")
          /\ UNCHANGED <<stage, upload>>
       \/ /\ project[slug[o]] # Missing
          /\ Fails(o, "dead") /\ DropUpload(o) /\ UNCHANGED project
    /\ UNCHANGED <<requestVars, canceller, aborted, lock, active, dest, deathVars>>

-----------------------------------------------------------------------------
(* The installation, under the operation lock *)

\* (mutant) the lock's refusal is ignored
AcquireRegardless(o) ==
    /\ At(o, "acquire")
    /\ lock' = o
    /\ Goto(o, IF kind[o] \in Archives THEN "extract" ELSE "move")
    /\ UNCHANGED <<requestVars, stage, upload, canceller, aborted, project, active, dest, deathVars>>

\* A refused import fails at once; its upload stays behind.
Acquire(o) ==
    /\ At(o, "acquire")
    /\ \/ /\ lock = Missing /\ lock' = o
          /\ Goto(o, IF kind[o] \in Archives THEN "extract" ELSE "move")
          /\ UNCHANGED stage
       \/ lock # Missing /\ Fails(o, "dead") /\ UNCHANGED lock
    /\ UNCHANGED <<requestVars, upload, canceller, aborted, project, active, dest, deathVars>>

\* installArchive down to the detection of the JVM settings: the archive is
\* unpacked into a staging directory that the goroutine removes at its end.
\* files.Extract refuses a corrupt, oversized or unsafe archive.
Extract(o) ==
    /\ At(o, "extract")
    /\ \/ /\ upload[o] = <<1, 2>> /\ Goto(o, "validate")
          /\ SetStage(o, "extracting")
       \/ Fails(o, "cleanup")
    /\ UNCHANGED <<requestVars, upload, canceller, aborted, lock, project, active, dest, deathVars>>

\* (mutant) a destination with files is accepted
ValidateAnything(o) ==
    /\ At(o, "validate") /\ Goto(o, "move")
    /\ UNCHANGED <<requestVars, stage, upload, canceller, aborted, lock, project, active, dest, deathVars>>

Validate(o) ==
    /\ At(o, "validate")
    /\ \/ dest[slug[o]] = {} /\ Goto(o, "move") /\ UNCHANGED stage
       \/ dest[slug[o]] # {} /\ Fails(o, "cleanup")
    /\ UNCHANGED <<requestVars, upload, canceller, aborted, lock, project, active, dest, deathVars>>

Put(o, parts) == dest' = [dest EXCEPT ![slug[o]] = @ \cup parts]

\* A link places nothing: Instances.Update does not write the directory.  A
\* rename is all or nothing; CopyTree, its fallback, merges file by file.  Only
\* the command line refuses a directory that has files.
Move(o) ==
    /\ At(o, "move")
    /\ \/ kind[o] = "link" /\ Goto(o, "install") /\ UNCHANGED <<stage, dest>>
       \/ /\ kind[o] \in Archives \cup {"move"}
          /\ dest[slug[o]] = {} /\ Put(o, Whole(o))
          /\ SetStage(o, "moving_to_destination") /\ Goto(o, "install")
       \/ /\ kind[o] # "link" /\ (kind[o] = "cli" => dest[slug[o]] = {})
          /\ Put(o, {<<o, 1>>})
          /\ SetStage(o, "moving_to_destination") /\ Goto(o, "copying")
       \/ /\ kind[o] = "cli" /\ dest[slug[o]] # {}
          /\ Fails(o, "cleanup") /\ UNCHANGED dest
    /\ UNCHANGED <<requestVars, upload, canceller, aborted, lock, project, active, deathVars>>

CopyTree(o) ==
    /\ At(o, "copying")
    /\ \/ Put(o, {<<o, 2>>}) /\ Goto(o, "install") /\ UNCHANGED stage
       \/ Fails(o, "cleanup") /\ UNCHANGED dest
    /\ UNCHANGED <<requestVars, upload, canceller, aborted, lock, project, active, deathVars>>

\* finishInstall: the row is updated (a row deleted meanwhile is no error),
\* then the active project is read, set if there was none, and the operation
\* completed: three statements.
Install(o) ==
    /\ At(o, "install")
    /\ \/ Goto(o, IF active = Missing THEN "activate" ELSE "complete") /\ UNCHANGED stage
       \/ Fails(o, "cleanup")
    /\ UNCHANGED <<requestVars, upload, canceller, aborted, lock, project, active, dest, deathVars>>

\* SetActive refuses an instance that is gone; the error is ignored.
Activate(o) ==
    /\ At(o, "activate")
    /\ active' = IF project[slug[o]] = o THEN o ELSE active
    /\ Goto(o, "complete")
    /\ UNCHANGED <<requestVars, stage, upload, canceller, aborted, lock, project, dest, deathVars>>

Complete(o) ==
    /\ At(o, "complete")
    /\ SetStage(o, "completed") /\ Goto(o, "cleanup")
    /\ UNCHANGED <<requestVars, upload, canceller, aborted, lock, project, active, dest, deathVars>>

\* The deferred calls of installArchive.
Cleanup(o) ==
    /\ At(o, "cleanup")
    /\ lock' = Missing /\ DropUpload(o) /\ Goto(o, "dead")
    /\ UNCHANGED <<requestVars, stage, canceller, aborted, project, active, dest, deathVars>>

Installing(o) ==
    \/ Stream(o) \/ ProjectAfterUpload(o) \/ Acquire(o) \/ Extract(o) \/ Validate(o)
    \/ Move(o) \/ CopyTree(o) \/ Install(o) \/ Activate(o) \/ Complete(o) \/ Cleanup(o)

-----------------------------------------------------------------------------
(* The rest of the control plane *)

\* A backup, a restore or a lifecycle command has the lock for a while.
OtherOperation ==
    /\ \/ lock = Missing /\ lock' = "other"
       \/ lock = "other" /\ lock' = Missing
    /\ UNCHANGED <<requestVars, stage, job, upload, canceller, aborted, project, active, dest, deathVars>>

\* handleServerDelete, with or without the files.  The row's foreign key
\* clears active_instance.
DeleteProject(s) ==
    /\ up /\ lock = Missing /\ project[s] # Missing
    /\ project' = [project EXCEPT ![s] = Missing]
    /\ active' = IF active = project[s] THEN Missing ELSE active
    /\ \/ dest' = [dest EXCEPT ![s] = {}]
       \/ UNCHANGED dest
    /\ UNCHANGED <<requestVars, stage, job, upload, canceller, aborted, lock, deathVars>>

\* handleServerSelect
Select(s) ==
    /\ up /\ project[s] # Missing /\ active # project[s]
    /\ active' = project[s]
    /\ UNCHANGED <<requestVars, stage, job, upload, canceller, aborted, lock, project, dest, deathVars>>

\* A process dies with its goroutines; the lock it held names a dead PID, which
\* the next operation reclaims (OpLock).
Dies(gone) ==
    /\ deaths < MaxDeaths /\ deaths' = deaths + 1
    /\ job' = [o \in Ops |-> IF o \in gone /\ job[o] # "none" THEN "dead" ELSE job[o]]
    /\ lock' = IF lock \in gone THEN Missing ELSE lock
    /\ UNCHANGED <<requestVars, stage, upload, aborted, project, active, dest>>

ControlPlaneDies ==
    /\ up /\ up' = FALSE /\ canceller' = {}
    /\ Dies({o \in Ops : kind[o] # "cli"})

CommandDies(o) ==
    /\ kind[o] = "cli" /\ job[o] # "dead"
    /\ Dies({o}) /\ UNCHANGED <<up, canceller>>

\* (mutant) the operations of the last run are left as they were
RestartKeepsStale ==
    /\ ~up /\ up' = TRUE
    /\ UNCHANGED <<requestVars, stage, job, upload, canceller, aborted, lock, project, active, dest, deaths>>

\* Serve: CleanStale fails every operation that is not over, whoever runs it.
Restart ==
    /\ ~up /\ up' = TRUE
    /\ stage' = [o \in Ops |-> IF stage[o] = "none" \/ Terminal(stage[o])
                               THEN stage[o] ELSE "failed"]
    /\ UNCHANGED <<requestVars, job, upload, canceller, aborted, lock, project, active, dest, deaths>>

ImportsNext ==
    \/ \E o \in Ops, s \in Slugs :
          \/ handleImportUploadStart(o, s) \/ handleImportUpload(o, s) \/ handleImportURL(o, s)
          \/ handleImportLocal(o, s) \/ handleImportExisting(o, s) \/ ImportDirectoryCLI(o, s)
    \/ \E o \in Ops, part \in Parts : AppendChunk(o, part)
    \/ \E o \in Ops : FinishUpload(o) \/ CancelLooks(o) \/ CancelActs(o) \/ Cancel(o)
    \/ \E o \in Ops : Installing(o) \/ CommandDies(o)
    \/ \E s \in Slugs : DeleteProject(s) \/ Select(s)
    \/ OtherOperation \/ ControlPlaneDies \/ Restart

\* Goroutines run; systemd starts the control plane again.  Clients, operators
\* and deaths are not fair.
ImportsFairness ==
    /\ \A o \in Ops : WF_importVars(Installing(o)) /\ WF_importVars(CancelActs(o))
    /\ WF_importVars(Restart)

ImportsSpec == ImportsInit /\ [][ImportsNext]_importVars /\ ImportsFairness

-----------------------------------------------------------------------------
\* Whatever chunk is sent twice, late or out of order, and whenever a session
\* is finished or cancelled: the file holds the archive from its start, no part
\* twice and none missing before another.
UploadInOrder ==
    \A o \in Ops : upload[o] # Missing => \A i \in DOMAIN upload[o] : upload[o][i] = i

\* An import that is recorded as completed has its whole tree in its project's
\* directory at that moment, though other imports, deletions and restarts fell
\* between its request and its end.
CompletedIsWhole ==
    [][\A o \in Ops : stage'[o] = "completed" /\ stage[o] # "completed"
          => kind[o] = "link" \/ Whole(o) \subseteq dest[slug[o]]]_importVars

\* An archive is never unpacked over the files of another import: not over
\* those a deleted project left, nor beside an import under way.
ArchivesNeverMix ==
    [][\A o \in Ops, s \in Slugs :
          kind[o] \in Archives /\ (dest'[s] \ dest[s]) \cap Whole(o) # {}
          => dest'[s] \subseteq Whole(o)]_importVars

\* Every import of the control plane that got past its upload is over some day,
\* across a restart too: the interface never shows it as running for ever.
EveryImportEnds ==
    \A o \in Ops :
        (kind[o] # "cli" /\ job[o] \notin {"none", "session", "dead"}) ~> Terminal(stage[o])
=============================================================================
