------------------------------ MODULE Backups ------------------------------
(***************************************************************************)
(* Backups and restores (backup.Manager, runBackup, handleBackup*, the     *)
(* `bonghos backup` commands) and the move of the backup storage: the      *)
(* catalogue in SQLite, the archives on disk, the server's directory with  *)
(* its sidecar copies, and the running server that writes its world.       *)
(*                                                                         *)
(* A worker is one request or command; a step of it is one statement or    *)
(* one phase with files.  The directory is one entry, the world (`live`),  *)
(* which the server changes while it is up and its saving is on; an        *)
(* archive read while that happened is Torn.                               *)
(***************************************************************************)
EXTENDS Naturals, FiniteSets

CONSTANTS
    Workers,        \* requests and commands at work
    Commands,       \* those of them that run in a process of their own (CLI)
    Ids,            \* backup IDs
    Roots,          \* directories that can hold the backup storage
    HomeRoot,       \* the one configured first
    MaxVersion,     \* bound: how often the world changes
    MaxDeaths,      \* bound: deaths of the control plane
    MaxTasks,       \* bound: backups, restores and moves begun
    Torn, Gone      \* an archive of no state; no file, no entry, nobody

Versions == 0..MaxVersion

ASSUME BackupsAssumption ==
    /\ Commands \subseteq Workers /\ HomeRoot \in Roots
    /\ MaxVersion \in Nat /\ MaxDeaths \in Nat /\ MaxTasks \in Nat
    /\ Torn \notin Versions /\ Gone \notin Versions \cup {Torn} \cup Workers \cup Ids

VARIABLES
    task,           \* what a worker does: "none", "offline" or "online" backup,
                    \* "restore", "unsafe restore" (CLI), "move" of the storage
    at,             \* where it is
    root,           \* the storage its backup.Manager was made with
    mine, source,   \* the backup it makes; the backup it restores, or the storage
                    \* it moves to
    image,          \* what it has read of the world
    held,           \* it turned saving off and will turn it on again
    oplock,         \* the holder of the operation lock
    status,         \* backups.verification_status; "none": no row
    archive,        \* root -> ID -> content of the file
    cfgRoot,        \* config.backup_directory
    live, aside,    \* the world; <world>.bonghos-pre-restore
    server, saving, \* the server runs; its automatic saving is on
    panel, deathCount, \* the control plane runs; how often it has died
    begun,          \* how many tasks were begun
    disturbed,      \* workers under which a server was started or stopped, an
                    \* archive deleted or, one of two without the lock, a
                    \* world replaced
    misplaced       \* backups written through a manager made before a move, or left
                    \* behind by a move from a storage that was not in use any more

workVars == <<task, at, root, mine, source, image, held, oplock>>
storeVars == <<status, archive, cfgRoot>>
worldVars == <<live, aside, server, saving>>
panelVars == <<panel, deathCount, begun>>
ghostVars == <<disturbed, misplaced>>
backupVars == <<workVars, storeVars, worldVars, panelVars, ghostVars>>

BackupsInit ==
    /\ task = [w \in Workers |-> "none"] /\ at = [w \in Workers |-> "idle"]
    /\ root = [w \in Workers |-> HomeRoot]
    /\ mine = [w \in Workers |-> Gone] /\ source = [w \in Workers |-> Gone]
    /\ image = [w \in Workers |-> Gone] /\ held = [w \in Workers |-> FALSE]
    /\ oplock = Gone
    /\ status = [b \in Ids |-> "none"]
    /\ archive = [r \in Roots |-> [b \in Ids |-> Gone]] /\ cfgRoot = HomeRoot
    /\ live = 0 /\ aside = Gone /\ server \in BOOLEAN /\ saving = TRUE
    /\ panel \in BOOLEAN /\ deathCount = 0 /\ begun = 0 /\ disturbed = {} /\ misplaced = {}

-----------------------------------------------------------------------------
Is(w, step) == at[w] = step /\ (w \in Commands \/ panel)
Go(w, step) == at' = [at EXCEPT ![w] = step]
Restores(w) == task[w] \in {"restore", "unsafe restore"}
Available(b, r) == status[b] # "none" /\ archive[r][b] # Gone
\* An UPDATE; the row may be gone by now, since the panel lists and deletes a
\* backup whose file is there.
Mark(w, st) == status' = IF status[mine[w]] = "none" THEN status
                         ELSE [status EXCEPT ![mine[w]] = st]

\* What a worker that is done, or dead, no longer knows.
Forget(done) ==
    /\ at' = [w \in Workers |-> IF w \in done THEN "idle" ELSE at[w]]
    /\ task' = [w \in Workers |-> IF w \in done THEN "none" ELSE task[w]]
    /\ mine' = [w \in Workers |-> IF w \in done THEN Gone ELSE mine[w]]
    /\ source' = [w \in Workers |-> IF w \in done THEN Gone ELSE source[w]]
    /\ image' = [w \in Workers |-> IF w \in done THEN Gone ELSE image[w]]

\* The workers whose archive or restored world a change of the world spoils;
\* a command restores without the lock.
Reading == {w \in Workers : at[w] # "idle"}
Lockless(w) == w \in Commands /\ at[w] \in {"check", "aside", "place"}

-----------------------------------------------------------------------------
(* Beginning *)

BeginTask(w, t) ==
    /\ Is(w, "idle") /\ task' = [task EXCEPT ![w] = t]
    /\ begun < MaxTasks /\ begun' = begun + 1
    /\ UNCHANGED <<mine, image, held, oplock, storeVars, worldVars, panel, deathCount, ghostVars>>

\* handleBackupCreate, cmdBackup and the scheduler's executor choose the mode
\* before they queue for the lock.
BeginBackup(w) ==
    /\ BeginTask(w, IF server THEN "online" ELSE "offline")
    /\ Go(w, "acquire") /\ UNCHANGED <<root, source>>

\* handleBackupRestore and backupRestore: the server must be down, the backup
\* there.  Only the panel can leave the safety copy out.
BeginRestore(w, b, t) ==
    /\ ~server /\ Available(b, root[w])
    /\ t = "unsafe restore" => w \notin Commands
    /\ BeginTask(w, t)
    /\ source' = [source EXCEPT ![w] = b]
    /\ Go(w, "acquire") /\ UNCHANGED root

\* cmdBackupStorage move: the panel must be stopped.
BeginMove(w) ==
    /\ w \in Commands /\ ~panel
    /\ BeginTask(w, "move") /\ Go(w, "acquire") /\ UNCHANGED <<root, source>>

\* A command loads the configuration, with its backup directory, as it starts.
LoadConfig(w) ==
    /\ w \in Commands /\ Is(w, "idle") /\ root[w] # cfgRoot
    /\ root' = [root EXCEPT ![w] = cfgRoot]
    /\ UNCHANGED <<task, at, mine, source, image, held, oplock, storeVars, worldVars, panelVars, ghostVars>>

AcquireOpLock(w) ==
    /\ Is(w, "acquire")
    /\ \/ /\ oplock = Gone /\ oplock' = w
          /\ Go(w, CASE task[w] = "move" -> "copy"
                     [] task[w] = "unsafe restore" -> "check"
                     [] OTHER -> "begin")
       \/ oplock # Gone /\ Go(w, "release") /\ UNCHANGED oplock
    /\ UNCHANGED <<task, root, mine, source, image, held, storeVars, worldVars, panelVars, ghostVars>>

-----------------------------------------------------------------------------
(* runBackupLocked and Manager.Create *)

\* A world that a restore left aside is in a full archive under that name.
World == IF live # Gone THEN live ELSE aside

\* (mutant) saving is not turned off
PrepareKeepsSaving(w) ==
    /\ Is(w, "begin") /\ UNCHANGED <<held, saving>>
    /\ \E b \in Ids :
         /\ status[b] = "none"
         /\ mine' = [mine EXCEPT ![w] = b]
         /\ status' = [status EXCEPT ![b] = "unverified"]
         /\ misplaced' = IF root[w] = cfgRoot THEN misplaced ELSE misplaced \cup {b}
         /\ Go(w, "read")
    /\ UNCHANGED <<task, root, source, image, oplock, archive, cfgRoot, live, aside, server, panelVars, disturbed>>

\* save-off and save-all flush (three seconds are waited for, no answers), then
\* the paths, the staging directory and the catalogue's row, or an error.
Prepare(w) ==
    /\ Is(w, "begin")
    /\ LET online == task[w] = "online" /\ server IN
         /\ held' = [held EXCEPT ![w] = online]
         /\ saving' = (saving /\ ~online)
    /\ \/ \E b \in Ids :
            /\ status[b] = "none" /\ World # Gone
            /\ mine' = [mine EXCEPT ![w] = b]
            /\ status' = [status EXCEPT ![b] = "unverified"]
            /\ misplaced' = IF root[w] = cfgRoot THEN misplaced ELSE misplaced \cup {b}
            /\ Go(w, "read")
       \/ Go(w, "savings") /\ UNCHANGED <<mine, status, misplaced>>
    /\ UNCHANGED <<task, root, source, image, oplock, archive, cfgRoot, live, aside, server, panelVars, disturbed>>

\* writeTarZst begins to read the world ...
ReadWorld(w) ==
    /\ Is(w, "read") /\ World # Gone
    /\ image' = [image EXCEPT ![w] = World] /\ Go(w, "reading")
    /\ UNCHANGED <<task, root, mine, source, held, oplock, storeVars, worldVars, panelVars, ghostVars>>

\* ... and has read it, or fails.
ReadRest(w) ==
    /\ at[w] \in {"read", "reading"} /\ Is(w, at[w])
    /\ \/ /\ at[w] = "reading" /\ World # Gone
          /\ Go(w, "verify") /\ UNCHANGED status
          /\ image' = [image EXCEPT ![w] = IF World = @ THEN @ ELSE Torn]
       \/ Mark(w, "failed") /\ Go(w, "savings") /\ UNCHANGED image
    /\ UNCHANGED <<task, root, mine, source, held, oplock, archive, cfgRoot, worldVars, panelVars, ghostVars>>

\* The staged archive is read back; a mismatch fails the backup, a full disk
\* leaves it unverified without a file.  Then it is renamed, or copied and
\* compared, into the storage.
Verify(w) ==
    /\ Is(w, "verify")
    /\ \/ /\ archive' = [archive EXCEPT ![root[w]][mine[w]] = image[w]]
          /\ Go(w, "record") /\ UNCHANGED status
       \/ Mark(w, "failed") /\ Go(w, "savings") /\ UNCHANGED archive
       \/ Go(w, "savings") /\ UNCHANGED <<status, archive>>
    /\ image' = [image EXCEPT ![w] = Gone]
    /\ UNCHANGED <<task, root, mine, source, held, oplock, cfgRoot, worldVars, panelVars, ghostVars>>

Record(w) ==
    /\ Is(w, "record") /\ Go(w, "savings") /\ Mark(w, "verified")
    /\ UNCHANGED <<task, root, mine, source, image, held, oplock, archive, cfgRoot, worldVars, panelVars, ghostVars>>

\* (mutant) saving stays off when the backup failed
SaveOnAfterSuccess(w) ==
    /\ Is(w, "savings")
    /\ held' = [held EXCEPT ![w] = FALSE]
    /\ saving' = IF held[w] /\ mine[w] # Gone /\ status[mine[w]] = "verified" THEN TRUE ELSE saving
    /\ Go(w, IF Restores(w) THEN "decide" ELSE "release")
    /\ UNCHANGED <<task, root, mine, source, image, oplock, live, aside, server, storeVars, panelVars, ghostVars>>

\* The deferred save-on, which a server that is down does not hear.
SaveOn(w) ==
    /\ Is(w, "savings")
    /\ held' = [held EXCEPT ![w] = FALSE]
    /\ saving' = IF held[w] THEN TRUE ELSE saving
    /\ Go(w, IF Restores(w) THEN "decide" ELSE "release")
    /\ UNCHANGED <<task, root, mine, source, image, oplock, live, aside, server, storeVars, panelVars, ghostVars>>

-----------------------------------------------------------------------------
(* Restoring *)

\* (mutant) a failed safety copy is ignored
DecideAnyway(w) ==
    /\ Is(w, "decide") /\ Go(w, "check")
    /\ UNCHANGED <<task, root, mine, source, image, held, oplock, storeVars, worldVars, panelVars, ghostVars>>

\* Without the safety copy there is no restore.  The command gave the lock
\* back with the safety copy, and restores without it.
Decide(w) ==
    /\ Is(w, "decide")
    /\ Go(w, IF mine[w] # Gone /\ status[mine[w]] = "verified" THEN "check" ELSE "release")
    /\ oplock' = IF w \in Commands THEN Gone ELSE oplock
    /\ UNCHANGED <<task, root, mine, source, image, held, storeVars, worldVars, panelVars, ghostVars>>

\* A backup without a recorded checksum, because its maker died, fails.
Rechecked(b, r) ==
    status' = IF Available(b, r) /\ status[b] # "verified"
              THEN [status EXCEPT ![b] = "failed"] ELSE status

\* Manager.Verify, then the extraction into staging.
CheckArchive(w) ==
    /\ Is(w, "check")
    /\ \/ /\ Available(source[w], root[w]) /\ status[source[w]] = "verified"
          /\ image' = [image EXCEPT ![w] = archive[root[w]][source[w]]]
          /\ Go(w, "aside") /\ UNCHANGED status
       \/ Go(w, "release") /\ Rechecked(source[w], root[w]) /\ UNCHANGED image
    /\ UNCHANGED <<task, root, mine, source, held, oplock, archive, cfgRoot, worldVars, panelVars, ghostVars>>

Disturbs(w) ==
    disturbed' = disturbed \cup
        {v \in Reading \ {w} : at[v] # "acquire" /\ (Lockless(w) \/ Lockless(v))}

\* A sidecar of an earlier restore goes, the present entry takes its place.
SetAside(w) ==
    /\ Is(w, "aside")
    /\ \/ live # Gone /\ aside' = live /\ live' = Gone /\ Go(w, "place")
       \/ live # Gone /\ aside' = Gone /\ Go(w, "release") /\ UNCHANGED live
       \/ live = Gone /\ aside' = Gone /\ Go(w, "place") /\ UNCHANGED live
    /\ Disturbs(w)
    /\ UNCHANGED <<task, root, mine, source, image, held, oplock, server, saving, storeVars, panelVars, misplaced>>

\* The archived entry is renamed in and the sidecar removed, or the sidecar is
\* renamed back.  A directory is not renamed over another.
Place(w) ==
    /\ Is(w, "place") /\ Go(w, "release")
    /\ \/ live = Gone /\ live' = image[w] /\ aside' = Gone
       \/ live' = (IF live = Gone THEN aside ELSE live) /\ aside' = (IF live = Gone THEN Gone ELSE aside)
    /\ Disturbs(w)
    /\ UNCHANGED <<task, root, mine, source, image, held, oplock, server, saving, storeVars, panelVars, misplaced>>

ReleaseOpLock(w) ==
    /\ Is(w, "release") /\ Forget({w})
    /\ oplock' = IF oplock = w THEN Gone ELSE oplock
    /\ disturbed' = disturbed \ {w}
    /\ UNCHANGED <<root, held, storeVars, worldVars, panelVars, misplaced>>

-----------------------------------------------------------------------------
(* bonghos backup storage move *)

\* CopyStorageVerified, then candidate.Verify of every backup; a failure
\* removes the copy.
CopyStorage(w) ==
    /\ Is(w, "copy")
    /\ \E target \in Roots \ {root[w]} :
         /\ \A b \in Ids : archive[target][b] = Gone
         /\ \/ /\ \A b \in Ids : Available(b, root[w]) => status[b] = "verified"
               /\ archive' = [archive EXCEPT ![target] = archive[root[w]]]
               /\ source' = [source EXCEPT ![w] = target]
               /\ Go(w, "switch") /\ UNCHANGED status
            \/ /\ Go(w, "release") /\ UNCHANGED <<source, archive>>
               /\ \E b \in Ids : Rechecked(b, root[w])
    /\ UNCHANGED <<task, root, mine, image, held, oplock, cfgRoot, worldVars, panelVars, ghostVars>>

\* (mutant) the old storage is removed before the configuration is written
SwitchLate(w) ==
    /\ Is(w, "switch") /\ Go(w, "remove")
    /\ archive' = [archive EXCEPT ![root[w]] = [b \in Ids |-> Gone]]
    /\ UNCHANGED <<task, root, mine, source, image, held, oplock, status, cfgRoot, worldVars, panelVars, ghostVars>>

\* config.Save.  The configuration was read before the lock was taken: another
\* move may have come in between.
SwitchStorage(w) ==
    /\ Is(w, "switch") /\ Go(w, "remove")
    /\ cfgRoot' = source[w]
    /\ misplaced' = IF root[w] = cfgRoot THEN misplaced
                    ELSE misplaced \cup {b \in Ids : status[b] # "none"}
    /\ UNCHANGED <<task, root, mine, source, image, held, oplock, status, archive, worldVars, panelVars, disturbed>>

RemoveStorage(w) ==
    /\ Is(w, "remove") /\ Go(w, "release")
    /\ archive' = [archive EXCEPT ![root[w]] = [b \in Ids |-> Gone]]
    /\ UNCHANGED <<task, root, mine, source, image, held, oplock, status, cfgRoot, worldVars, panelVars, ghostVars>>

-----------------------------------------------------------------------------
(* Requests without the lock *)

\* handleBackupDelete; the panel's manager keeps the root it was made with.
Delete(b) ==
    /\ panel
    /\ \E w \in Workers \ Commands :
         /\ Available(b, root[w])
         /\ archive' = [archive EXCEPT ![root[w]][b] = Gone]
    /\ status' = [status EXCEPT ![b] = "none"]
    /\ disturbed' = disturbed \cup {w \in Workers : mine[w] = b}
    /\ UNCHANGED <<workVars, cfgRoot, worldVars, panelVars, misplaced>>

VerifyRequest(b) ==
    /\ \E w \in Workers : (w \in Commands \/ panel) /\ Rechecked(b, root[w])
    /\ UNCHANGED <<workVars, archive, cfgRoot, worldVars, panelVars, ghostVars>>

-----------------------------------------------------------------------------
(* The server and the processes *)

\* Saving is on in a new server, which makes a world if there is none.  Nothing
\* keeps it from starting under a backup or a restore (see ControlPlane).
ServerStarts ==
    /\ ~server /\ server' = TRUE /\ saving' = TRUE
    /\ live' = IF live = Gone THEN 0 ELSE live
    /\ disturbed' = disturbed \cup Reading
    /\ UNCHANGED <<workVars, storeVars, aside, panelVars, misplaced>>

\* A stopping server saves its world once more.
ServerStops ==
    /\ server /\ server' = FALSE
    /\ disturbed' = disturbed \cup Reading
    /\ UNCHANGED <<workVars, storeVars, live, aside, saving, panelVars, misplaced>>

WorldChanges ==
    /\ server /\ saving /\ live \in 0..(MaxVersion - 1) /\ live' = live + 1
    /\ UNCHANGED <<workVars, storeVars, aside, server, saving, panelVars, ghostVars>>

\* A process dies with what it was at; its lock is stale (OpLock).
Dies(gone) ==
    /\ deathCount < MaxDeaths /\ deathCount' = deathCount + 1
    /\ Forget(gone) /\ disturbed' = disturbed \ gone
    /\ held' = [w \in Workers |-> w \notin gone /\ held[w]]
    /\ oplock' = IF oplock \in gone THEN Gone ELSE oplock
    /\ UNCHANGED <<root, begun, storeVars, worldVars, misplaced>>

PanelDies == panel /\ panel' = FALSE /\ Dies(Workers \ Commands)
CommandDies(w) == w \in Commands /\ at[w] # "idle" /\ Dies({w}) /\ UNCHANGED panel

\* app.New reads the configuration.
PanelStarts ==
    /\ ~panel /\ panel' = TRUE
    /\ root' = [w \in Workers |-> IF w \in Commands THEN root[w] ELSE cfgRoot]
    /\ UNCHANGED <<task, at, mine, source, image, held, oplock, storeVars, worldVars, deathCount, begun, ghostVars>>

Works(w) ==
    \/ AcquireOpLock(w) \/ Prepare(w) \/ ReadWorld(w) \/ ReadRest(w)
    \/ Verify(w) \/ Record(w) \/ SaveOn(w) \/ Decide(w) \/ CheckArchive(w)
    \/ SetAside(w) \/ Place(w) \/ ReleaseOpLock(w)
    \/ CopyStorage(w) \/ SwitchStorage(w) \/ RemoveStorage(w)

BackupsNext ==
    \/ \E w \in Workers : BeginBackup(w) \/ BeginMove(w) \/ LoadConfig(w) \/ CommandDies(w) \/ Works(w)
    \/ \E w \in Workers, b \in Ids, t \in {"restore", "unsafe restore"} : BeginRestore(w, b, t)
    \/ \E b \in Ids : Delete(b) \/ VerifyRequest(b)
    \/ ServerStarts \/ ServerStops \/ WorldChanges \/ PanelDies \/ PanelStarts

BackupsSpec == BackupsInit /\ [][BackupsNext]_backupVars
-----------------------------------------------------------------------------
\* An archive holds one state of the world: it is read while the server is down,
\* or up with its saving off, unless the server started or stopped, or a world
\* was replaced without the lock, since its mode was chosen.
ArchivesHoldOneState ==
    [][\A w \in Workers \ disturbed :
          at[w] = "reading" /\ at'[w] = "verify" => image'[w] = image[w]]_backupVars

\* Before a restore touches the world there is a verified copy of what it
\* replaces, in a storage (a move may take it along) and of the world as it is
\* now, unless it was asked to do without or somebody deleted the copy, started
\* the server or replaced the world without the lock.
SafetyCopyIsCurrent ==
    \A w \in Workers \ disturbed :
        task[w] = "restore" /\ at[w] \in {"aside", "place"} =>
            /\ mine[w] # Gone /\ status[mine[w]] = "verified"
            /\ at[w] = "aside" => \E r \in Roots : archive[r][mine[w]] = World
            /\ at[w] = "place" /\ aside # Gone => \E r \in Roots : archive[r][mine[w]] = aside

\* Moving the storage, interrupted or not, never takes a verified backup out of
\* reach: it is in the configured storage unless it was written through a
\* manager older than the move, or the move began with an older configuration.
VerifiedIsInStorage ==
    \A b \in Ids \ misplaced : status[b] = "verified" => archive[cfgRoot][b] # Gone

\* A server whose saving was turned off for a backup is going to get it back:
\* some backup that lives still has it to turn on, unless a process died.
SavingOffIsHeld ==
    ~saving /\ server /\ deathCount = 0 => \E w \in Workers : held[w]
=============================================================================
