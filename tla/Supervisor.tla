----------------------------- MODULE Supervisor -----------------------------
(***************************************************************************)
(* One `bonghos supervisor` process: internal/supervisor/supervisor.go,    *)
(* driven by the control verbs of internal/runtime/console/console.go and  *)
(* by the signal handler of cmd/bonghos/main.go.                           *)
(*                                                                         *)
(* Threads: the Run loop, one goroutine per control connection (Clients),  *)
(* the signal goroutine, and one console reader per started server.  A     *)
(* step is one critical section of s.mu, one system call, or one half of   *)
(* persist(): the snapshot is taken under s.mu and written after unlocking. *)
(*                                                                         *)
(* Servers are numbered in start order.  The number stands for the PID of  *)
(* the startup script, its process group and its Java child (pid reuse is  *)
(* not modelled).                                                          *)
(***************************************************************************)
EXTENDS Naturals, FiniteSets

CONSTANTS
    Clients,        \* control connections that may issue lifecycle verbs
    RunLoop,        \* the goroutine executing Supervisor.Run
    SigHandler,     \* the goroutine started by cmdSupervisor
    Policy,         \* cfg.RestartPolicy
    MaxCrashLoop,   \* cfg.MaxCrashLoop
    MaxStarts,      \* bound: servers started in one run
    MaxSignals      \* bound: SIGTERM / SIGINT sent to the process

ASSUME PolicyAssumption == Policy \in {"never", "on-failure", "always"}
ASSUME MaxCrashLoopAssumption == MaxCrashLoop \in Nat \ {0}
ASSUME BoundsAssumption == MaxStarts \in Nat /\ MaxSignals \in Nat
ASSUME ThreadAssumption ==
    /\ RunLoop \notin Clients /\ SigHandler \notin Clients
    /\ RunLoop # SigHandler
    /\ (Clients \cup {RunLoop, SigHandler}) \cap Nat = {}

VARIABLES
    state,          \* s.state
    cmd,            \* s.cmd and s.tty, set and cleared together (0: nil)
    pid,            \* s.scriptPID and s.pgid (0: never started)
    stopIntent,     \* s.stopIntent
    restartIntent,  \* s.restartIntent
    crashes,        \* len(s.recentCrashes(10 * time.Minute))
    runPc,          \* where the Run loop is
    decided,        \* Run's local `state`, one per iteration; s.lastClass names it
    ctlPc,          \* where each control thread is inside Stop / ForceStop
    ctlPid,         \* the pid it captured under s.mu (0: none)
    ctlTty,         \* the tty it captured under s.mu (0: nil)
    sigPc,          \* where the signal goroutine is
    signals,        \* how many signals the process was sent (the channel keeps two)
    ctxDone,        \* the context of Run was cancelled
    pend,           \* each thread's progress inside persist()
    snap,           \* the snapshot a thread is about to write
    disk,           \* supervisor-state.json
    reading,        \* servers whose readConsole goroutine has not seen "Done" yet
    booted,         \* servers whose Java process ran, so may have printed "Done"
    started,        \* how many servers were started
    live,           \* startup scripts that are running
    zombie,         \* startup scripts that exited and were not waited for
    javas,          \* servers whose Java child is running
    exitOk          \* the exit status wait will return is 0

supVars == <<state, cmd, pid, stopIntent, restartIntent, crashes>>
runVars == <<runPc, decided>>
ctlVars == <<ctlPc, ctlPid, ctlTty, sigPc, signals, ctxDone>>
diskVars == <<pend, snap, disk>>
readVars == <<reading, booted>>
osVars == <<started, live, zombie, javas, exitOk>>
vars == <<supVars, runVars, ctlVars, diskVars, readVars, osVars>>

-----------------------------------------------------------------------------
(* Types *)

States == {"stopped", "starting", "running", "stopping", "restarting", "crashed"}
Servers == 1..MaxStarts
Controls == Clients \cup {SigHandler}
Threads == Controls \cup {RunLoop} \cup Servers     \* a server names its reader
Snapshots == [state : States, pid : Nat, java : Nat]

RunPcs == {"head", "spawn", "failed", "record", "await", "waiting", "cleared",
           "sweep", "classify", "decide", "backoff", "returned", "exited"}

TypeOK ==
    /\ state \in States /\ cmd \in 0..MaxStarts /\ pid \in 0..MaxStarts
    /\ stopIntent \in BOOLEAN /\ restartIntent \in BOOLEAN /\ crashes \in Nat
    /\ runPc \in RunPcs /\ decided \in States
    /\ ctlPc \in [Controls -> {"idle", "stop", "ask", "grace", "term", "kill"}]
    /\ ctlPid \in [Controls -> Nat] /\ ctlTty \in [Controls -> Nat]
    /\ sigPc \in {"first", "stopping", "second", "force", "done"}
    /\ signals \in 0..MaxSignals /\ ctxDone \in BOOLEAN
    /\ pend \in [Threads -> {"none", "due", "write"}]
    /\ snap \in [Threads -> Snapshots] /\ disk \in Snapshots
    /\ reading \subseteq Servers /\ booted \subseteq Servers
    /\ started \in 0..MaxStarts
    /\ live \subseteq Servers /\ zombie \subseteq Servers /\ javas \subseteq Servers
    /\ exitOk \in BOOLEAN

-----------------------------------------------------------------------------
(* Helpers *)

Terminal == {"stopped", "crashed"}
Alive(p) == p \in live \cup zombie      \* /proc/<pid> exists, zombie included
Processes == live \cup zombie \cup javas
Settled(t) == pend[t] = "none"
PersistDue(t) == pend' = [pend EXCEPT ![t] = "due"]
NoSnapshot == [state |-> "stopped", pid |-> 0, java |-> 0]
CurrentSnapshot ==
    [state |-> state, pid |-> pid, java |-> IF pid \in javas THEN pid ELSE 0]

\* (mutant) kill(pid) where kill(-pgid) is meant
KillScriptOnly(p) ==
    /\ live' = live \ {p}
    /\ zombie' = zombie \cup (live \cap {p})
    /\ exitOk' = (exitOk /\ p \notin live)
    /\ UNCHANGED <<started, javas>>

\* kill(-pgid, SIGKILL): every member of the process group dies at once.
KillGroup(p) ==
    /\ live' = live \ {p}
    /\ zombie' = zombie \cup (live \cap {p})
    /\ javas' = javas \ {p}
    /\ exitOk' = (exitOk /\ p \notin live)
    /\ UNCHANGED started

Up == runPc # "exited"

Init ==
    /\ state = "stopped" /\ cmd = 0 /\ pid = 0
    /\ stopIntent = FALSE /\ restartIntent = FALSE /\ crashes = 0
    /\ runPc = "head" /\ decided = "stopped"
    /\ ctlPc = [c \in Controls |-> "idle"]
    /\ ctlPid = [c \in Controls |-> 0] /\ ctlTty = [c \in Controls |-> 0]
    /\ sigPc = "first" /\ signals = 0 /\ ctxDone = FALSE
    /\ pend = [t \in Threads |-> "none"]
    /\ snap = [t \in Threads |-> NoSnapshot] /\ disk = NoSnapshot
    /\ reading = {} /\ booted = {}
    /\ started = 0 /\ live = {} /\ zombie = {} /\ javas = {} /\ exitOk = TRUE

-----------------------------------------------------------------------------
(* persist(): snapshot under s.mu, then an atomic rename outside it *)

PersistSnapshot(t) ==
    /\ Up /\ pend[t] = "due"
    /\ snap' = [snap EXCEPT ![t] = CurrentSnapshot]
    /\ pend' = [pend EXCEPT ![t] = "write"]
    /\ UNCHANGED <<supVars, runVars, ctlVars, disk, readVars, osVars>>

PersistWrite(t) ==
    /\ Up /\ pend[t] = "write"
    /\ disk' = snap[t]
    /\ snap' = [snap EXCEPT ![t] = NoSnapshot]
    /\ pend' = [pend EXCEPT ![t] = "none"]
    /\ UNCHANGED <<supVars, runVars, ctlVars, readVars, osVars>>

-----------------------------------------------------------------------------
(* The Run loop *)

Runs(pc) == runPc = pc /\ Settled(RunLoop)

\* Loop head and the first critical section of startOnce.  Its "already
\* running" refusal is the guard; HeadIsIdle shows it is never the case.
RunBegin ==
    /\ Runs("head") /\ ~ctxDone
    /\ state \notin {"running", "starting"}
    /\ state' = "starting"
    /\ runPc' = "spawn"
    /\ PersistDue(RunLoop)
    /\ UNCHANGED <<cmd, pid, stopIntent, restartIntent, crashes,
                   decided, ctlVars, snap, disk, readVars, osVars>>

\* os.Stat and pty.Start succeed: the process exists, s does not know it yet.
RunSpawn ==
    /\ Runs("spawn") /\ started < MaxStarts
    /\ started' = started + 1
    /\ live' = live \cup {started'}
    /\ runPc' = "record"
    /\ UNCHANGED <<supVars, decided, ctlVars, diskVars, readVars, zombie, javas, exitOk>>

RunSpawnFails ==
    /\ Runs("spawn")
    /\ runPc' = "failed"
    /\ UNCHANGED <<supVars, decided, ctlVars, diskVars, readVars, osVars>>

\* Run's reaction to an error of startOnce; the missing command makes wait
\* return exit code -1 at once.
RunFailed ==
    /\ Runs("failed")
    /\ state' = "crashed"
    /\ exitOk' = FALSE
    /\ runPc' = "await"
    /\ PersistDue(RunLoop)
    /\ UNCHANGED <<cmd, pid, stopIntent, restartIntent, crashes, decided, ctlVars,
                   snap, disk, readVars, started, live, zombie, javas>>

\* The second critical section of startOnce.
RunRecord ==
    /\ Runs("record")
    /\ cmd' = started /\ pid' = started /\ state' = "starting"
    /\ runPc' = "await"
    /\ PersistDue(RunLoop)
    /\ UNCHANGED <<stopIntent, restartIntent, crashes, decided, ctlVars,
                   snap, disk, readVars, osVars>>

\* `go readConsole(tty)`, then wait reads s.cmd.
RunAwait ==
    /\ Runs("await")
    /\ \/ cmd = 0 /\ runPc' = "classify" /\ UNCHANGED reading
       \/ cmd # 0 /\ runPc' = "waiting" /\ reading' = reading \cup {cmd}
    /\ UNCHANGED <<supVars, decided, ctlVars, diskVars, booted, osVars>>

\* cmd.Wait returns when the startup script has exited.
RunReap ==
    /\ Runs("waiting") /\ cmd \in zombie
    /\ zombie' = zombie \ {cmd}
    /\ runPc' = "cleared"
    /\ UNCHANGED <<supVars, decided, ctlVars, diskVars, readVars, started, live, javas, exitOk>>

RunClear ==
    /\ Runs("cleared")
    /\ cmd' = 0
    /\ runPc' = "sweep"
    /\ UNCHANGED <<state, pid, stopIntent, restartIntent, crashes, decided,
                   ctlVars, diskVars, readVars, osVars>>

\* (mutant) wait returns without the sweep
RunSweepMissing ==
    /\ Runs("sweep")
    /\ runPc' = "classify"
    /\ UNCHANGED <<supVars, decided, ctlVars, diskVars, readVars, osVars>>

\* The end of wait: kill whatever survived in the process group.
RunSweep ==
    /\ Runs("sweep")
    /\ KillGroup(pid)
    /\ runPc' = "classify"
    /\ UNCHANGED <<supVars, decided, ctlVars, diskVars, readVars>>

\* (mutant) only the exit status counts, a requested stop is forgotten
VerdictByStatus ==
    IF restartIntent THEN "restarting"
    ELSE IF ctxDone \/ exitOk THEN "stopped" ELSE "crashed"

Verdict ==
    IF restartIntent THEN "restarting"
    ELSE IF stopIntent \/ ctxDone \/ exitOk THEN "stopped"
    ELSE "crashed"

\* The critical section of Run that consumes the intents.
RunClassify ==
    /\ Runs("classify")
    /\ stopIntent' = FALSE /\ restartIntent' = FALSE
    /\ state' = Verdict /\ decided' = Verdict
    /\ exitOk' = TRUE
    /\ crashes' = IF Verdict = "crashed" THEN crashes + 1 ELSE crashes
    /\ runPc' = "decide"
    /\ PersistDue(RunLoop)
    /\ UNCHANGED <<cmd, pid, ctlVars, snap, disk, readVars,
                   started, live, zombie, javas>>

\* (mutant) one crash too many
CrashLoopingLate == crashes > MaxCrashLoop
CrashLooping == crashes >= MaxCrashLoop

\* (mutant) crash-loop protection is not consulted
FinalNoProtection ==
    \/ ctxDone
    \/ decided = "stopped"
    \/ decided = "crashed" /\ Policy = "never"

Final == \/ ctxDone
         \/ decided = "stopped"
         \/ decided = "crashed" /\ (Policy = "never" \/ CrashLooping)

RunDecide ==
    /\ Runs("decide")
    /\ \/ Final /\ runPc' = "returned"
       \/ ~Final /\ runPc' = "backoff"
    /\ UNCHANGED <<supVars, decided, ctlVars, diskVars, readVars, osVars>>

RunDelayOver ==
    /\ Runs("backoff")
    /\ runPc' = "head" /\ decided' = "stopped"
    /\ UNCHANGED <<supVars, ctlVars, diskVars, readVars, osVars>>

RunCancelled ==
    /\ runPc \in {"head", "backoff"} /\ Settled(RunLoop) /\ ctxDone
    /\ runPc' = "returned"
    /\ UNCHANGED <<supVars, decided, ctlVars, diskVars, readVars, osVars>>

\* cmdSupervisor returns: every goroutine of the process is gone.
Exit ==
    /\ Runs("returned")
    /\ runPc' = "exited"
    /\ UNCHANGED <<supVars, decided, ctlVars, diskVars, readVars, osVars>>

RunStep ==
    \/ RunBegin \/ RunSpawn \/ RunSpawnFails \/ RunFailed \/ RunRecord
    \/ RunAwait \/ RunReap \/ RunClear \/ RunSweep \/ RunClassify
    \/ RunDecide \/ RunDelayOver \/ RunCancelled \/ Exit

-----------------------------------------------------------------------------
(* Control verbs *)

CanAct(c, pc) == Up /\ ctlPc[c] = pc /\ Settled(c)

\* The critical section of Stop(true), entered from the console ("idle"), from
\* Restart or from the signal goroutine ("stop").
BeginStop(c) ==
    /\ CanAct(c, "stop") \/ (c \in Clients /\ CanAct(c, "idle"))
    /\ state \notin Terminal
    /\ stopIntent' = TRUE /\ state' = "stopping"
    /\ ctlPid' = [ctlPid EXCEPT ![c] = pid]
    /\ ctlTty' = [ctlTty EXCEPT ![c] = cmd]
    /\ ctlPc' = [ctlPc EXCEPT ![c] = "ask"]
    /\ PersistDue(c)
    /\ UNCHANGED <<cmd, pid, restartIntent, crashes, runVars, sigPc, signals,
                   ctxDone, snap, disk, readVars, osVars>>

Return(c) ==
    /\ ctlPc' = [ctlPc EXCEPT ![c] = "idle"]
    /\ ctlPid' = [ctlPid EXCEPT ![c] = 0]
    /\ ctlTty' = [ctlTty EXCEPT ![c] = 0]
    /\ UNCHANGED <<supVars, runVars, sigPc, signals, ctxDone, diskVars, readVars>>

Goto(c, pc) ==
    /\ ctlPc' = [ctlPc EXCEPT ![c] = pc]
    /\ UNCHANGED <<supVars, runVars, ctlPid, ctlTty, sigPc, signals, ctxDone,
                   diskVars, readVars, osVars>>

\* Stop finds the server stopped or crashed and reports success.
StopIgnored(c) ==
    /\ CanAct(c, "stop") /\ state \in Terminal
    /\ Return(c) /\ UNCHANGED osVars

\* With a console: save-all flush, stop, wait.  Without: straight to SIGTERM
\* (a group that was never started has nothing to signal).
StopAsk(c) ==
    /\ CanAct(c, "ask")
    /\ \/ ctlTty[c] # 0 /\ Goto(c, "grace")
       \/ ctlTty[c] = 0 /\ ctlPid[c] # 0 /\ Goto(c, "term")
       \/ ctlTty[c] = 0 /\ ctlPid[c] = 0 /\ Return(c) /\ UNCHANGED osVars

\* The polling loops see that the script's /proc entry is gone.
StopSeesExit(c) ==
    /\ CanAct(c, "grace") \/ CanAct(c, "term")
    /\ ~Alive(ctlPid[c])
    /\ Return(c) /\ UNCHANGED osVars

\* A deadline passes: SIGTERM after the graceful window, then SIGKILL.
StopDeadline(c) ==
    \/ CanAct(c, "grace") /\ Goto(c, "term")
    \/ CanAct(c, "term") /\ Goto(c, "kill")

\* The SIGKILL that ends Stop and ForceStop.
Kill(c) ==
    /\ CanAct(c, "kill")
    /\ KillGroup(ctlPid[c])
    /\ Return(c)

\* Restart marks the intent in one critical section and calls Stop(true).
BeginRestart(c) ==
    /\ CanAct(c, "idle")
    /\ state \in {"running", "starting"}
    /\ restartIntent' = TRUE
    /\ ctlPc' = [ctlPc EXCEPT ![c] = "stop"]
    /\ UNCHANGED <<state, cmd, pid, stopIntent, crashes, runVars, ctlPid, ctlTty,
                   sigPc, signals, ctxDone, diskVars, readVars, osVars>>

ForceStopSection(c) ==
    /\ stopIntent' = TRUE
    /\ ctlPid' = [ctlPid EXCEPT ![c] = pid]
    /\ ctlPc' = [ctlPc EXCEPT ![c] = "kill"]
    /\ UNCHANGED <<state, cmd, pid, restartIntent, crashes, runVars, ctlTty, signals,
                   ctxDone, diskVars, readVars, osVars>>

BeginForceStop(c) ==
    /\ CanAct(c, "idle")
    /\ ForceStopSection(c)
    /\ UNCHANGED sigPc

ControlStep(c) ==
    BeginStop(c) \/ StopIgnored(c) \/ StopAsk(c) \/ StopSeesExit(c)
        \/ StopDeadline(c) \/ Kill(c)

-----------------------------------------------------------------------------
(* The signal goroutine of cmdSupervisor *)

Signal ==
    /\ Up /\ signals < MaxSignals
    /\ signals' = signals + 1
    /\ UNCHANGED <<supVars, runVars, ctlPc, ctlPid, ctlTty, sigPc, ctxDone, diskVars,
                   readVars, osVars>>

SigFirst ==
    /\ Up /\ sigPc = "first" /\ signals >= 1
    /\ sigPc' = "stopping"
    /\ ctlPc' = [ctlPc EXCEPT ![SigHandler] = "stop"]
    /\ UNCHANGED <<supVars, runVars, ctlPid, ctlTty, signals, ctxDone, diskVars,
                   readVars, osVars>>

\* Only now is the goroutine that awaits the second signal started.
SigStopReturned ==
    /\ CanAct(SigHandler, "idle") /\ sigPc = "stopping"
    /\ sigPc' = "second"
    /\ UNCHANGED <<supVars, runVars, ctlPc, ctlPid, ctlTty, signals, ctxDone, diskVars,
                   readVars, osVars>>

SigSecond ==
    /\ Up /\ sigPc = "second" /\ signals >= 2
    /\ sigPc' = "force"
    /\ ForceStopSection(SigHandler)

SigCancel ==
    /\ CanAct(SigHandler, "idle") /\ sigPc = "force"
    /\ sigPc' = "done" /\ ctxDone' = TRUE
    /\ UNCHANGED <<supVars, runVars, ctlPc, ctlPid, ctlTty, signals, diskVars, readVars, osVars>>

SigStep == SigFirst \/ SigStopReturned \/ SigSecond \/ SigCancel

-----------------------------------------------------------------------------
(* Console readers, Minecraft and the clock *)

AfterDone == IF state = "starting" THEN "running" ELSE state

\* readConsole handles the "Done (...)!" line of server g.  Nothing ties the
\* reader to the current server: a late one may run after g was replaced.
ReaderDone(g) ==
    /\ Up /\ g \in reading \cap booted /\ Settled(g)
    /\ state' = AfterDone
    /\ reading' = reading \ {g} /\ UNCHANGED booted
    /\ PersistDue(g)
    /\ UNCHANGED <<cmd, pid, stopIntent, restartIntent, crashes, runVars, ctlVars,
                   snap, disk, osVars>>

JavaStarts(g) ==
    /\ Up /\ g \in live \ javas
    /\ javas' = javas \cup {g}
    /\ booted' = booted \cup {g}
    /\ UNCHANGED <<supVars, runVars, ctlVars, diskVars, reading, started, live, zombie, exitOk>>

JavaExits(g) ==
    /\ Up /\ g \in javas
    /\ javas' = javas \ {g}
    /\ UNCHANGED <<supVars, runVars, ctlVars, diskVars, readVars, started, live, zombie, exitOk>>

\* The startup script may end at any time, with or without its Java child:
\* after a `stop`, on SIGTERM, on a crash, or because it put Java in the
\* background.
ScriptExits(g) ==
    /\ Up /\ g \in live
    /\ live' = live \ {g} /\ zombie' = zombie \cup {g}
    /\ exitOk' \in BOOLEAN
    /\ UNCHANGED <<supVars, runVars, ctlVars, diskVars, readVars, started, javas>>

\* Ten minutes pass since the oldest crash that still counts.
CrashForgotten ==
    /\ Up /\ crashes > 0
    /\ crashes' = crashes - 1
    /\ UNCHANGED <<state, cmd, pid, stopIntent, restartIntent, runVars, ctlVars,
                   diskVars, readVars, osVars>>

Environment ==
    \/ \E g \in Servers : JavaStarts(g) \/ JavaExits(g) \/ ScriptExits(g)
    \/ CrashForgotten

-----------------------------------------------------------------------------

Next ==
    \/ RunStep
    \/ \E c \in Controls : ControlStep(c)
    \/ \E c \in Clients : BeginRestart(c) \/ BeginForceStop(c)
    \/ Signal \/ SigStep
    \/ \E g \in Servers : ReaderDone(g)
    \/ \E t \in Threads : PersistSnapshot(t) \/ PersistWrite(t)
    \/ Environment

Spec == Init /\ [][Next]_vars

\* Goroutines are scheduled, deadlines pass and disk writes end.  Nothing is
\* assumed of operators, signals, Minecraft or the reader's lines.
Fairness ==
    /\ WF_vars(RunStep)
    /\ \A c \in Controls : WF_vars(ControlStep(c) /\ ctlPc[c] # "idle")
    /\ WF_vars(SigStep)
    /\ \A t \in Threads : WF_vars(PersistSnapshot(t) \/ PersistWrite(t))

FairSpec == Spec /\ Fairness

-----------------------------------------------------------------------------
(* Safety *)

\* One Minecraft process group at a time (supervisor.go:74): however stops,
\* restarts, failed starts and crashes interleave, no script or Java process
\* of an earlier server is alive when another one runs.
OneServer == \A g, h \in live \cup javas : g = h

\* startOnce's "already running" refusal is unreachable: whenever Run is about
\* to start a server, no control thread or late console reader has left the
\* state at starting or running.
HeadIsIdle == runPc = "head" => state \notin {"running", "starting"}

\* A terminal snapshot names no live Minecraft process (runner.go:60), even
\* when a slow persist() writes it after newer ones.
TerminalSnapshotIsDead ==
    disk.state \in Terminal => ~Alive(disk.pid) /\ disk.java \notin javas

\* Crash-loop protection: Run never waits out a delay or starts a server with
\* MaxCrashLoop recent crashes on record, requested restarts included.
CrashBudget ==
    /\ crashes <= MaxCrashLoop
    /\ runPc \notin {"decide", "returned", "exited"} => crashes < MaxCrashLoop

\* A process that survived its supervisor: after Run returned nothing of the
\* server is left, script or Java.
NoOrphans == runPc \in {"returned", "exited"} => Processes = {}

\* The inductive invariant behind the four above: only the newest server can
\* have processes, none has any where Run holds no command, the recorded
\* command is that server, and between a verdict and the next start the state
\* is neither starting nor running.
Quiet == {"head", "spawn", "failed", "classify", "decide", "backoff", "returned", "exited"}
OnlyTheNewest == Processes \subseteq {started} /\ live \cap zombie = {}
QuietIsEmpty == runPc \in Quiet => Processes = {}
CommandIsTheNewest ==
    /\ runPc = "record" => started # 0
    /\ cmd # 0 => runPc \in {"await", "waiting", "cleared"} /\ cmd = started
    /\ cmd = 0 => runPc \notin {"waiting", "cleared"}
    /\ runPc \in {"waiting", "cleared", "sweep"} \/ cmd # 0 => pid = started
    /\ runPc = "await" /\ cmd = 0 => Processes = {}
ReapedIsGone == runPc \in {"cleared", "sweep"} => live \cup zombie = {}
VerdictIsIdle ==
    /\ runPc = "decide" => /\ decided \in {"restarting", "stopped", "crashed"}
                           /\ decided # "crashed" => crashes < MaxCrashLoop
    /\ runPc \in {"decide", "backoff", "head", "returned", "exited"}
           => state \notin {"running", "starting"}

SupervisorInv ==
    /\ OnlyTheNewest /\ QuietIsEmpty /\ CommandIsTheNewest /\ ReapedIsGone
    /\ VerdictIsIdle /\ CrashBudget

\* The supervisor implements the slot it promises (ServerSlot).
Slot == INSTANCE ServerSlot WITH
    MaxCrashes <- MaxCrashLoop,
    MaxLaunches <- MaxStarts,
    launches <- started,
    recent <- crashes,
    slot <- IF runPc \in {"returned", "exited"} THEN "closed"
            ELSE IF Processes = {} THEN "empty" ELSE "occupied"
SlotSpec == Slot!Spec

-----------------------------------------------------------------------------
(* Liveness *)

\* A stop accepted while a server is up, with no restart requested before it,
\* ends with Run returning: the escalation always reaches the process, the
\* exit is never classified as a crash and the policy never restarts it.
StopTerminates ==
    (runPc = "waiting" /\ state = "stopping" /\ ~restartIntent) ~> runPc = "exited"
=============================================================================
