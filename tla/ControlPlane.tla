---------------------------- MODULE ControlPlane ----------------------------
(***************************************************************************)
(* Lifecycle operations of the control plane (app.Runner and the handlers  *)
(* that replace server files) against the supervisor processes they start, *)
(* the state file and socket they share, and the bonghos-minecraft unit.   *)
(*                                                                         *)
(* An agent is one request in one process: the web process and every       *)
(* `bonghos server ...` command have a Runner, so a lifecycle lock, of     *)
(* their own; the operation lock is shared.  A supervisor is seen from     *)
(* outside: Supervisor has its threads and the races inside it.            *)
(***************************************************************************)
EXTENDS Naturals, FiniteSets

CONSTANTS
    Agents,         \* requests
    Procs,          \* processes with an App
    ProcOf,         \* the process a request runs in
    Nobody,
    Jobs,           \* what the requests ask for
    Systemd,        \* systemd.Available(); otherwise detached supervisors
    MaxSups,        \* bound: supervisor processes
    MaxServers      \* bound: Minecraft processes

ASSUME ProcAssumption == ProcOf \in [Agents -> Procs] /\ Nobody \notin Agents
ASSUME JobsAssumption ==
    Jobs \subseteq {"start", "stop", "restart", "force", "restore", "cli-restore", "reset"}
ASSUME SystemdAssumption == Systemd \in BOOLEAN
ASSUME BoundsAssumption == MaxSups \in Nat /\ MaxServers \in Nat

VARIABLES
    busy,           \* Runner.busy of each process
    opLock,         \* holder of the operation lock
    pc, job,        \* each request: where it is, what it does
    file,           \* supervisor-state.json: {} or {[state, pid]}
    sock,           \* the supervisor whose socket has the well-known name (0: none)
    unit,           \* ActiveState of bonghos-minecraft.service
    last,           \* supervisors spawned so far; under systemd, the unit's is the last
    phase,          \* each supervisor: where its Run loop is
    mine,           \* its scriptPID (0: none yet)
    intent,         \* its stopIntent
    told,           \* control verbs and SIGTERMs it has not handled yet
    mcs,            \* Minecraft processes that are alive
    servers         \* Minecraft processes started so far

agentVars == <<busy, opLock, pc, job>>
supVars == <<last, phase, mine, intent, told>>
hostVars == <<file, sock, unit, mcs, servers>>
vars == <<agentVars, supVars, hostVars>>

Sups == 1..MaxSups
Lines == {"idle", "check", "clear", "wipe", "launch", "await", "dial", "halt", "down", "unit",
          "stopped", "pgid", "forced", "begin", "op", "safety", "lock", "recheck", "replace"}
Phases == {"off", "boot", "refused", "head", "spawn", "record", "starting", "running",
           "stopping", "backoff", "return", "looping", "gone", "looped"}
Up == {"starting", "running", "stopping"}
Records == [state : {"starting", "running", "stopping", "stopped", "crashed"}, pid : 0..MaxServers]

TypeOK ==
    /\ busy \in [Procs -> Agents \cup {Nobody}] /\ opLock \in Agents \cup {Nobody}
    /\ pc \in [Agents -> Lines] /\ job \in [Agents -> Jobs \cup {"none", "start"}]
    /\ file \in {{}} \cup {{f} : f \in Records}
    /\ sock \in 0..MaxSups /\ unit \in {"inactive", "active", "stopping", "waiting"}
    /\ last \in 0..MaxSups /\ phase \in [Sups -> Phases]
    /\ mine \in [Sups -> 0..MaxServers] /\ intent \in [Sups -> BOOLEAN]
    /\ told \in [Sups -> SUBSET {"stop", "force"}]
    /\ mcs \subseteq 1..MaxServers /\ servers \in 0..MaxServers

Init ==
    /\ busy = [p \in Procs |-> Nobody] /\ opLock = Nobody
    /\ pc = [a \in Agents |-> "idle"] /\ job = [a \in Agents |-> "none"]
    /\ file = {} /\ sock = 0 /\ unit = "inactive" /\ last = 0
    /\ phase = [s \in Sups |-> "off"] /\ mine = [s \in Sups |-> 0]
    /\ intent = [s \in Sups |-> FALSE] /\ told = [s \in Sups |-> {}]
    /\ mcs = {} /\ servers = 0

-----------------------------------------------------------------------------
(* What the control plane sees *)

\* StaleCheck: the recorded PIDs are dead.
Stale(f) == f.pid \notin mcs

\* Runner.State and Runner.Online.  The state "restarting" is never persisted
\* here: the Runner restarts with a stop and a start.
State ==
    IF file = {} THEN "stopped"
    ELSE LET f == CHOOSE g \in file : TRUE
         IN  IF f.state \in {"stopped", "crashed"} THEN f.state
             ELSE IF Stale(f) THEN "crashed" ELSE f.state
Online == State \in {"running", "starting", "stopping"}

Alive(s) == phase[s] \notin {"off", "gone", "looped"}
Listening == sock # 0 /\ Alive(sock) /\ phase[sock] \notin {"boot", "refused"}

-----------------------------------------------------------------------------
(* Supervisor processes *)

Become(s, ph) == phase' = [phase EXCEPT ![s] = ph]

Persist(st, p) == file' = {[state |-> st, pid |-> p]}

Spawn ==
    /\ last < MaxSups
    /\ last' = last + 1
    /\ Become(last', "boot")

\* console.Server.Start: refuse if the socket answers, else take its name.
\* SIGTERM has its default effect until the handler is installed.
SupBoot(s) ==
    /\ phase[s] = "boot"
    /\ \/ (Listening \/ told[s] # {}) /\ Become(s, "refused") /\ UNCHANGED sock
       \/ ~Listening /\ told[s] = {} /\ Become(s, "head") /\ sock' = s
    /\ UNCHANGED <<agentVars, last, mine, intent, told, file, unit, mcs, servers>>

\* The first half of startOnce records "starting" with the old PID, or none.
SupHead(s) ==
    /\ phase[s] = "head"
    /\ Become(s, "spawn") /\ Persist("starting", mine[s])
    /\ UNCHANGED <<agentVars, last, mine, intent, told, sock, unit, mcs, servers>>

SupSpawn(s) ==
    /\ phase[s] = "spawn" /\ servers < MaxServers
    /\ servers' = servers + 1 /\ mcs' = mcs \cup {servers'}
    /\ mine' = [mine EXCEPT ![s] = servers']
    /\ Become(s, "record")
    /\ UNCHANGED <<agentVars, last, intent, told, file, sock, unit>>

SupRecord(s) ==
    /\ phase[s] = "record"
    /\ Become(s, "starting") /\ Persist("starting", mine[s])
    /\ UNCHANGED <<agentVars, last, mine, intent, told, sock, unit, mcs, servers>>

\* "Done (...)!"
SupReady(s) ==
    /\ phase[s] = "starting" /\ mine[s] \in mcs
    /\ Become(s, "running") /\ Persist("running", mine[s])
    /\ UNCHANGED <<agentVars, last, mine, intent, told, sock, unit, mcs, servers>>

\* Minecraft ends, by itself or because it was asked to.
McExit(p) ==
    /\ p \in mcs /\ mcs' = mcs \ {p}
    /\ UNCHANGED <<agentVars, supVars, file, sock, unit, servers>>

\* wait returns, or startOnce failed; Run classifies the exit.  Without an
\* intent a status of 0 counts as a stop, and a crash goes to the policy.
SupVerdict(s) ==
    /\ \/ phase[s] \in Up /\ mine[s] \notin mcs
       \/ phase[s] = "spawn"
    /\ \/ (intent[s] \/ phase[s] \in Up) /\ Persist("stopped", mine[s]) /\ Become(s, "return")
       \/ ~intent[s] /\ Persist("crashed", mine[s])
            /\ \E ph \in {"backoff", "return", "looping"} : Become(s, ph)
    /\ intent' = [intent EXCEPT ![s] = FALSE]
    /\ UNCHANGED <<agentVars, last, mine, told, sock, unit, mcs, servers>>

SupBackoffOver(s) ==
    /\ phase[s] = "backoff" /\ Become(s, "head")
    /\ UNCHANGED <<agentVars, last, mine, intent, told, hostVars>>

\* Stop is ignored in a terminal state, that of a new supervisor included.  It
\* brings a recorded server down; of one being spawned it knows nothing yet.
SupStop(s) ==
    /\ "stop" \in told[s] /\ Alive(s) /\ phase[s] \notin {"boot", "refused"}
    /\ told' = [told EXCEPT ![s] = @ \ {"stop"}]
    /\ IF phase[s] \in {"head", "backoff", "return", "looping"}
       THEN UNCHANGED <<intent, file, phase>>
       ELSE /\ intent' = [intent EXCEPT ![s] = TRUE]
            /\ Persist("stopping", IF phase[s] = "record" THEN 0 ELSE mine[s])
            /\ IF phase[s] \in Up THEN Become(s, "stopping") ELSE UNCHANGED phase
    /\ UNCHANGED <<agentVars, last, mine, sock, unit, mcs, servers>>

\* The escalation at the end of Stop.
SupEscalate(s) ==
    /\ phase[s] = "stopping" /\ mine[s] \in mcs
    /\ mcs' = mcs \ {mine[s]}
    /\ UNCHANGED <<agentVars, supVars, file, sock, unit, servers>>

SupForceStop(s) ==
    /\ "force" \in told[s] /\ Alive(s)
    /\ told' = [told EXCEPT ![s] = @ \ {"force"}]
    /\ intent' = [intent EXCEPT ![s] = TRUE]
    /\ mcs' = IF phase[s] = "record" THEN mcs ELSE mcs \ {mine[s]}
    /\ UNCHANGED <<agentVars, last, phase, mine, file, sock, unit, servers>>

\* cmdSupervisor ends; its deferred Close unlinks the socket by name.  systemd
\* starts a failed service again (Restart=on-failure) unless it is stopping.
SupExit(s) ==
    /\ phase[s] \in {"refused", "return", "looping"}
    /\ Become(s, IF phase[s] = "looping" THEN "looped" ELSE "gone")
    /\ sock' = IF phase[s] = "refused" THEN sock ELSE 0
    /\ told' = [told EXCEPT ![s] = {}]
    /\ unit' = IF ~Systemd THEN unit
               ELSE IF phase[s] # "return" /\ unit = "active" THEN "waiting" ELSE "inactive"
    /\ UNCHANGED <<agentVars, last, mine, intent, file, mcs, servers>>

SupStep(s) ==
    \/ SupBoot(s) \/ SupHead(s) \/ SupSpawn(s) \/ SupRecord(s) \/ SupReady(s)
    \/ SupVerdict(s) \/ SupBackoffOver(s) \/ SupStop(s) \/ SupEscalate(s)
    \/ SupForceStop(s) \/ SupExit(s)

-----------------------------------------------------------------------------
(* systemd *)

\* RestartSec has passed.
UnitRestart ==
    /\ unit = "waiting" /\ unit' = "active"
    /\ Spawn
    /\ UNCHANGED <<agentVars, mine, intent, told, file, sock, mcs, servers>>

\* TimeoutStopSec has passed: SIGKILL for the whole control group.
UnitKill ==
    /\ unit = "stopping" /\ unit' = "inactive"
    /\ Become(last, "gone") /\ told' = [told EXCEPT ![last] = {}]
    /\ mcs' = {}
    /\ UNCHANGED <<agentVars, last, mine, intent, file, sock, servers>>

\* `systemctl start`: nothing to do for an active unit, queued behind a stop.
StartUnit ==
    \/ unit = "active" /\ UNCHANGED <<unit, supVars>>
    \/ unit \in {"inactive", "waiting"} /\ unit' = "active" /\ Spawn
       /\ UNCHANGED <<mine, intent, told>>

\* `systemctl stop` sends SIGTERM; the caller waits for UnitDown.
StopUnit ==
    \/ /\ unit = "active" /\ unit' = "stopping"
       /\ told' = [told EXCEPT ![last] = @ \cup {"stop"}]
    \/ unit = "waiting" /\ unit' = "inactive" /\ UNCHANGED told
    \/ unit \in {"inactive", "stopping"} /\ UNCHANGED <<unit, told>>
UnitDown == unit = "inactive"

-----------------------------------------------------------------------------
(* Requests: the lifecycle operations of Runner *)

Goto(a, line) == pc' = [pc EXCEPT ![a] = line]
Lifecycle == {"start", "stop", "restart", "force"}
LockFree(a) == busy[ProcOf[a]] = Nobody
TakeLock(a) == busy' = [busy EXCEPT ![ProcOf[a]] = a]
OnlyMoves == UNCHANGED <<busy, opLock, job, supVars, hostVars>>

\* A request that finds the lock of its process taken is refused at once.
Request(a, j) ==
    /\ pc[a] = "idle"
    /\ job' = [job EXCEPT ![a] = j]
    /\ IF j \in Lifecycle
       THEN LockFree(a) /\ TakeLock(a) /\ Goto(a, IF j = "force" THEN "dial" ELSE "check")
       ELSE UNCHANGED busy /\ Goto(a, "begin")
    /\ UNCHANGED <<opLock, supVars, hostVars>>

\* Every exit of a request releases what it holds (the deferred releases).
Finish(a) ==
    /\ Goto(a, "idle") /\ job' = [job EXCEPT ![a] = "none"]
    /\ busy' = [busy EXCEPT ![ProcOf[a]] = IF @ = a THEN Nobody ELSE @]
    /\ opLock' = IF opLock = a THEN Nobody ELSE opLock
    /\ UNCHANGED <<supVars, hostVars>>

\* The Online test of startLocked, stopLocked and Restart.
Check(a) ==
    /\ pc[a] = "check"
    /\ \/ job[a] = "start" /\ Online /\ Finish(a)
       \/ job[a] = "stop" /\ ~Online /\ Finish(a)
       \/ job[a] # "start" /\ Online /\ Goto(a, "dial") /\ OnlyMoves
       \/ job[a] # "stop" /\ ~Online /\ Goto(a, "clear") /\ OnlyMoves

\* No active server, or one that cannot be started (validateStartable).
NotStartable(a) == pc[a] = "clear" /\ Finish(a)

\* "Clear verified stale state before starting": test, then remove.
Clear(a) ==
    /\ pc[a] = "clear"
    /\ Goto(a, IF \E f \in file : Stale(f) THEN "wipe" ELSE "launch")
    /\ OnlyMoves

Wipe(a) ==
    /\ pc[a] = "wipe" /\ Goto(a, "launch")
    /\ file' = {} /\ sock' = 0
    /\ UNCHANGED <<busy, opLock, job, supVars, unit, mcs, servers>>

\* (mutant) the detached supervisor is the fallback when the unit is active too
LaunchBeside(a) ==
    /\ pc[a] = "launch" /\ Goto(a, "await")
    /\ IF Systemd /\ unit # "active" THEN StartUnit
       ELSE Spawn /\ UNCHANGED <<unit, mine, intent, told>>
    /\ UNCHANGED <<busy, opLock, job, file, sock, mcs, servers>>

Launch(a) ==
    /\ pc[a] = "launch" /\ Goto(a, "await")
    /\ IF Systemd THEN StartUnit
       ELSE Spawn /\ UNCHANGED <<unit, mine, intent, told>>
    /\ UNCHANGED <<busy, opLock, job, file, sock, mcs, servers>>

\* `systemctl start` or the spawn reports an error.
LaunchFails(a) == pc[a] = "launch" /\ Finish(a)

\* Any state but "stopped" counts as started; otherwise 20 s pass, or the
\* caller hangs up (ctx).
Await(a) == pc[a] = "await" /\ Finish(a)

\* Control verbs go to whoever listens on the socket.  ForceStop hangs up at
\* once, so its verb may be lost.
Tell(verb) == told' = [told EXCEPT ![sock] = @ \cup {verb}]

Dial(a) ==
    /\ pc[a] = "dial"
    /\ \/ /\ job[a] # "force" /\ Listening
          /\ Tell("stop") /\ Goto(a, "down") /\ UNCHANGED unit
       \/ /\ job[a] # "force" /\ ~Listening /\ Systemd
          /\ StopUnit /\ Goto(a, "halt")
       \/ /\ job[a] = "force" /\ Listening
          /\ Tell("force") /\ Goto(a, "pgid") /\ UNCHANGED unit
       \/ /\ job[a] = "force"
          /\ Goto(a, "pgid") /\ UNCHANGED <<told, unit>>
    /\ UNCHANGED <<busy, opLock, job, last, phase, mine, intent, file, sock, mcs, servers>>

\* No supervisor is there, or the verb or `systemctl stop` reports an error.
DialFails(a) == pc[a] = "dial" /\ job[a] # "force" /\ Finish(a)

\* `systemctl stop` in place of the verb returns; the polling follows.
Halted(a) == pc[a] = "halt" /\ UnitDown /\ Goto(a, "down") /\ OnlyMoves

\* ForceStop also kills the recorded process group.
KillPgid(a) ==
    /\ pc[a] = "pgid"
    /\ mcs' = mcs \ {f.pid : f \in file}
    /\ IF Systemd THEN StopUnit ELSE UNCHANGED <<unit, told>>
    /\ Goto(a, "unit")
    /\ UNCHANGED <<busy, opLock, job, last, phase, mine, intent, file, sock, servers>>

\* (mutant) Stop leaves the unit alone
SeesDownOnly(a) ==
    /\ pc[a] = "down" /\ State \in {"stopped", "crashed"}
    /\ Goto(a, "stopped") /\ OnlyMoves

\* Stop polls for a terminal state and then stops the unit too.
SeesDown(a) ==
    /\ pc[a] = "down" /\ State \in {"stopped", "crashed"}
    /\ IF Systemd THEN StopUnit ELSE UNCHANGED <<unit, told>>
    /\ Goto(a, "unit")
    /\ UNCHANGED <<busy, opLock, job, last, phase, mine, intent, file, sock, mcs, servers>>

\* (mutant) no deadline: only a terminal state ends the polling
StopNeverTimesOut(a) == pc[a] = "down" /\ State \in {"stopped", "crashed"} /\ Finish(a)

\* GracefulStopSeconds + 30 s have passed, or the caller has hung up.
StopTimesOut(a) == pc[a] = "down" /\ Finish(a)

\* `systemctl stop` returns.
UnitStopped(a) ==
    /\ pc[a] = "unit" /\ (Systemd => UnitDown)
    /\ Goto(a, "stopped") /\ OnlyMoves

\* The success Stop and ForceStop report; Restart goes on to startLocked.
Stopped(a) ==
    /\ pc[a] = "stopped"
    /\ \/ job[a] # "restart" /\ Finish(a)
       \/ /\ job[a] = "restart" /\ Goto(a, "check") /\ job' = [job EXCEPT ![a] = "start"]
          /\ UNCHANGED <<busy, opLock, supVars, hostVars>>

-----------------------------------------------------------------------------
(* Requests that replace the active server's files *)

\* The first Online test of restore (Web and CLI) and of a world reset.
Begin(a) ==
    /\ pc[a] = "begin"
    /\ \/ Online /\ Finish(a)
       \/ ~Online /\ Goto(a, "op") /\ OnlyMoves

\* The operation lock, or a refusal.
TakeOpLock(a) ==
    /\ pc[a] = "op"
    /\ \/ opLock # Nobody /\ Finish(a)
       \/ /\ opLock = Nobody /\ opLock' = a
          /\ Goto(a, IF job[a] = "reset" THEN "lock" ELSE "safety")
          /\ UNCHANGED <<busy, job, supVars, hostVars>>

\* A reset takes the lifecycle lock too and tests again.
ResetLock(a) ==
    /\ pc[a] = "lock"
    /\ \/ ~LockFree(a) /\ Finish(a)
       \/ /\ LockFree(a) /\ TakeLock(a) /\ Goto(a, "recheck")
          /\ UNCHANGED <<opLock, job, supVars, hostVars>>

Recheck(a) ==
    /\ pc[a] = "recheck"
    /\ \/ Online /\ Finish(a)
       \/ ~Online /\ Goto(a, "safety") /\ OnlyMoves

\* The safety copy is made, or the request gives up.  The CLI's backup has
\* released the operation lock again when it returns.
Safety(a) ==
    /\ pc[a] = "safety"
    /\ \/ Finish(a)
       \/ /\ Goto(a, "replace")
          /\ opLock' = IF job[a] = "cli-restore" THEN Nobody ELSE opLock
          /\ UNCHANGED <<busy, job, supVars, hostVars>>

\* The files are replaced between this state and the next step.
Replaced(a) == pc[a] = "replace" /\ Finish(a)

AgentStep(a) ==
    \/ Check(a) \/ NotStartable(a) \/ Clear(a) \/ Wipe(a) \/ Launch(a) \/ LaunchFails(a) \/ Await(a)
    \/ Dial(a) \/ DialFails(a) \/ Halted(a)
    \/ KillPgid(a) \/ SeesDown(a) \/ StopTimesOut(a) \/ UnitStopped(a) \/ Stopped(a)
    \/ Begin(a) \/ TakeOpLock(a) \/ Safety(a) \/ ResetLock(a) \/ Recheck(a) \/ Replaced(a)

-----------------------------------------------------------------------------
Next ==
    \/ \E a \in Agents : AgentStep(a) \/ \E j \in Jobs : Request(a, j)
    \/ \E s \in Sups : SupStep(s)
    \/ \E p \in mcs : McExit(p)
    \/ UnitRestart \/ UnitKill

Spec == Init /\ [][Next]_vars

\* Handlers, supervisors and systemd make progress; nobody has to ask for
\* anything and Minecraft never has to end by itself.
RequestFairness ==
    /\ \A a \in Agents : WF_vars(AgentStep(a))
    /\ \A s \in Sups : WF_vars(SupStep(s))
    /\ WF_vars(UnitKill)

-----------------------------------------------------------------------------
(* Properties *)

\* One Minecraft process at a time, across supervisors: the control plane
\* "prevents duplicate starts" (systemd.go:108) and "Bonghos will not let you
\* start twice" (Tutorial.txt:773).
OneMinecraft == Cardinality(mcs) <= 1

\* A Stop or ForceStop that reports success is right: when it returns, nothing
\* runs, is being started or will be restarted, although a crash may have
\* raced the stop and the verb may have reached a supervisor in its backoff.
StoppedMeansDown ==
    \A a \in Agents : pc[a] = "stopped" => mcs = {} /\ \A s \in Sups : ~Alive(s)

\* No request keeps the lifecycle lock of its process for ever, whatever the
\* supervisor it waits for does.
LockIsReleased == \A p \in Procs : busy[p] # Nobody ~> busy[p] = Nobody

\* Documented, and not so: "Bonghos never restores over a running server"
\* (Tutorial.txt:1179).
RestoreNotOverRunning ==
    \A a \in Agents : pc[a] = "replace" => mcs = {}

=============================================================================
