------------------------------ MODULE Lifecycle ------------------------------
(***************************************************************************)
(* What the control plane makes of the server's life: the players it marks *)
(* offline and the notices its bots send.  Nobody tells it: the operations *)
(* of the runner, the console clients, the requests and the metrics loop   *)
(* each read the supervisor's state file (Runner.State) and apply what     *)
(* they read some time later, to one memory.                               *)
(*                                                                         *)
(* The supervisor is here only what such a reader sees of it (Supervisor   *)
(* models it): a verb that finds no server running is not acted on, a      *)
(* start finds no other supervisor but one that is about to restart, and   *)
(* the unit that systemd stops is a supervisor that leaves.                *)
(***************************************************************************)
EXTENDS Naturals, Sequences, FiniteSets

CONSTANTS
    Projects,
    Clients,        \* bound: attach loops and the connections they make
    MaxCalls,       \* bound: readings of requests and clients not applied yet
    MaxStarts,      \* bound: Start operations
    MaxTurns        \* bound: changes of the active project and restarts by the
                    \* supervisor, together

ASSUME LifecycleAssumption ==
    /\ Projects # {} /\ Clients \cap {"op", "select", "metrics"} = {}
    /\ MaxCalls \in Nat /\ MaxStarts \in Nat /\ MaxTurns \in Nat

VARIABLES
    file,           \* State in supervisor-state.json, "none" without one
    sup,            \* "none", "spawned", "begin", "up" (with a server), "reaped", "delay"
    counts,         \* [starts, turns], for the bounds
    active,         \* the active project
    someone,        \* projects with a player whose is_online is set
    last,           \* lastServerState and its instance, "" at first
    saw, readySent, stoppedSent,    \* botSawOnline, botReadySent, botStoppedSent
    console,        \* Runner.console
    client,         \* the attach loops: "off", "dialing", "on"
    frames,         \* what their connections still bring
    op,             \* the operation under the lifecycle lock
    call,           \* broadcastStatus and observeServerState under way
    told, watched,  \* history of the run: a stop notice, was it seen online
    missed          \* history: what can no longer be put right, "players" by a line
                    \* handled after the end or by a force stop that sees the end
                    \* first, "bots" by an end no console client sees, both by a
                    \* reading applied when it was no longer true

process == <<file, sup>>
bots == <<saw, readySent, stoppedSent, told, watched>>
attached == <<console, client, frames>>
lifecycleVars == <<process, counts, active, someone, last, bots, attached, op, call, missed>>

Threads == Clients \cup {"op", "select", "metrics"}
Quits == [at |-> "idle", seen |-> ""]
Up == {"starting", "running"}
Ended == {"stopped", "crashed"}

LifecycleInit ==
    /\ file = "none" /\ sup = "none"
    /\ counts = [starts |-> 0, turns |-> 0]
    /\ active = (CHOOSE p \in Projects : TRUE) /\ someone = {} /\ last = [state |-> "", project |-> active]
    /\ saw = FALSE /\ readySent = FALSE /\ stoppedSent = FALSE /\ told = FALSE /\ watched = FALSE
    /\ \E k \in Clients : client = [j \in Clients |-> IF j = k THEN "dialing" ELSE "off"]
    /\ console = "none" /\ frames = [k \in Clients |-> <<>>]
    /\ op = "idle" /\ call = [t \in Threads |-> Quits] /\ missed = {}

\* Runner.State: a terminal snapshot as it is, a live one only with a process.
State == CASE file \in Ended -> file
           [] sup = "up" -> file
           [] sup # "up" /\ file \in Up \cup {"stopping"} -> "crashed"
           [] OTHER -> "stopped"
Online == State \in Up \cup {"stopping", "restarting"}
Listening == sup \notin {"none", "spawned"}
Sent(frame) == frames' = [k \in Clients |-> IF client[k] = "on" THEN Append(frames[k], frame) ELSE frames[k]]
Unseen == missed' = IF \A k \in Clients : client[k] # "on" THEN missed \cup {"bots"} ELSE missed
Calls(t) ==
    /\ t = "metrics" \/ Cardinality({u \in Threads \ {"metrics", t} : call[u] # Quits}) < MaxCalls
    /\ call' = [call EXCEPT ![t] = [at |-> "observe", seen |-> State]]

-----------------------------------------------------------------------------
(* The supervisor and the server.                                          *)
theirs == <<active, someone, last, bots, op, call, missed>>
Launches ==
    /\ \/ /\ sup = "spawned" /\ file' = "starting" /\ sup' = "begin"
       \/ /\ sup = "begin" /\ sup' = "up" /\ UNCHANGED file
       \/ /\ sup = "begin" /\ file' = "crashed" /\ sup' = "delay"
    /\ UNCHANGED <<counts, attached, theirs>>
Done ==
    /\ sup = "up" /\ file = "starting" /\ file' = "running" /\ Sent("done")
    /\ UNCHANGED <<sup, counts, console, client, theirs>>
\* A player joins once a tick of the metrics loop has seen the server run.
Joins ==
    /\ sup = "up" /\ file = "running" /\ last = [state |-> "running", project |-> active]
    /\ \A k \in Clients : frames[k] = <<>>
    /\ Sent("joined")
    /\ UNCHANGED <<process, counts, console, client, theirs>>
Exits ==
    /\ sup = "up" /\ sup' = "reaped"
    /\ UNCHANGED <<file, counts, attached, theirs>>
\* A verb was for a stop or for a restart; a killed server may look crashed.
PersistsTheEnd ==
    /\ sup = "reaped" /\ sup' = "delay"
    /\ file' \in IF file = "stopping" THEN {"stopped", "restarting"} ELSE Ended
    /\ UNCHANGED <<counts, attached, theirs>>
Again ==
    /\ sup = "delay" /\ file # "stopped" /\ counts.turns < MaxTurns
    /\ counts' = [counts EXCEPT !.turns = @ + 1]
    /\ file' = "starting" /\ sup' = "begin"
    /\ UNCHANGED <<attached, theirs>>
\* It gives up, or is killed with everything it started.
Leaves ==
    /\ sup # "none" /\ sup' = "none" /\ Sent("end") /\ Unseen
    /\ UNCHANGED <<file, counts, console, client, active, someone, last, bots, op, call>>
Verb == file' = (IF sup = "up" THEN "stopping" ELSE file) /\ UNCHANGED sup
RestartVerb == sup = "up" /\ Verb /\ UNCHANGED <<counts, attached, theirs>>

-----------------------------------------------------------------------------
(* The memory of the control plane.                                        *)
rememberServerState(s) == last' = [state |-> s, project |-> active]
Moved(s) == last # [state |-> s, project |-> active]
markAllPlayersOffline == someone' = someone \ {active}
\* (mutant) a crash marks nobody offline
ObservesStops(s) ==
    /\ rememberServerState(s)
    /\ IF Moved(s) /\ s = "stopped" THEN markAllPlayersOffline ELSE UNCHANGED someone
observeServerState(s) ==
    /\ rememberServerState(s)
    /\ IF Moved(s) /\ s \in Ended \cup {"restarting"} THEN markAllPlayersOffline ELSE UNCHANGED someone

\* Sent by a goroutine for each target; told to nobody without a bot.
notifyBotEvent == told' = TRUE
observeBotLifecycle(s) ==
    IF s \in Up
    THEN /\ saw' = TRUE /\ watched' = TRUE /\ UNCHANGED told
         /\ readySent' = (readySent /\ saw) /\ stoppedSent' = (stoppedSent /\ saw)
    ELSE /\ saw' = FALSE /\ UNCHANGED <<readySent, watched>>
         /\ stoppedSent' = (stoppedSent \/ saw)
         /\ IF saw /\ ~stoppedSent THEN notifyBotEvent ELSE UNCHANGED told

markBotReady ==
    IF readySent THEN UNCHANGED bots
    ELSE saw' = TRUE /\ readySent' = TRUE /\ stoppedSent' = FALSE /\ watched' = TRUE /\ UNCHANGED told

ours == <<process, counts, active, attached, op>>
\* A request reads as it begins and Start some time after its changes; what
\* was read is applied later, to the two halves of the memory at once.
ReadsState(t) ==
    /\ call[t].at = "read" \/ (t = "metrics" /\ call[t].at = "idle")
    /\ Calls(t)
    /\ UNCHANGED <<ours, someone, last, bots, missed>>
Applies(t) ==
    /\ call[t].at = "observe" /\ call' = [call EXCEPT ![t] = Quits]
    /\ observeServerState(call[t].seen)
    /\ missed' = IF (call[t].seen \in Ended) # (State \in Ended) THEN {"players", "bots"} ELSE missed
    /\ IF t = "metrics" THEN UNCHANGED bots ELSE observeBotLifecycle(call[t].seen)
    /\ UNCHANGED ours

-----------------------------------------------------------------------------
(* Runner: the operations, one at a time, and the console's "stop".        *)
Operates(from, to) == op = from /\ call["op"] = Quits /\ op' = to
mind == <<active, someone, last, missed>>

\* attachConsole: several loops may be looking for a supervisor.
FreeLoops == {k \in Clients : client[k] = "off"}
Loops == \E k \in FreeLoops : client' = [client EXCEPT ![k] = "dialing"]

Start ==
    /\ Operates("idle", "started") /\ ~Online /\ counts.starts < MaxStarts
    /\ counts' = [counts EXCEPT !.starts = @ + 1]
    /\ file' = "none" /\ sup' = (IF sup = "none" THEN "spawned" ELSE sup)
    /\ call' = [call EXCEPT !["op"].at = "read"] /\ told' = FALSE /\ watched' = FALSE
    /\ UNCHANGED <<saw, readySent, stoppedSent, attached, mind>>
AwaitsStart ==
    /\ Operates("started", "idle")
    /\ IF State # "stopped" /\ console = "none" /\ FreeLoops # {} THEN Loops ELSE UNCHANGED client
    /\ UNCHANGED <<process, counts, bots, console, frames, call, mind>>

Stop ==
    /\ Operates("idle", "asked") /\ Online /\ Listening /\ Verb
    /\ UNCHANGED <<counts, bots, attached, call, mind>>
StopIsNoted ==
    /\ Operates("asked", "stopping") /\ observeBotLifecycle("stopping")
    /\ UNCHANGED <<process, counts, attached, call, mind>>
AwaitsStop ==
    /\ Operates("stopping", "idle")
    /\ IF State \in Ended
       THEN Calls("op")
       ELSE UNCHANGED call
    /\ UNCHANGED <<process, counts, bots, attached, mind>>

ForceStop ==
    /\ Operates("idle", "killing")
    /\ IF Online THEN observeBotLifecycle("stopping") ELSE UNCHANGED bots
    /\ UNCHANGED <<process, counts, attached, call, mind>>
Kills ==
    /\ Operates("killing", "idle")
    /\ rememberServerState(State) /\ Calls("op")
    /\ missed' = IF State \in Ended /\ last # last' THEN missed \cup {"players"} ELSE missed
    /\ UNCHANGED <<process, counts, bots, attached, active, someone>>

\* The server of a typed "stop" goes on until it has obeyed (Exits).
noteStopCommand ==
    /\ sup = "up" /\ observeBotLifecycle("stopping")
    /\ UNCHANGED <<process, counts, attached, op, call, mind>>

handleServerSelect ==
    /\ call["select"] = Quits /\ ~Online /\ counts.turns < MaxTurns
    /\ counts' = [counts EXCEPT !.turns = @ + 1]
    /\ active' \in Projects \ {active} /\ Calls("select")
    /\ UNCHANGED <<process, someone, last, bots, attached, op, missed>>

-----------------------------------------------------------------------------
(* attachConsole.                                                          *)
Dials(k) ==
    /\ client[k] = "dialing" /\ Listening /\ client' = [client EXCEPT ![k] = "on"]
    /\ console' = k /\ frames' = [frames EXCEPT ![k] = <<"status">>]
    /\ UNCHANGED <<process, counts, active, someone, last, bots, op, call, missed>>
GivesUp(k) ==
    /\ client[k] = "dialing" /\ client' = [client EXCEPT ![k] = "off"]
    /\ UNCHANGED <<process, counts, active, someone, last, bots, console, frames, op, call, missed>>

\* (mutant) the end of a connection is not looked at
EndsQuietly(k, frame) == IF frame = "status" THEN Calls(k) ELSE UNCHANGED call
Broadcasts(k, frame) == IF frame \in {"status", "end"} THEN Calls(k) ELSE UNCHANGED call
Handles(k) ==
    /\ client[k] = "on" /\ call[k] = Quits /\ frames[k] # <<>>
    /\ frames' = [frames EXCEPT ![k] = Tail(@)] /\ Broadcasts(k, Head(frames[k]))
    /\ someone' = IF Head(frames[k]) = "joined" THEN someone \cup {active} ELSE someone
    /\ missed' = IF Head(frames[k]) = "joined" /\ last.state \in Ended THEN missed \cup {"players"} ELSE missed
    /\ IF Head(frames[k]) = "done" THEN markBotReady ELSE UNCHANGED bots
    /\ IF Head(frames[k]) = "end"
       THEN console' = "none" /\ client' = [client EXCEPT ![k] = "off"]
       ELSE UNCHANGED <<console, client>>
    /\ UNCHANGED <<process, counts, active, last, op>>

LifecycleNext ==
    \/ Launches \/ Done \/ Joins \/ Exits \/ PersistsTheEnd \/ Again \/ Leaves \/ RestartVerb
    \/ Start \/ AwaitsStart \/ Stop \/ StopIsNoted \/ AwaitsStop \/ ForceStop \/ Kills
    \/ noteStopCommand \/ handleServerSelect
    \/ \E k \in Clients : Dials(k) \/ GivesUp(k) \/ Handles(k)
    \/ \E t \in Threads : ReadsState(t) \/ Applies(t)
\* The goroutines of the control plane run, its ticker ticks, and no wait
\* of the runner is without a deadline; nothing is asked of the server.
LifecycleFairness ==
    /\ \A t \in Threads : WF_lifecycleVars(ReadsState(t)) /\ WF_lifecycleVars(Applies(t))
    /\ \A k \in Clients : WF_lifecycleVars(Handles(k)) /\ WF_lifecycleVars(GivesUp(k))
    /\ WF_lifecycleVars(AwaitsStart) /\ WF_lifecycleVars(StopIsNoted)
    /\ WF_lifecycleVars(AwaitsStop) /\ WF_lifecycleVars(Kills)
LifecycleSpec == LifecycleInit /\ [][LifecycleNext]_lifecycleVars /\ LifecycleFairness

-----------------------------------------------------------------------------
(* When the supervisor is gone for good, the control plane ends up knowing *)
(* it: the state shown, no player of the active project online, and bots   *)
(* that do not wait for a stop; excepted is what nothing puts right: a     *)
(* line or a reading that comes too late, an end no client sees, and a     *)
(* force stop that remembers the end without marking anybody offline.      *)
EndIsNoticed ==
    <>[](sup = "none") =>
        <>[](/\ last = [state |-> State, project |-> active]
             /\ active \in someone => "players" \in missed
             /\ saw => "bots" \in missed)

(* A run that any of them saw online and that is over, with nobody left to *)
(* look at it, was told to the bots.                                       *)
StopIsTold ==
    /\ sup = "none" /\ op = "idle" /\ watched
    /\ \A k \in Clients : client[k] # "on"
    /\ \A t \in Threads : call[t].at # "read" /\ (t # "metrics" => call[t] = Quits)
    => told \/ "bots" \in missed
=============================================================================
