------------------------------- MODULE Console ------------------------------
(***************************************************************************)
(* From Minecraft's terminal to the table of players: the supervisor reads *)
(* the console, hides the replies to its own list commands, keeps a        *)
(* history and feeds two channels; its console server writes both to the   *)
(* control plane's connection in the order its select happens to take      *)
(* them; the control plane parses the lines and, while a page shows the    *)
(* players, asks for the list every twelve seconds.                        *)
(*                                                                         *)
(* The server runs all along (stops are in Lifecycle).  Minecraft answers  *)
(* a command before the five seconds of suppression or of an operator's    *)
(* visibility lease have passed, and a channel is written out before the   *)
(* next poll.                                                              *)
(***************************************************************************)
EXTENDS Naturals, Sequences, FiniteSets

CONSTANTS
    Players,
    HistoryLines,   \* lines in the supervisor's history (2000)
    ChannelCapacity,       \* of a subscriber's channel (256, 32)
    MaxChanges,     \* bound: joins and leaves
    MaxRestarts,    \* bound: control planes after the first
    MaxLists,       \* bound: lists operators ask for
    MaxCommands     \* bound: list commands under way at once

ASSUME ConsoleAssumption ==
    /\ HistoryLines \in Nat \ {0} /\ ChannelCapacity \in Nat \ {0}
    /\ MaxChanges \in Nat /\ MaxRestarts \in Nat /\ MaxLists \in Nat
    /\ MaxCommands \in Nat \ {0}

VARIABLES
    truth,          \* players in the game
    changes,        \* how often it changed
    asked,          \* lists operators asked for
    commands,       \* list commands Minecraft has not answered, by who sent them
    tty,            \* lines the supervisor has not read
    pending,        \* suppression: what is still to be hidden, {"echo", "list"}
    lease,          \* visibleCommand: an operator asked for the list just now
    history,        \* Supervisor.history
    on,             \* the control plane's connection
    restarts,
    lines,          \* its subscription, a channel
    internalLines,  \* and the one for bookkeeping
    replay,         \* history frames not handled yet
    online,         \* players.is_online
    hidden,         \* history: whose replies were hidden
    lossy           \* history: a line was dropped, overtaken or has scrolled out

game == <<truth, changes>>
typed == <<asked, commands>>
supervisor == <<pending, lease, history>>
connection == <<on, restarts, lines, internalLines, replay>>
consoleVars == <<game, typed, tty, supervisor, connection, online, hidden, lossy>>

Line(k, p) == [k |-> k, what |-> p]
Echo(by) == Line("echo", by)
Reply(by) == [k |-> "list", what |-> by, players |-> truth]

ConsoleInit ==
    /\ truth = {} /\ changes = 0 /\ asked = 0 /\ commands = <<>> /\ tty = <<>>
    /\ pending = {} /\ lease = FALSE /\ history = <<>>
    /\ on = FALSE /\ restarts = 0 /\ lines = <<>> /\ internalLines = <<>> /\ replay = <<>>
    /\ online = {} /\ hidden = {} /\ lossy = FALSE

-----------------------------------------------------------------------------
(* Minecraft.                                                              *)
Plays(p) ==
    /\ changes < MaxChanges /\ changes' = changes + 1
    /\ truth' = IF p \in truth THEN truth \ {p} ELSE truth \cup {p}
    /\ tty' = Append(tty, Line(IF p \in truth THEN "left" ELSE "joined", p))
    /\ UNCHANGED <<typed, supervisor, connection, online, hidden, lossy>>

\* Whether the terminal echoes the command depends on the launcher.
Answers(echoes) ==
    /\ commands # <<>> /\ commands' = Tail(commands)
    /\ tty' = tty \o (IF echoes THEN <<Echo(Head(commands))>> ELSE <<>>) \o <<Reply(Head(commands))>>
    /\ UNCHANGED <<game, asked, supervisor, connection, online, hidden, lossy>>

-----------------------------------------------------------------------------
(* Supervisor.sendCommand, suppressed, readConsole.                        *)
Underway(by) == by \in {commands[i] : i \in 1..Len(commands)} \cup {tty[i].what : i \in 1..Len(tty)}

\* playerPollLoop, SendInternalCommand.
Poll ==
    /\ on /\ ~Underway("internal") /\ internalLines = <<>> /\ Len(commands) < MaxCommands
    /\ IF lease THEN UNCHANGED <<commands, pending>>
       ELSE commands' = Append(commands, "internal") /\ pending' = {"echo", "list"}
    /\ UNCHANGED <<game, asked, tty, lease, history, connection, online, hidden, lossy>>

\* (mutant) an operator's command leaves a pending suppression alone
OperatorListKeepsHiding ==
    /\ asked < MaxLists /\ asked' = asked + 1
    /\ Len(commands) < MaxCommands /\ commands' = Append(commands, "operator")
    /\ lease' = TRUE
    /\ UNCHANGED <<game, tty, pending, history, connection, online, hidden, lossy>>
OperatorList ==
    /\ asked < MaxLists /\ asked' = asked + 1
    /\ Len(commands) < MaxCommands /\ commands' = Append(commands, "operator")
    /\ pending' = {} /\ lease' = TRUE
    /\ UNCHANGED <<game, tty, history, connection, online, hidden, lossy>>

SuppressionEnds ==
    /\ pending # {} /\ ~Underway("internal") /\ pending' = {}
    /\ UNCHANGED <<game, typed, tty, lease, history, connection, online, hidden, lossy>>
LeaseEnds ==
    /\ lease /\ ~Underway("operator") /\ lease' = FALSE
    /\ UNCHANGED <<game, typed, tty, pending, history, connection, online, hidden, lossy>>

Suppressed(line) == line.k \in pending
Publish(ch, line) == IF on /\ Len(ch) < ChannelCapacity THEN Append(ch, line) ELSE ch
Full(ch) == on /\ Len(ch) >= ChannelCapacity
Newest(s) == IF Len(s) > HistoryLines THEN Tail(s) ELSE s

readConsole ==
    /\ tty # <<>> /\ tty' = Tail(tty)
    /\ LET line == Head(tty)
       IN  IF Suppressed(line)
           THEN /\ pending' = pending \ {line.k} /\ hidden' = hidden \cup {line.what}
                /\ internalLines' = Publish(internalLines, line)
                /\ lossy' = (lossy \/ Full(internalLines)) /\ UNCHANGED <<history, lines>>
           ELSE /\ history' = Newest(Append(history, line)) /\ lines' = Publish(lines, line)
                /\ lossy' = (lossy \/ Full(lines) \/ Len(history) = HistoryLines)
                /\ UNCHANGED <<pending, hidden, internalLines>>
    /\ UNCHANGED <<game, typed, lease, on, restarts, replay, online>>

-----------------------------------------------------------------------------
(* console.Server.handle: one connection.                                  *)
Subscribe(h) ==
    /\ ~on /\ on' = TRUE /\ lines' = <<>> /\ internalLines' = <<>> /\ replay' = h
    /\ UNCHANGED <<game, typed, tty, supervisor, restarts, online, hidden, lossy>>
\* (mutant) the history is copied before the channel is registered
AttachLate == \E n \in {Len(history), Len(history) - 1} \cap Nat : Subscribe(SubSeq(history, 1, n))
attachConsole == Subscribe(history)

-----------------------------------------------------------------------------
(* The control plane: handleParsedConsoleLine and the players table.       *)
\* (mutant) who is in the list alone is not put online
ReconcileRemoves(players) == online \cap players
reconcileOnline(players) == players

Parsed(line) ==
    CASE line.k = "joined" -> online \cup {line.what}
      [] line.k = "left" -> online \ {line.what}
      [] line.k = "list" -> reconcileOnline(line.players)
      [] OTHER -> online

Replays ==
    /\ replay # <<>> /\ replay' = Tail(replay) /\ online' = Parsed(Head(replay))
    /\ UNCHANGED <<game, typed, tty, supervisor, on, restarts, lines, internalLines, hidden, lossy>>
\* The frames of a connection are written and handled in one order.
handleConsoleLine ==
    /\ replay = <<>> /\ lines # <<>> /\ lines' = Tail(lines) /\ online' = Parsed(Head(lines))
    /\ lossy' = (lossy \/ internalLines # <<>>)
    /\ UNCHANGED <<game, typed, tty, supervisor, on, restarts, internalLines, replay, hidden>>
handleInternalConsoleLine ==
    /\ replay = <<>> /\ internalLines # <<>> /\ internalLines' = Tail(internalLines)
    /\ online' = Parsed(Head(internalLines)) /\ lossy' = (lossy \/ lines # <<>>)
    /\ UNCHANGED <<game, typed, tty, supervisor, on, restarts, lines, replay, hidden>>

Restart ==
    /\ on /\ restarts < MaxRestarts /\ restarts' = restarts + 1 /\ on' = FALSE
    /\ lines' = <<>> /\ internalLines' = <<>> /\ replay' = <<>>
    /\ UNCHANGED <<game, typed, tty, supervisor, online, hidden, lossy>>

ConsoleNext ==
    \/ \E p \in Players : Plays(p)
    \/ \E echoes \in BOOLEAN : Answers(echoes)
    \/ Poll \/ OperatorList \/ SuppressionEnds \/ LeaseEnds \/ readConsole
    \/ attachConsole \/ Replays \/ handleConsoleLine \/ handleInternalConsoleLine \/ Restart
\* Every goroutine runs on, leases and suppressions end, a page keeps
\* showing the players, and Minecraft answers.
ConsoleFairness ==
    /\ WF_consoleVars(\E echoes \in BOOLEAN : Answers(echoes))
    /\ WF_consoleVars(Poll) /\ WF_consoleVars(SuppressionEnds) /\ WF_consoleVars(LeaseEnds)
    /\ WF_consoleVars(readConsole) /\ WF_consoleVars(attachConsole)
    /\ WF_consoleVars(Replays) /\ WF_consoleVars(handleConsoleLine)
    /\ WF_consoleVars(handleInternalConsoleLine)
ConsoleSpec == ConsoleInit /\ [][ConsoleNext]_consoleVars /\ ConsoleFairness

-----------------------------------------------------------------------------
(* The reply to a list an operator asked for is shown, however it falls    *)
(* together with the polls.                                                *)
OperatorListIsShown == "operator" \notin hidden

(* Once every line is handled the table says who plays, whenever the       *)
(* control plane attached or was restarted, if no line was lost on the way *)
(* and no reply overtook a line or was overtaken by one.                   *)
CaughtUp ==
    on /\ tty = <<>> /\ lines = <<>> /\ internalLines = <<>> /\ replay = <<>> /\ ~lossy
        => online = truth

(* Lost and overtaken lines are made good by the polls: when the players   *)
(* stay as they are, the table ends up with them.                          *)
PresenceConverges == <>[](online = truth)
=============================================================================
