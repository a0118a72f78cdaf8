--------------------------- MODULE DiscordGateway ---------------------------
(***************************************************************************)
(* The workers that keep a Discord bot on the gateway (RunDiscordCommands).*)
(* Every three seconds reconcile compares the worker of the bot with its   *)
(* row and replaces it; a worker resolves its application, dials, and      *)
(* loops over heartbeats and packets; a reader goroutine hands it the      *)
(* packets.  What an event does to the store is in Bots.                   *)
(***************************************************************************)
EXTENDS Naturals, FiniteSets

CONSTANTS
    Settings,       \* values of (token, dns_server)
    Workers,        \* bound: goroutines alive at once
    None

ASSUME GatewayAssumption == None \notin Workers \cup Settings

VARIABLES
    bot,            \* the row's settings, None without a row
    managed,        \* the entry of the workers map, or None
    given,          \* the settings a worker was started with
    cancelled,      \* the workers whose context is cancelled
    at,             \* of runDiscordWorker: "off", "setup", "dial", "open", "backoff"
    hello,          \* the workers that were told the heartbeat interval
    acked,          \* heartbeatAcknowledged
    reader,         \* "off", "reading", or a packet in its hands
    stuck,          \* workers with a reader of an earlier connection still there
    mute            \* the workers whose peer has stopped answering

gatewayVars == <<bot, managed, given, cancelled, at, hello, acked, reader, stuck, mute>>
loopVars == <<hello, acked, reader, stuck, mute>>
boss == <<bot, managed, given, cancelled>>
\* An "event" is any other packet: the beat the peer asks for at once leaves all
\* of this state as it is.
Packets == {"hello", "ack", "event", "reconnect"}

GatewayTypeOK ==
    /\ bot \in Settings \cup {None} /\ managed \in Workers \cup {None}
    /\ given \in [Workers -> Settings \cup {None}] /\ cancelled \in SUBSET Workers
    /\ at \in [Workers -> {"off", "setup", "dial", "open", "backoff"}]
    /\ hello \in SUBSET Workers /\ acked \in [Workers -> BOOLEAN]
    /\ reader \in [Workers -> Packets \cup {"off", "reading"}]
    /\ stuck \in SUBSET Workers /\ mute \in SUBSET Workers

GatewayInit ==
    /\ bot = None /\ managed = None /\ given = [w \in Workers |-> None] /\ cancelled = {}
    /\ at = [w \in Workers |-> "off"] /\ hello = {} /\ acked = [w \in Workers |-> TRUE]
    /\ reader = [w \in Workers |-> "off"] /\ stuck = {} /\ mute = {}

Goes(w, pc) == at' = [at EXCEPT ![w] = pc]
Free == {w \in Workers : at[w] = "off" /\ w \notin stuck}

\* Create, Patch, Delete of bot.Store.
Edit(s) == bot' = s /\ UNCHANGED <<managed, given, cancelled, at, loopVars>>

-----------------------------------------------------------------------------
Stale == IF managed = None THEN TRUE ELSE given[managed] # bot
Started(w) == managed' = w /\ given' = [given EXCEPT ![w] = bot] /\ Goes(w, "setup")
\* (mutant) the worker of the old settings is replaced and not cancelled
ReconcileKeepsOld ==
    /\ IF bot = None
       THEN managed # None /\ managed' = None /\ cancelled' = cancelled \cup {managed}
            /\ UNCHANGED <<given, at>>
       ELSE /\ Stale
            /\ \E w \in Free : Started(w) /\ cancelled' = cancelled \ {w}
    /\ UNCHANGED <<bot, loopVars>>
\* reconcile, when it has something to do; listing the bots may fail, and
\* then it does nothing.
reconcile ==
    /\ IF bot = None
       THEN managed # None /\ managed' = None /\ cancelled' = cancelled \cup {managed}
            /\ UNCHANGED <<given, at>>
       ELSE /\ Stale
            /\ \E w \in Free : Started(w) /\ cancelled' = (cancelled \cup {managed}) \ {w, None}
    /\ UNCHANGED <<bot, loopVars>>

-----------------------------------------------------------------------------
(* runDiscordWorker.  A cancelled context fails every call.                *)
Setup(w) ==
    /\ at[w] = "setup" /\ (Goes(w, "backoff") \/ (w \notin cancelled /\ Goes(w, "dial")))
    /\ UNCHANGED <<boss, loopVars>>

Dial(w) ==
    /\ at[w] = "dial"
    /\ \/ Goes(w, "backoff") /\ UNCHANGED loopVars
       \/ /\ w \notin cancelled /\ Goes(w, "open") /\ UNCHANGED stuck
          /\ hello' = hello \ {w} /\ acked' = [acked EXCEPT ![w] = TRUE]
          /\ reader' = [reader EXCEPT ![w] = "reading"] /\ mute' = mute \ {w}
    /\ UNCHANGED boss

Backoff(w) ==
    /\ at[w] = "backoff" /\ Goes(w, IF w \in cancelled THEN "off" ELSE "setup")
    /\ UNCHANGED <<boss, loopVars>>

\* runDiscordGateway returns and closes the connection: a reader that waits
\* for bytes ends, one with a packet in its hands waits for the context.
Return(w) ==
    /\ Goes(w, "backoff") /\ UNCHANGED <<hello, acked, mute>>
    /\ reader' = [reader EXCEPT ![w] = "off"]
    /\ stuck' = IF reader[w] \in Packets THEN stuck \cup {w} ELSE stuck

-----------------------------------------------------------------------------
(* The reader, and the peer.                                               *)
Reads(w, p) ==
    /\ reader[w] = "reading" /\ at[w] = "open" /\ w \notin mute
    /\ p = "hello" <=> w \notin hello
    /\ p = "ack" => ~acked[w]
    /\ reader' = [reader EXCEPT ![w] = p] /\ UNCHANGED <<boss, at, hello, acked, stuck, mute>>
GoesMute(w) ==
    /\ at[w] = "open" /\ w \notin mute /\ mute' = mute \cup {w}
    /\ UNCHANGED <<boss, at, hello, acked, reader, stuck>>
Disconnected(w) == at[w] = "open" /\ reader[w] = "reading" /\ Return(w) /\ UNCHANGED boss
ReaderEnds(w) ==
    /\ w \in cancelled /\ w \in stuck /\ stuck' = stuck \ {w}
    /\ UNCHANGED <<boss, at, hello, acked, reader, mute>>

-----------------------------------------------------------------------------
(* The loop's select.                                                      *)
Stopped(w) == at[w] = "open" /\ w \in cancelled /\ Return(w) /\ UNCHANGED boss

\* (mutant) a beat is sent whether the last one was answered or not
HeartbeatAlways(w) ==
    /\ at[w] = "open" /\ w \in hello
    /\ acked' = [acked EXCEPT ![w] = FALSE] /\ UNCHANGED <<boss, at, hello, reader, stuck, mute>>
Heartbeat(w) ==
    /\ at[w] = "open" /\ w \in hello
    /\ IF acked[w]
       THEN acked' = [acked EXCEPT ![w] = FALSE] /\ UNCHANGED <<at, hello, reader, stuck, mute>>
       ELSE Return(w)
    /\ UNCHANGED boss

Takes(w) ==
    /\ at[w] = "open" /\ reader[w] \in Packets /\ UNCHANGED <<boss, stuck>>
    /\ IF reader[w] = "reconnect"
       THEN Goes(w, "backoff") /\ reader' = [reader EXCEPT ![w] = "off"]
            /\ UNCHANGED <<hello, acked, mute>>
       ELSE /\ reader' = [reader EXCEPT ![w] = "reading"] /\ UNCHANGED <<at, mute>>
            /\ hello' = IF reader[w] = "hello" THEN hello \cup {w} ELSE hello
            /\ acked' = IF reader[w] = "ack" THEN [acked EXCEPT ![w] = TRUE] ELSE acked

GatewayNext ==
    \/ \E s \in Settings \cup {None} : Edit(s)
    \/ reconcile
    \/ \E w \in Workers :
        \/ Setup(w) \/ Dial(w) \/ Backoff(w) \/ Stopped(w) \/ Heartbeat(w) \/ Takes(w)
        \/ ReaderEnds(w) \/ Disconnected(w) \/ GoesMute(w)
        \/ \E p \in Packets : Reads(w, p)
\* The heartbeat's timer fires and its case of the select is taken; nothing is
\* asked of the peer, the network or the page.
GatewayFairness == \A w \in Workers : WF_gatewayVars(Heartbeat(w))
GatewaySpec == GatewayInit /\ [][GatewayNext]_gatewayVars /\ GatewayFairness

-----------------------------------------------------------------------------
(* Whatever is edited under it, one worker at most is meant to listen.     *)
OneListener ==
    \A w \in Workers : at[w] # "off" /\ w \notin cancelled => w = managed

(* A connection whose peer has fallen silent is given up (the heartbeat),  *)
(* once the interval is known; before that nothing watches it.             *)
SilenceIsNoticed ==
    \A w \in Workers : (at[w] = "open" /\ w \in hello /\ w \in mute) ~> at[w] # "open"
=============================================================================
