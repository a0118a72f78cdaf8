-------------------------------- MODULE Bots --------------------------------
(***************************************************************************)
(* A notification bot: its row, its destinations and the containers it has *)
(* been seen in (bot.Store), edited at once by the settings page, by the   *)
(* poller of Telegram's updates (RunTelegramCommands) and by the events of *)
(* Discord's gateway (runDiscordGateway; how the connection itself is kept *)
(* is in DiscordGateway).  A container is a Telegram group or a Discord    *)
(* server; on Telegram it is the destination too.                          *)
(*                                                                         *)
(* Telegram keeps the updates of a token until getUpdates is called with   *)
(* a higher offset.  A "text" is a message that changes no destination:    *)
(* chatter, help, where, or a command of someone who is no administrator.  *)
(***************************************************************************)
EXTENDS Naturals, Sequences, FiniteSets

CONSTANTS
    Groups,         \* Telegram groups
    Channels,       \* Discord channels
    Guilds,         \* Discord servers
    GuildOf,        \* the server of a channel
    Tokens,         \* tokens a bot may be given, each a Telegram feed
    Limit,          \* destinations of a bot (3)
    MaxBots,        \* bound: rows created one after another
    Kinds,          \* what updates say: "joined", "left", "text", "here", "disconnect"
    MaxUpdates,     \* bound: updates, of all tokens together
    None

ASSUME BotsAssumption ==
    /\ GuildOf \in [Channels -> Guilds] /\ None \notin Guilds
    /\ Limit \in Nat \ {0} /\ MaxBots \in Nat /\ MaxUpdates \in Nat

VARIABLES
    provider,       \* "telegram" or "discord"
    row,            \* notification_bots: [id, tok, first], first = destination_id
    created,        \* rows created so far
    dests,          \* notification_bot_destinations by position: [id, guild]
    disc,           \* notification_bot_discoveries: the containers
    cursor,         \* notification_bot_telegram_state, or None
    feed,           \* the updates Telegram has for a token: [chat, what]
    confirmed,      \* the last one it was told to forget
    poll,           \* the poller: a TelegramCommandState and the batch it got
    page,           \* the page's request under way: a patch, or a discovery
    left,           \* Discord servers the bot is no longer in
    done,           \* history: updates of a token that were dealt with
    crossed,        \* history: tokens that were given another one's cursor
    gone,           \* history: containers forgotten and not chosen since
    revived         \* history: destinations a request wrote back it had read

store == <<row, created, dests, disc, cursor>>
telegram == <<feed, confirmed>>
history == <<done, crossed, gone, revived>>
botVars == <<provider, store, telegram, poll, page, left, history>>

NoBot == [id |-> 0, tok |-> None, first |-> None]
Resting == [pc |-> "idle"]
Ids(ds) == {ds[i].id : i \in 1..Len(ds)}
First(ds) == IF ds = <<>> THEN None ELSE ds[1].id
Destination(c) == [id |-> c, guild |-> IF provider = "discord" THEN GuildOf[c] ELSE None]
Container(d) == IF provider = "discord" THEN d.guild ELSE d.id
Chats == IF provider = "discord" THEN Channels ELSE Groups
Larger(a, b) == IF a > b THEN a ELSE b
AtLeast0(c) == IF c = None THEN 0 ELSE c

\* normalizeDestinations: at most Limit, no two of one ID; the legacy
\* destination_id stands in for an empty list.
Lists == UNION {{s \in [1..n -> Chats] : Cardinality({s[i] : i \in 1..n}) = n} : n \in 0..Limit}
normalizeDestinations(ds, legacy) ==
    IF ds = <<>> /\ legacy # None THEN <<[id |-> legacy, guild |-> None]>> ELSE ds

BotsInit ==
    /\ provider \in {"telegram", "discord"}
    /\ row = NoBot /\ created = 0 /\ dests = <<>> /\ disc = {} /\ cursor = None
    /\ feed = [t \in Tokens |-> <<>>] /\ confirmed = [t \in Tokens |-> 0]
    /\ poll = Resting /\ page = Resting /\ left = {}
    /\ done = [t \in Tokens |-> {}] /\ crossed = {} /\ gone = {} /\ revived = {}

-----------------------------------------------------------------------------
(* Transactions of the store.  Those given an id do nothing when the row   *)
(* is not there any more (ErrNotFound).                                    *)
WriteDestinations(ds) == dests' = ds /\ row' = [row EXCEPT !.first = First(ds)]
Quiet == UNCHANGED <<row, dests, disc, gone, revived>>

MergeDiscovered(id, cs) ==
    /\ disc' = IF row.id = id THEN disc \cup cs ELSE disc
    /\ UNCHANGED <<row, dests, revived>>

\* The destinations at some positions, in their order.
At(ds, places) ==
    LET at[n \in 0..Len(ds)] ==
            IF n = 0 THEN <<>> ELSE IF n \in places THEN Append(at[n-1], ds[n]) ELSE at[n-1]
    IN  at[Len(ds)]
\* (mutant) the destinations of a server are looked for by its own ID
WithoutTheID(ds, c) == At(ds, {i \in 1..Len(ds) : ds[i].id # c})
Without(ds, c) == At(ds, {i \in 1..Len(ds) : Container(ds[i]) # c})
WithoutID(ds, c) == At(ds, {i \in 1..Len(ds) : ds[i].id # c})
ForgetDiscovered(id, c) ==
    IF row.id # id THEN Quiet
    ELSE /\ WriteDestinations(Without(dests, c)) /\ disc' = disc \ {c}
         /\ gone' = gone \cup {c} /\ UNCHANGED revived

Placed(ds, d) ==
    IF d.id \in Ids(ds) THEN [i \in 1..Len(ds) |-> IF ds[i].id = d.id THEN d ELSE ds[i]]
    ELSE Append(ds, d)
setProviderDestination(id, c) ==
    IF row.id # id \/ Cardinality(Ids(dests) \ {c}) >= Limit THEN Quiet
    ELSE /\ WriteDestinations(Placed(dests, Destination(c)))
         /\ disc' = disc \cup {Container(Destination(c))}
         /\ gone' = gone \ {Container(Destination(c))} /\ UNCHANGED revived

disconnectProviderDestination(id, c) ==
    IF row.id # id THEN Quiet
    ELSE WriteDestinations(WithoutID(dests, c)) /\ UNCHANGED <<disc, gone, revived>>

-----------------------------------------------------------------------------
(* The settings page.                                                      *)
Chosen(list) == [i \in 1..Len(list) |-> Destination(list[i])]

Create(list, t) ==
    /\ row.id = 0 /\ created < MaxBots /\ created' = created + 1
    /\ row' = [id |-> created', tok |-> t, first |-> First(Chosen(list))]
    /\ dests' = Chosen(list) /\ disc' = Ids(dests')
    /\ cursor' = IF provider = "telegram" THEN 0 ELSE None
    /\ gone' = {} /\ revived' = {}
    /\ UNCHANGED <<provider, telegram, poll, page, left, done, crossed>>

\* A patch leaves the destinations as they are or brings a list, and may
\* bring a token; what it brings is not looked at before it writes.
PatchReadsRow ==
    /\ page = Resting /\ row.id # 0
    /\ page' = [pc |-> "row", id |-> row.id, first |-> row.first]
    /\ UNCHANGED <<provider, store, telegram, poll, left, history>>

PatchReadsDestinations ==
    /\ page.pc = "row"
    /\ page' = [pc |-> "commit", id |-> page.id, ds |-> normalizeDestinations(dests, page.first)]
    /\ UNCHANGED <<provider, store, telegram, poll, left, history>>

Patch(ds, kept, tok) ==
    /\ page.pc = "commit" /\ page' = Resting
    /\ IF row.id # page.id THEN Quiet /\ UNCHANGED cursor
       ELSE /\ dests' = ds /\ disc' = (IF tok = None THEN disc ELSE {}) \cup Ids(ds)
            /\ row' = [row EXCEPT !.first = First(ds), !.tok = IF tok = None THEN @ ELSE tok]
            /\ cursor' = IF tok = None THEN cursor ELSE None
            /\ gone' = IF tok # None THEN {} ELSE IF kept THEN gone
                       ELSE gone \ {Container(ds[i]) : i \in 1..Len(ds)}
            /\ revived' = IF kept THEN revived \cup (Ids(ds) \ Ids(dests)) ELSE revived
    /\ UNCHANGED <<provider, created, telegram, poll, left, done, crossed>>

Delete ==
    /\ row.id # 0 /\ row' = NoBot /\ dests' = <<>> /\ disc' = {} /\ cursor' = None
    /\ gone' = {} /\ revived' = {}
    /\ UNCHANGED <<provider, created, telegram, poll, page, left, done, crossed>>

\* What the pending updates tell: a group is found unless the last one
\* about it says that the bot left.
Pending(t) == confirmed[t]+1 .. Len(feed[t])
DiscoverTelegramGroups(t) ==
    {c \in Chats : \E i \in Pending(t) :
        /\ feed[t][i].chat = c /\ feed[t][i].what # "left"
        /\ \A j \in Pending(t) : j > i => feed[t][j].chat # c}

DiscoverExisting ==
    /\ provider = "telegram" /\ page = Resting /\ row.id # 0
    /\ page' = [pc |-> "found", id |-> row.id, groups |-> DiscoverTelegramGroups(row.tok)]
    /\ UNCHANGED <<provider, store, telegram, poll, left, history>>

telegramDiscovery ==
    /\ page.pc = "found" /\ page' = Resting
    /\ MergeDiscovered(page.id, page.groups)
    /\ UNCHANGED <<provider, created, cursor, telegram, poll, left, done, crossed, gone>>

-----------------------------------------------------------------------------
(* Telegram's updates.                                                     *)
Away(t, c) == \E i \in 1..Len(feed[t]) :
    /\ feed[t][i] = [chat |-> c, what |-> "left"]
    /\ \A j \in i+1..Len(feed[t]) : feed[t][j].chat # c

Received == UNION {{t} \X (1..Len(feed[t])) : t \in Tokens}
Happens(t, c, what) ==
    /\ provider = "telegram" /\ Cardinality(Received) < MaxUpdates
    /\ Away(t, c) => what = "joined"
    /\ feed' = [feed EXCEPT ![t] = Append(@, [chat |-> c, what |-> what])]
    /\ UNCHANGED <<provider, store, confirmed, poll, page, left, history>>

TelegramCommandBots ==
    /\ provider = "telegram" /\ poll = Resting /\ row.id # 0
    /\ poll' = [pc |-> "fetch", id |-> row.id, tok |-> row.tok,
                last |-> AtLeast0(cursor), init |-> cursor # None]
    /\ UNCHANGED <<provider, store, telegram, page, left, history>>

NoBatch == IF poll.init THEN Resting ELSE [poll EXCEPT !.pc = "initialize"]
telegramCommandUpdates ==
    /\ poll.pc = "fetch"
    /\ LET upto == Larger(confirmed[poll.tok], poll.last)
           end == Len(feed[poll.tok])
       IN  /\ confirmed' = [confirmed EXCEPT ![poll.tok] = upto]
           /\ poll' = IF upto >= end THEN NoBatch
                      ELSE [pc |-> "observe", id |-> poll.id, tok |-> poll.tok, last |-> poll.last,
                            init |-> poll.init, at |-> upto + 1, end |-> end]
    /\ UNCHANGED <<provider, store, feed, page, left, history>>

PollFails ==
    /\ poll.pc = "fetch" /\ poll' = Resting
    /\ UNCHANGED <<provider, store, telegram, page, left, history>>

Update == feed[poll.tok][poll.at]
Past == done' = [done EXCEPT ![poll.tok] = @ \cup {poll.at}]
NextInit == IF poll.at = poll.end THEN [poll EXCEPT !.pc = "initialize", !.last = poll.end]
            ELSE [poll EXCEPT !.at = @ + 1]

\* observeTelegramMembership, and what any message of a group does before
\* its text is looked at.  Without a cursor the messages are passed over.
Observe ==
    /\ poll.pc = "observe"
    /\ CASE Update.what = "left" -> ForgetDiscovered(poll.id, Update.chat)
         [] Update.what # "left" /\ (poll.init \/ Update.what = "joined") ->
                /\ MergeDiscovered(poll.id, {Update.chat})
                /\ gone' = IF row.id = poll.id THEN gone \ {Update.chat} ELSE gone
         [] OTHER -> Quiet
    /\ IF ~poll.init THEN Past /\ poll' = NextInit
       ELSE IF Update.what \in {"here", "disconnect"}
            THEN poll' = [poll EXCEPT !.pc = "command"] /\ UNCHANGED done
            ELSE poll' = [poll EXCEPT !.pc = "advance"] /\ Past
    /\ UNCHANGED <<provider, created, cursor, telegram, page, left, crossed>>

\* handleTelegramCommand once getChatMember has answered; a call that fails
\* makes the sender no administrator.
Command(answered) ==
    /\ poll.pc = "command" /\ poll' = [poll EXCEPT !.pc = "advance"] /\ Past
    /\ IF ~answered THEN Quiet
       ELSE IF Update.what = "here" THEN setProviderDestination(poll.id, Update.chat)
       ELSE disconnectProviderDestination(poll.id, Update.chat)
    /\ UNCHANGED <<provider, created, cursor, telegram, page, left, crossed>>

\* The cursor refers to the row: without it the statement fails.
WriteCursor(c) ==
    /\ cursor' = IF row.id = poll.id THEN c ELSE cursor
    /\ crossed' = IF row.id = poll.id /\ row.tok # poll.tok THEN crossed \cup {row.tok} ELSE crossed

\* (mutant) the cursor moves past the whole batch at once
AdvancePastBatch ==
    /\ poll.pc = "advance"
    /\ WriteCursor(poll.end)
    /\ poll' = IF row.id # poll.id \/ poll.at = poll.end THEN Resting
               ELSE [poll EXCEPT !.pc = "observe", !.at = @ + 1]
    /\ UNCHANGED <<provider, row, created, dests, disc, telegram, page, left, done, gone, revived>>

AdvanceTelegramUpdate ==
    /\ poll.pc = "advance"
    /\ WriteCursor(Larger(AtLeast0(cursor), poll.at))
    /\ poll' = IF row.id # poll.id \/ poll.at = poll.end THEN Resting
               ELSE [poll EXCEPT !.pc = "observe", !.at = @ + 1]
    /\ UNCHANGED <<provider, row, created, dests, disc, telegram, page, left, done, gone, revived>>

InitializeTelegramUpdates ==
    /\ poll.pc = "initialize" /\ poll' = Resting
    /\ WriteCursor(poll.last)
    /\ UNCHANGED <<provider, row, created, dests, disc, telegram, page, left, done, gone, revived>>

-----------------------------------------------------------------------------
(* Discord's events.                                                       *)
Discord == provider = "discord" /\ UNCHANGED
    <<provider, created, cursor, telegram, poll, page, done, crossed>>

GuildCreate(g) ==
    /\ Discord /\ left' = left \ {g} /\ gone' = (IF row.id # 0 THEN gone \ {g} ELSE gone)
    /\ MergeDiscovered(row.id, IF row.id # 0 THEN {g} ELSE {})
GuildDelete(g) ==
    /\ Discord /\ row.id # 0 /\ g \notin left /\ left' = left \cup {g}
    /\ ForgetDiscovered(row.id, g)
\* The bot leaves a server while no connection is there to say so.
LeaveUnseen(g) == Discord /\ g \notin left /\ left' = left \cup {g} /\ Quiet
handleDiscordInteraction(c, command) ==
    /\ Discord /\ row.id # 0 /\ GuildOf[c] \notin left /\ UNCHANGED left
    /\ IF command = "here" THEN setProviderDestination(row.id, c)
       ELSE disconnectProviderDestination(row.id, c)

-----------------------------------------------------------------------------
Die ==
    /\ poll' = Resting /\ page' = Resting
    /\ UNCHANGED <<provider, store, telegram, left, history>>

PageNext ==
    \/ \E list \in Lists, t \in Tokens : Create(list, t)
    \/ PatchReadsRow \/ PatchReadsDestinations
    \/ \E t \in Tokens \cup {None} :
            \/ page.pc = "commit" /\ Patch(page.ds, TRUE, t)
            \/ \E list \in Lists : Patch(Chosen(list), FALSE, t)
    \/ Delete
    \/ DiscoverExisting \/ telegramDiscovery
TelegramNext ==
    \/ \E t \in Tokens, c \in Chats, what \in Kinds : Happens(t, c, what)
    \/ TelegramCommandBots \/ telegramCommandUpdates \/ PollFails
    \/ Observe \/ (\E b \in BOOLEAN : Command(b))
    \/ AdvanceTelegramUpdate \/ InitializeTelegramUpdates
DiscordNext ==
    \/ \E g \in Guilds : GuildCreate(g) \/ GuildDelete(g) \/ LeaveUnseen(g)
    \/ \E c \in Chats, command \in {"here", "disconnect"} : handleDiscordInteraction(c, command)
BotsNext == PageNext \/ TelegramNext \/ DiscordNext \/ Die
BotsSpec == BotsInit /\ [][BotsNext]_botVars

-----------------------------------------------------------------------------
(* An update Telegram is told to forget has been dealt with, however often *)
(* the process dies, the token changes or the bot is made anew; excepted   *)
(* is a token that was set under a poll of another one, which writes its   *)
(* own cursor over the new token's (AdvanceTelegramUpdate).                *)
NoUpdateIsLost ==
    \A t \in Tokens \ crossed : 1..confirmed[t] \subseteq done[t]

(* Once a container is forgotten nothing is sent to it until somebody      *)
(* chooses it again; excepted are destinations that a request had read     *)
(* before and writes back as they were (Patch).                            *)
LeftStaysOut ==
    \A i \in 1..Len(dests) :
        Container(dests[i]) \in gone => dests[i].id \in revived
=============================================================================
