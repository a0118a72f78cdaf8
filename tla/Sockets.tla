------------------------------ MODULE Sockets -------------------------------
(***************************************************************************)
(* The WebSocket hub (websocket.Hub, handleWS).  Every connection has two  *)
(* goroutines, Serve with its readLoop and writeLoop; requests broadcast   *)
(* to the registered clients, and take back sessions, roles and            *)
(* permissions under open connections.  The hub's lock is a sync.RWMutex:  *)
(* a goroutine that waits for the write lock lets no new reader in.        *)
(***************************************************************************)
EXTENDS Naturals, FiniteSets

CONSTANTS
    Clients,        \* connections, one after another or at once
    Broadcasters,   \* goroutines that broadcast
    Capacity,       \* the send queue (256)
    MaxRevision     \* bound: how often the role's permissions change

ASSUME SocketsAssumption == Capacity \in Nat \ {0} /\ MaxRevision \in Nat

VARIABLES
    revision,       \* role_permission_profiles.revision of the clients' role
    session,        \* clients whose session is valid, with the role it had
    stage,          \* of Serve: "none", "upgrading", "joining", "reading",
                    \* "leaving", "left", "done"
    seen,           \* the revision handleWS read
    writer,         \* of writeLoop: "none", "running", "ended"
    conn,           \* the clients whose connection is open
    registered,     \* Hub.clients
    topics,         \* the clients that subscribed to the topic
    queue,          \* messages in c.send
    closed,         \* the clients whose c.send is closed
    todo,           \* what a broadcaster has left to send to; it holds RLock
    disconnecting,  \* clients whose user DisconnectUser is about to be called for
    closing         \* the connections it found and has yet to close

hubVars == <<registered, topics, queue, closed, todo>>
authVars == <<revision, session, disconnecting, closing>>
socketVars == <<revision, session, stage, seen, writer, conn, hubVars, disconnecting, closing>>

Stages == {"none", "upgrading", "joining", "reading", "leaving", "left", "done"}

SocketsInit ==
    /\ revision = 0 /\ session = Clients
    /\ stage = [c \in Clients |-> "none"] /\ seen = [c \in Clients |-> 0]
    /\ writer = [c \in Clients |-> "none"] /\ conn = {}
    /\ registered = {} /\ topics = {} /\ queue = [c \in Clients |-> 0] /\ closed = {}
    /\ todo = [b \in Broadcasters |-> {}] /\ disconnecting = {} /\ closing = {}

SocketsTypeOK ==
    /\ revision \in 0..MaxRevision /\ session \in SUBSET Clients
    /\ stage \in [Clients -> Stages] /\ seen \in [Clients -> 0..MaxRevision]
    /\ writer \in [Clients -> {"none", "running", "ended"}] /\ conn \in SUBSET Clients
    /\ registered \in SUBSET Clients /\ topics \in SUBSET Clients
    /\ queue \in [Clients -> 0..Capacity] /\ closed \in SUBSET Clients
    /\ todo \in [Broadcasters -> SUBSET Clients]
    /\ disconnecting \in SUBSET Clients /\ closing \in SUBSET Clients

-----------------------------------------------------------------------------
StillAuthorized(c) == c \in session /\ revision = seen[c]

Readers == {b \in Broadcasters : todo[b] # {}}
LockWanted == \E c \in Clients : stage[c] \in {"joining", "leaving"}

To(c, s) == stage' = [stage EXCEPT ![c] = s]
End(c) == writer' = [writer EXCEPT ![c] = "ended"] /\ conn' = conn \ {c}

\* handleWS: the session and the revision, read before the upgrade.
handleWS(c) ==
    /\ stage[c] = "none" /\ c \in session /\ To(c, "upgrading")
    /\ seen' = [seen EXCEPT ![c] = revision]
    /\ UNCHANGED <<writer, conn, hubVars, authVars>>

Upgrade(c) ==
    /\ stage[c] = "upgrading"
    /\ \/ To(c, "joining") /\ conn' = conn \cup {c}
       \/ To(c, "done") /\ UNCHANGED conn
    /\ UNCHANGED <<seen, writer, hubVars, authVars>>

Register(c) ==
    /\ stage[c] = "joining" /\ Readers = {} /\ To(c, "reading")
    /\ registered' = registered \cup {c}
    /\ writer' = [writer EXCEPT ![c] = "running"]
    /\ UNCHANGED <<seen, conn, topics, queue, closed, todo, authVars>>

\* A message of the page; canUse asks for the permissions of now.
Subscribes(c) ==
    /\ stage[c] = "reading" /\ c \in conn
    /\ \/ topics' = topics \cup {c} \/ topics' = topics \ {c}
    /\ UNCHANGED <<stage, seen, writer, conn, registered, queue, closed, todo, authVars>>

\* The page goes away, or its pong is missing for a minute.
PeerLeaves(c) ==
    /\ stage[c] = "reading" /\ c \in conn /\ conn' = conn \ {c} /\ To(c, "leaving")
    /\ UNCHANGED <<seen, writer, hubVars, authVars>>

\* readLoop returns once the connection is closed.
ReadFails(c) ==
    /\ stage[c] = "reading" /\ c \notin conn /\ To(c, "leaving")
    /\ UNCHANGED <<seen, writer, conn, hubVars, authVars>>

\* (mutant) the client is taken out under the read lock
UnregisterBeside(c) ==
    /\ stage[c] = "leaving" /\ To(c, "left")
    /\ registered' = registered \ {c}
    /\ UNCHANGED <<seen, writer, conn, topics, queue, closed, todo, authVars>>
Unregister(c) ==
    /\ stage[c] = "leaving" /\ Readers = {} /\ To(c, "left")
    /\ registered' = registered \ {c}
    /\ UNCHANGED <<seen, writer, conn, topics, queue, closed, todo, authVars>>

CloseSend(c) ==
    /\ stage[c] = "left" /\ To(c, "done") /\ closed' = closed \cup {c}
    /\ UNCHANGED <<seen, writer, conn, registered, topics, queue, todo, authVars>>

Serve(c) == Upgrade(c) \/ Register(c) \/ ReadFails(c) \/ Unregister(c) \/ CloseSend(c)

-----------------------------------------------------------------------------
(* writeLoop.  A select takes any case that is ready.                      *)

Writes(c) ==
    /\ writer[c] = "running" /\ queue[c] > 0
    /\ queue' = [queue EXCEPT ![c] = @ - 1]
    /\ \/ c \in conn /\ UNCHANGED <<writer, conn>>
       \/ End(c)
    /\ UNCHANGED <<stage, seen, registered, topics, closed, todo, authVars>>

WritesClose(c) ==
    /\ writer[c] = "running" /\ queue[c] = 0 /\ c \in closed /\ End(c)
    /\ UNCHANGED <<stage, seen, hubVars, authVars>>

Pings(c) ==
    /\ writer[c] = "running" /\ c \notin conn /\ End(c)
    /\ UNCHANGED <<stage, seen, hubVars, authVars>>

\* (mutant) the ticker asks for the session alone
AuthTickSessionOnly(c) ==
    /\ writer[c] = "running" /\ c \notin session /\ End(c)
    /\ UNCHANGED <<stage, seen, hubVars, authVars>>
AuthTick(c) ==
    /\ writer[c] = "running" /\ ~StillAuthorized(c) /\ End(c)
    /\ UNCHANGED <<stage, seen, hubVars, authVars>>

-----------------------------------------------------------------------------
(* Broadcast and broadcastDueAt.                                           *)

Broadcast(b) ==
    /\ todo[b] = {} /\ ~LockWanted /\ registered # {}
    /\ todo' = [todo EXCEPT ![b] = registered]
    /\ UNCHANGED <<stage, seen, writer, conn, registered, topics, queue, closed, authVars>>

\* A client with a full queue misses the message.
Sends(b, c) ==
    /\ c \in todo[b] /\ todo' = [todo EXCEPT ![b] = @ \ {c}]
    /\ queue' = IF c \in topics /\ queue[c] < Capacity THEN [queue EXCEPT ![c] = @ + 1] ELSE queue
    /\ UNCHANGED <<stage, seen, writer, conn, registered, topics, closed, authVars>>

-----------------------------------------------------------------------------
(* What takes a connection's rights away.                                  *)

\* handleUserRole, handleUserDisable, handleUserRevoke, handleUserDelete and
\* handleLogout change the database, then call DisconnectUser; so does a change of
\* the role's permissions, for everybody who has the role.
RevokeSession(c) ==
    /\ c \in session /\ session' = session \ {c}
    /\ disconnecting' = disconnecting \cup {c}
    /\ UNCHANGED <<revision, stage, seen, writer, conn, hubVars, closing>>

\* The commands of `bonghos user` cannot reach the hub.
RevokeSessionCLI(c) ==
    /\ c \in session /\ session' = session \ {c}
    /\ UNCHANGED <<revision, disconnecting, stage, seen, writer, conn, hubVars, closing>>

PermissionsChange ==
    /\ revision < MaxRevision /\ revision' = revision + 1
    /\ disconnecting' = Clients
    /\ UNCHANGED <<session, stage, seen, writer, conn, hubVars, closing>>

DisconnectUser(c) ==
    /\ c \in disconnecting /\ ~LockWanted /\ disconnecting' = disconnecting \ {c}
    /\ closing' = closing \cup ({c} \cap registered)
    /\ UNCHANGED <<revision, session, stage, seen, writer, conn, hubVars>>

ClosesConn(c) ==
    /\ c \in closing /\ closing' = closing \ {c} /\ conn' = conn \ {c}
    /\ UNCHANGED <<revision, session, disconnecting, stage, seen, writer, hubVars>>

SocketsNext ==
    \/ \E c \in Clients :
         \/ handleWS(c) \/ Serve(c) \/ Subscribes(c) \/ PeerLeaves(c)
         \/ Writes(c) \/ WritesClose(c) \/ Pings(c) \/ AuthTick(c)
         \/ RevokeSession(c) \/ RevokeSessionCLI(c) \/ DisconnectUser(c) \/ ClosesConn(c)
    \/ \E b \in Broadcasters : Broadcast(b) \/ \E c \in Clients : Sends(b, c)
    \/ PermissionsChange

\* Goroutines run on and tickers fire.  DisconnectUser is left without fairness:
\* the panel's own close may never come.
SocketsFairness ==
    /\ \A c \in Clients : /\ WF_socketVars(Serve(c)) /\ WF_socketVars(AuthTick(c))
                          /\ WF_socketVars(Writes(c)) /\ WF_socketVars(WritesClose(c))
    /\ \A b \in Broadcasters : WF_socketVars(\E c \in Clients : Sends(b, c))
SocketsSpec == SocketsInit /\ [][SocketsNext]_socketVars /\ SocketsFairness

-----------------------------------------------------------------------------
(* Properties.                                                             *)

\* A broadcast under way never meets a send queue that Serve has closed (it would
\* panic), though clients leave during it.
NoSendOnClosed == \A b \in Broadcasters : todo[b] \cap closed = {}

\* A connection whose session, role or permissions were taken back ends, and leaves
\* neither a registration nor a goroutine behind; also when the change fell between
\* the check and the registration, or was made by a command that cannot reach the hub.
RevokedSocketEnds ==
    \A c \in Clients :
        c \in registered /\ ~StillAuthorized(c) ~>
            c \notin registered \cup conn /\ stage[c] = "done" /\ writer[c] = "ended"
=============================================================================
