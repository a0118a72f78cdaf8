--------------------------- MODULE SocketsProofs ----------------------------
(***************************************************************************)
(* Theorems about Sockets, for any number of connections and broadcasts,   *)
(* queues of any length and any number of changes of permissions.          *)
(***************************************************************************)
EXTENDS Sockets, TLAPS

\* The steps of one connection and of those who take its rights away.
ClientStep(c) ==
    \/ handleWS(c) \/ Upgrade(c) \/ Register(c) \/ ReadFails(c) \/ Unregister(c) \/ CloseSend(c)
    \/ Subscribes(c) \/ PeerLeaves(c) \/ Writes(c) \/ WritesClose(c) \/ Pings(c) \/ AuthTick(c)
    \/ RevokeSession(c) \/ RevokeSessionCLI(c) \/ DisconnectUser(c) \/ ClosesConn(c)

LEMMA NextSplits ==
    SocketsNext <=>
        \/ \E c \in Clients : ClientStep(c)
        \/ \E b \in Broadcasters : Broadcast(b) \/ \E c \in Clients : Sends(b, c)
        \/ PermissionsChange
BY DEF SocketsNext, ClientStep, Serve

\* The variables keep their types; no queue is ever longer than its capacity.
THEOREM TypeCorrect == SocketsSpec => []SocketsTypeOK
<1> USE SocketsAssumption
<1>1. SocketsInit => SocketsTypeOK
  BY DEF SocketsInit, SocketsTypeOK, Stages
<1>2. SocketsTypeOK /\ [SocketsNext]_socketVars => SocketsTypeOK'
  <2> SUFFICES ASSUME SocketsTypeOK, [SocketsNext]_socketVars
               PROVE  SocketsTypeOK'
    OBVIOUS
  <2> USE DEF SocketsTypeOK, Stages, To, End, hubVars, authVars
  <2>1. ASSUME NEW c \in Clients, ClientStep(c)
        PROVE  SocketsTypeOK'
    <3>1. CASE handleWS(c) BY <3>1 DEF handleWS
    <3>2. CASE Upgrade(c) BY <3>2 DEF Upgrade
    <3>3. CASE Register(c) BY <3>3 DEF Register
    <3>4. CASE ReadFails(c) BY <3>4 DEF ReadFails
    <3>5. CASE Unregister(c) BY <3>5 DEF Unregister
    <3>6. CASE CloseSend(c) BY <3>6 DEF CloseSend
    <3>7. CASE Subscribes(c) BY <3>7 DEF Subscribes
    <3>8. CASE PeerLeaves(c) BY <3>8 DEF PeerLeaves
    <3>9. CASE Writes(c) BY <3>9 DEF Writes
    <3>10. CASE WritesClose(c) BY <3>10 DEF WritesClose
    <3>11. CASE Pings(c) BY <3>11 DEF Pings
    <3>12. CASE AuthTick(c) BY <3>12 DEF AuthTick
    <3>13. CASE RevokeSession(c) BY <3>13 DEF RevokeSession
    <3>14. CASE RevokeSessionCLI(c) BY <3>14 DEF RevokeSessionCLI
    <3>15. CASE DisconnectUser(c) BY <3>15 DEF DisconnectUser
    <3>16. CASE ClosesConn(c) BY <3>16 DEF ClosesConn
    <3> QED BY <2>1, <3>1, <3>2, <3>3, <3>4, <3>5, <3>6, <3>7, <3>8, <3>9, <3>10, <3>11,
               <3>12, <3>13, <3>14, <3>15, <3>16 DEF ClientStep
  <2>2. ASSUME NEW b \in Broadcasters, Broadcast(b)
        PROVE  SocketsTypeOK'
    BY <2>2 DEF Broadcast
  <2>3. ASSUME NEW b \in Broadcasters, NEW c \in Clients, Sends(b, c)
        PROVE  SocketsTypeOK'
    BY <2>3 DEF Sends
  <2>4. CASE PermissionsChange
    BY <2>4 DEF PermissionsChange
  <2>5. CASE UNCHANGED socketVars
    BY <2>5 DEF socketVars
  <2> QED BY <2>1, <2>2, <2>3, <2>4, <2>5, NextSplits
<1> QED BY <1>1, <1>2, PTL DEF SocketsSpec

-----------------------------------------------------------------------------
\* What keeps a send away from a closed queue: a broadcast, which holds the read
\* lock, has only registered clients left; one that is registered is reading or
\* about to leave; a queue is closed by the last step of its connection.
RegisteredServe == \A c \in registered : stage[c] \in {"reading", "leaving"}
ClosedIsDone == \A c \in closed : stage[c] = "done"
TodoRegistered == \A b \in Broadcasters : todo[b] \subseteq registered
HubInv == RegisteredServe /\ ClosedIsDone /\ TodoRegistered

LEMMA InvImplies == HubInv => NoSendOnClosed
BY DEF HubInv, RegisteredServe, ClosedIsDone, TodoRegistered, NoSendOnClosed

\* A broadcast under way never meets a queue that Serve has closed.
THEOREM NoSendOnClosedHolds == SocketsSpec => []NoSendOnClosed
<1>1. SocketsInit => HubInv
  BY DEF SocketsInit, HubInv, RegisteredServe, ClosedIsDone, TodoRegistered
<1>2. SocketsTypeOK /\ HubInv /\ [SocketsNext]_socketVars => HubInv'
  <2> SUFFICES ASSUME SocketsTypeOK, HubInv, [SocketsNext]_socketVars
               PROVE  HubInv'
    OBVIOUS
  <2> USE DEF SocketsTypeOK, HubInv, RegisteredServe, ClosedIsDone, TodoRegistered
  <2>1. ASSUME NEW c \in Clients, ClientStep(c)
        PROVE  HubInv'
    <3> USE DEF To, hubVars
    <3>1. CASE handleWS(c) BY <3>1 DEF handleWS
    <3>2. CASE Upgrade(c) BY <3>2 DEF Upgrade
    <3>3. CASE Register(c) BY <3>3 DEF Register
    <3>4. CASE ReadFails(c) BY <3>4 DEF ReadFails
    <3>5. CASE Unregister(c)
      <4>1. \A b \in Broadcasters : todo[b] = {}
        BY <3>5 DEF Unregister, Readers
      <4> QED BY <3>5, <4>1 DEF Unregister
    <3>6. CASE CloseSend(c) BY <3>6 DEF CloseSend
    <3>7. CASE PeerLeaves(c) BY <3>7 DEF PeerLeaves
    <3>8. ASSUME UNCHANGED <<stage, registered, closed, todo>> PROVE HubInv'
      BY <3>8
    <3>9. CASE \/ Subscribes(c) \/ Writes(c) \/ WritesClose(c) \/ Pings(c) \/ AuthTick(c)
               \/ RevokeSession(c) \/ RevokeSessionCLI(c) \/ DisconnectUser(c) \/ ClosesConn(c)
      BY <3>8, <3>9 DEF Subscribes, Writes, WritesClose, Pings, AuthTick, RevokeSession,
                        RevokeSessionCLI, DisconnectUser, ClosesConn
    <3> QED BY <2>1, <3>1, <3>2, <3>3, <3>4, <3>5, <3>6, <3>7, <3>9 DEF ClientStep
  <2>2. ASSUME NEW b \in Broadcasters, Broadcast(b)
        PROVE  HubInv'
    BY <2>2 DEF Broadcast
  <2>3. ASSUME NEW b \in Broadcasters, NEW c \in Clients, Sends(b, c)
        PROVE  HubInv'
    BY <2>3 DEF Sends
  <2>4. CASE PermissionsChange
    BY <2>4 DEF PermissionsChange, hubVars
  <2>5. CASE UNCHANGED socketVars
    BY <2>5 DEF socketVars, hubVars
  <2> QED BY <2>1, <2>2, <2>3, <2>4, <2>5, NextSplits
<1> QED BY <1>1, <1>2, TypeCorrect, InvImplies, PTL DEF SocketsSpec
=============================================================================
