-------------------------- MODULE BotsAccountsProofs --------------------------
(***************************************************************************)
(* Theorems about Accounts, for any users, invitations, requests and sets  *)
(* of recovery codes, and about Bots, for any chats, tokens and bounds.    *)
(***************************************************************************)
EXTENDS Bots, Accounts, FiniteSetTheorems, SequenceTheorems, WellFoundedInduction, TLAPS

USE DEF userVars, inviteVars, ghosts

\* What the fields of a request are, by what it does.
RequestShape ==
    \A r \in Requests :
        /\ request[r].verb \in Changes \cup {"login", "replace"} => request[r].on \in Users
        /\ request[r].verb \in {"role", "activate"} => request[r].want \in Roles
        /\ request[r].verb = "activate" => request[r].item \in Invites
        /\ request[r].verb = "activate" /\ request[r].line = "consume" => request[r].on \in Users
        /\ request[r].verb = "login" => request[r].item \in 0..MaxSets
AccountsInv == AccountsTypeOK /\ RequestShape

\* The steps of one request, and those that need none.
RequestStep(r) ==
    \/ \E by, on \in Users :
         handleUserRole(r, by, on) \/ handleUserDisable(r, by, on) \/ handleUserDelete(r, by, on)
    \/ \E u \in Users : userSetDisabled(r, u) \/ takeAccountAction(r, u)
    \/ \E u \in Forgetful : Login(r, u)
    \/ \E i \in Invites : CheckInvitation(r, i)
    \/ guardLastOwner(r) \/ UpdateUser(r) \/ DeleteUser(r) \/ CreateUser(r)
    \/ ConsumeInvitation(r) \/ consumeRecoveryCode(r) \/ ReplaceRecoveryCodes(r)
OtherStep ==
    \/ \E u \in Users, i \in Invites, want \in Wanted : CreateInvitation(u, i, want)
    \/ \E i \in Invites : RevokeInvitation(i)
    \/ Crash

LEMMA AccountsNextSplits == AccountsNext <=> (\E r \in Requests : RequestStep(r)) \/ OtherStep
BY DEF AccountsNext, RequestStep, OtherStep

\* A request that is accepted, and one that is over, keep the requests' types.
LEMMA AsksType ==
    ASSUME AccountsInv, NEW r \in Requests, NEW verb \in Verbs, NEW on \in Users \cup {Nobody},
           NEW want \in Roles \cup {"keep"}, NEW item \in Invites \cup {Nobody} \cup 0..MaxSets,
           NEW line \in RequestLines, Asks(r, verb, on, want, item, line),
           verb \in Changes \cup {"login", "replace"} => on \in Users,
           verb \in {"role", "activate"} => want \in Roles,
           verb = "activate" => item \in Invites /\ line # "consume",
           verb = "login" => item \in 0..MaxSets
    PROVE  request' \in [Requests -> RequestType] /\ RequestShape'
<1>1. request' \in [Requests -> RequestType]
  BY DEF AccountsInv, AccountsTypeOK, Asks, RequestType
<1>2. \A s \in Requests \ {r} : request'[s] = request[s]
  BY DEF AccountsInv, AccountsTypeOK, Asks
<1>3. request'[r] = [verb |-> verb, on |-> on, want |-> want, line |-> line, item |-> item]
  BY DEF AccountsInv, AccountsTypeOK, Asks
<1> QED BY <1>1, <1>2, <1>3 DEF AccountsInv, RequestShape

LEMMA DoneType ==
    ASSUME AccountsInv, NEW r \in Requests, Done(r)
    PROVE  request' \in [Requests -> RequestType] /\ RequestShape'
<1>1. Idle \in RequestType
  BY DEF Idle, RequestType, Verbs, RequestLines
<1>2. request' \in [Requests -> RequestType]
  BY <1>1 DEF AccountsInv, AccountsTypeOK, Done
<1>3. /\ \A s \in Requests \ {r} : request'[s] = request[s]
      /\ request'[r] = Idle
  BY DEF AccountsInv, AccountsTypeOK, Done
<1> QED BY <1>2, <1>3 DEF AccountsInv, RequestShape, Idle, Changes

-----------------------------------------------------------------------------
\* Every variable keeps its type and every request its shape.
THEOREM AccountsTypeCorrect == AccountsSpec => []AccountsInv
<1> USE AccountsAssumption
<1>1. AccountsInit => AccountsInv
  <2> SUFFICES ASSUME AccountsInit PROVE AccountsInv
    OBVIOUS
  <2>1. Idle \in RequestType
    BY DEF Idle, RequestType, Verbs, RequestLines
  <2>2. request \in [Requests -> RequestType] /\ RequestShape
    BY <2>1 DEF AccountsInit, RequestShape, Idle, Changes
  <2>3. role \in [Users -> Roles \cup {"none"}] /\ codeSet \in [Users -> 0..MaxSets]
    BY DEF AccountsInit, Roles
  <2> QED BY <2>2, <2>3 DEF AccountsInit, AccountsInv, AccountsTypeOK
<1>2. AccountsInv /\ [AccountsNext]_accountVars => AccountsInv'
  <2> SUFFICES ASSUME AccountsInv, [AccountsNext]_accountVars PROVE AccountsInv'
    OBVIOUS
  <2>0. AccountsTypeOK /\ RequestShape
    BY DEF AccountsInv
  <2>1. ASSUME NEW r \in Requests, RequestStep(r) PROVE AccountsInv'
    <3>1. ASSUME NEW by \in Users, NEW on \in Users, NEW verb \in Changes,
                 NEW want \in Wanted \cup {"keep"}, verb = "role" => want \in Wanted,
                 AskChange(r, by, on, verb, want)
          PROVE  AccountsInv'
      <4>1. PICK line \in {"update", "guard"} : Asks(r, verb, on, want, Nobody, line)
        BY <3>1 DEF AskChange
      <4>2. /\ verb \in Verbs /\ want \in Roles \cup {"keep"} /\ line \in RequestLines
            /\ verb = "role" => want \in Roles
            /\ verb # "activate" /\ verb # "login"
        BY <3>1 DEF Changes, Verbs, Roles, RequestLines
      <4>3. request' \in [Requests -> RequestType] /\ RequestShape'
        BY <4>1, <4>2, AsksType
      <4> QED BY <2>0, <3>1, <4>3 DEF AskChange, AccountsInv, AccountsTypeOK
    <3>2. ASSUME NEW by \in Users, NEW on \in Users,
                 handleUserRole(r, by, on) \/ handleUserDisable(r, by, on) \/ handleUserDelete(r, by, on)
          PROVE  AccountsInv'
      BY <3>1, <3>2 DEF handleUserRole, handleUserDisable, handleUserDelete, Changes
    <3>3. ASSUME NEW u \in Users, userSetDisabled(r, u) PROVE AccountsInv'
      <4>1. request' \in [Requests -> RequestType] /\ RequestShape'
        BY <3>3, AsksType DEF userSetDisabled, Verbs, RequestLines
      <4> QED BY <2>0, <3>3, <4>1 DEF userSetDisabled, AccountsInv, AccountsTypeOK
    <3>4. ASSUME NEW u \in Users, takeAccountAction(r, u) PROVE AccountsInv'
      <4>1. request' \in [Requests -> RequestType] /\ RequestShape'
        BY <3>4, AsksType DEF takeAccountAction, Verbs, RequestLines
      <4> QED BY <2>0, <3>4, <4>1 DEF takeAccountAction, AccountsInv, AccountsTypeOK
    <3>5. ASSUME NEW u \in Forgetful, Login(r, u) PROVE AccountsInv'
      <4>1. codeSet[u] \in 0..MaxSets
        BY <2>0 DEF AccountsTypeOK
      <4>2. request' \in [Requests -> RequestType] /\ RequestShape'
        BY <3>5, <4>1, AsksType DEF Login, Verbs, RequestLines
      <4> QED BY <2>0, <3>5, <4>2 DEF Login, AccountsInv, AccountsTypeOK
    <3>6. ASSUME NEW i \in Invites, CheckInvitation(r, i) PROVE AccountsInv'
      <4>1. inviteRole[i] \in Roles
        BY <2>0, <3>6 DEF AccountsTypeOK, CheckInvitation, StillOpen
      <4>2. request' \in [Requests -> RequestType] /\ RequestShape'
        BY <3>6, <4>1, AsksType DEF CheckInvitation, Verbs, RequestLines, Changes
      <4> QED BY <2>0, <3>6, <4>2 DEF CheckInvitation, AccountsInv, AccountsTypeOK
    <3>7. CASE guardLastOwner(r)
      <4>1. CASE Done(r)
        BY <2>0, <3>7, <4>1, DoneType DEF guardLastOwner, AccountsInv, AccountsTypeOK
      <4>2. CASE To(r, "update")
        <5>1. request' = [request EXCEPT ![r].line = "update"]
          BY <4>2 DEF To
        <5>2. request' \in [Requests -> RequestType]
          BY <2>0, <5>1 DEF AccountsTypeOK, RequestType, RequestLines
        <5>3. RequestShape'
          BY <2>0, <5>1, <3>7 DEF RequestShape, AccountsTypeOK, RequestType, guardLastOwner,
                                  AtLine, Changes
        <5> QED BY <2>0, <3>7, <5>2, <5>3 DEF guardLastOwner, AccountsInv, AccountsTypeOK
      <4> QED BY <3>7, <4>1, <4>2 DEF guardLastOwner
    <3>8. CASE UpdateUser(r)
      <4>1. request[r].on \in Users /\ (request[r].verb = "role" => request[r].want \in Roles)
        BY <2>0, <3>8 DEF RequestShape, UpdateUser, AtLine, Changes
      <4>2. role' \in [Users -> Roles \cup {"none"}] /\ disabled' \in SUBSET Users
        BY <2>0, <3>8, <4>1 DEF UpdateUser, AccountsTypeOK
      <4> QED BY <2>0, <3>8, <4>2, DoneType DEF UpdateUser, AccountsInv, AccountsTypeOK
    <3>9. CASE DeleteUser(r)
      <4> QED BY <2>0, <3>9, DoneType DEF DeleteUser, RemoveRow, AccountsInv, AccountsTypeOK
    <3>10. CASE CreateUser(r)
      <4>1. request[r].want \in Roles /\ request[r].item \in Invites /\ request[r].verb = "activate"
        BY <2>0, <3>10 DEF RequestShape, CreateUser, AtLine
      <4>2. CASE Done(r) /\ UNCHANGED <<role, codeSet, fresh, invitedBy>>
        BY <2>0, <3>10, <4>2, DoneType DEF CreateUser, AccountsInv, AccountsTypeOK
      <4>3. ASSUME NEW u \in Users,
                   role' = [role EXCEPT ![u] = request[r].want],
                   codeSet' = [codeSet EXCEPT ![u] = 1], fresh' = fresh \cup {u},
                   invitedBy' = [invitedBy EXCEPT ![u] = request[r].item],
                   request' = [request EXCEPT ![r].on = u, ![r].line = "consume"]
            PROVE  AccountsInv'
        <5>a. request[r] \in RequestType
          BY <2>0 DEF AccountsTypeOK
        <5>b. request'[r] = [verb |-> request[r].verb, on |-> u, want |-> request[r].want,
                             line |-> "consume", item |-> request[r].item]
          BY <2>0, <4>3, <5>a DEF AccountsTypeOK, RequestType
        <5>c. request'[r] \in RequestType
          BY <5>a, <5>b DEF RequestType, RequestLines
        <5>1. request' \in [Requests -> RequestType]
          BY <2>0, <4>3, <5>c DEF AccountsTypeOK
        <5>2. RequestShape'
          BY <2>0, <4>1, <4>3 DEF RequestShape, AccountsTypeOK, RequestType, Changes
        <5>3. /\ role' \in [Users -> Roles \cup {"none"}] /\ codeSet' \in [Users -> 0..MaxSets]
              /\ fresh' \in SUBSET Users /\ invitedBy' \in [Users -> Invites \cup {Nobody}]
          BY <2>0, <4>1, <4>3 DEF AccountsTypeOK
        <5> QED BY <2>0, <3>10, <5>1, <5>2, <5>3 DEF CreateUser, AccountsInv, AccountsTypeOK
      <4> QED BY <3>10, <4>2, <4>3 DEF CreateUser
    <3>11. CASE ConsumeInvitation(r)
      <4>1. request[r].item \in Invites /\ request[r].on \in Users
        BY <2>0, <3>11 DEF RequestShape, ConsumeInvitation, AtLine
      <4>2. /\ role' \in [Users -> Roles \cup {"none"}] /\ disabled' \in SUBSET Users
            /\ fresh' \in SUBSET Users /\ invitedBy' \in [Users -> Invites \cup {Nobody}]
            /\ usedBy' \in [Invites -> Users \cup {Nobody}]
        BY <2>0, <3>11, <4>1 DEF ConsumeInvitation, RemoveRow, AccountsTypeOK
      <4>3. overlapped' \in BOOLEAN
        BY <2>0, <3>11 DEF ConsumeInvitation, AccountsTypeOK
      <4> QED BY <2>0, <3>11, <4>2, <4>3, DoneType DEF ConsumeInvitation, AccountsInv, AccountsTypeOK
    <3>12. CASE consumeRecoveryCode(r)
      <4>1. request[r].on \in Users /\ request[r].item \in 0..MaxSets
        BY <2>0, <3>12 DEF RequestShape, consumeRecoveryCode, AtLine
      <4>2. /\ fresh' \in SUBSET Users /\ token' \in SUBSET Users
            /\ spent' \in SUBSET (Users \X (0..MaxSets))
        BY <2>0, <3>12, <4>1 DEF consumeRecoveryCode, Spend, AccountsTypeOK
      <4>3. twice' \in BOOLEAN
        BY <2>0, <3>12 DEF consumeRecoveryCode, Spend, AccountsTypeOK
      <4> QED BY <2>0, <3>12, <4>2, <4>3, DoneType DEF consumeRecoveryCode, AccountsInv, AccountsTypeOK
    <3>13. CASE ReplaceRecoveryCodes(r)
      <4>1. request[r].on \in Users
        BY <2>0, <3>13 DEF RequestShape, ReplaceRecoveryCodes, AtLine
      <4>2. fresh' \in SUBSET Users /\ codeSet' \in [Users -> 0..MaxSets]
        BY <2>0, <3>13, <4>1 DEF ReplaceRecoveryCodes, AccountsTypeOK
      <4> QED BY <2>0, <3>13, <4>2, DoneType DEF ReplaceRecoveryCodes, AccountsInv, AccountsTypeOK
    <3> QED BY <2>1, <3>2, <3>3, <3>4, <3>5, <3>6, <3>7, <3>8, <3>9, <3>10, <3>11, <3>12, <3>13
            DEF RequestStep
  <2>2. CASE OtherStep
    <3>1. ASSUME NEW u \in Users, NEW i \in Invites, NEW want \in Wanted, CreateInvitation(u, i, want)
          PROVE  AccountsInv'
      BY <2>0, <3>1 DEF CreateInvitation, AccountsInv, AccountsTypeOK, RequestShape, Roles
    <3>2. ASSUME NEW i \in Invites, RevokeInvitation(i) PROVE AccountsInv'
      BY <2>0, <3>2 DEF RevokeInvitation, AccountsInv, AccountsTypeOK, RequestShape
    <3>3. CASE Crash
      <4>1. Idle \in RequestType
        BY DEF Idle, RequestType, Verbs, RequestLines
      <4>2. request' \in [Requests -> RequestType] /\ RequestShape'
        BY <3>3, <4>1 DEF Crash, RequestShape, Idle, Changes
      <4>3. invitedBy' \in [Users -> Invites \cup {Nobody}] /\ token' \in SUBSET Users
        BY <2>0, <3>3 DEF Crash, AccountsTypeOK
      <4> QED BY <2>0, <3>3, <4>2, <4>3 DEF Crash, AccountsInv, AccountsTypeOK
    <3> QED BY <2>2, <3>1, <3>2, <3>3 DEF OtherStep
  <2>3. CASE UNCHANGED accountVars
    BY <2>0, <2>3 DEF accountVars, AccountsInv, AccountsTypeOK, RequestShape
  <2> QED BY <2>1, <2>2, <2>3, AccountsNextSplits
<1> QED BY <1>1, <1>2, PTL DEF AccountsSpec

-----------------------------------------------------------------------------
\* The code a user still has is one that never signed in, and no code of a set
\* the user was not given yet has.
SpentAreOld == \A u \in Users, c \in 0..MaxSets : <<u, c>> \in spent => c <= codeSet[u]
FreshIsUnspent == \A u \in fresh : <<u, codeSet[u]>> \notin spent
SpentInv == ~twice /\ SpentAreOld /\ FreshIsUnspent

\* A recovery code signs in once.
THEOREM RecoveryCodeSpentOnceHolds == AccountsSpec => []RecoveryCodeSpentOnce
<1> USE DEF SpentInv, SpentAreOld, FreshIsUnspent
<1>1. AccountsInit => SpentInv
  BY AccountsAssumption DEF AccountsInit
<1>2. AccountsInv /\ SpentInv /\ [AccountsNext]_accountVars => SpentInv'
  <2> SUFFICES ASSUME AccountsInv, SpentInv, [AccountsNext]_accountVars PROVE SpentInv'
    OBVIOUS
  <2>0. /\ AccountsTypeOK /\ RequestShape
        /\ codeSet \in [Users -> 0..MaxSets] /\ spent \in SUBSET (Users \X (0..MaxSets))
        /\ fresh \in SUBSET Users /\ MaxSets \in Nat
    BY AccountsAssumption DEF AccountsInv, AccountsTypeOK
  <2>1. ASSUME UNCHANGED <<codeSet, spent, twice>>, fresh' \subseteq fresh PROVE SpentInv'
    BY <2>1
  <2>2. ASSUME NEW r \in Requests, CreateUser(r) PROVE SpentInv'
    <3>1. ASSUME NEW u \in Users, codeSet[u] = 0, codeSet' = [codeSet EXCEPT ![u] = 1],
                 fresh' = fresh \cup {u}, UNCHANGED <<spent, twice>>
          PROVE  SpentInv'
      <4>1. codeSet'[u] = 1 /\ \A x \in Users \ {u} : codeSet'[x] = codeSet[x]
        BY <2>0, <3>1
      <4>2. <<u, 1>> \notin spent
        BY <2>0, <3>1
      <4> QED BY <2>0, <3>1, <4>1, <4>2
    <3> QED BY <2>1, <2>2, <3>1 DEF CreateUser
  <2>3. ASSUME NEW r \in Requests, ReplaceRecoveryCodes(r) PROVE SpentInv'
    <3>0. request[r].on \in Users /\ UNCHANGED <<spent, twice>>
      BY <2>0, <2>3 DEF RequestShape, ReplaceRecoveryCodes, AtLine
    <3>1. ASSUME NEW u \in Users, codeSet[u] < MaxSets, codeSet' = [codeSet EXCEPT ![u] = @ + 1],
                 fresh' = fresh \cup {u}, UNCHANGED <<spent, twice>>
          PROVE  SpentInv'
      <4>1. codeSet'[u] = codeSet[u] + 1 /\ \A x \in Users \ {u} : codeSet'[x] = codeSet[x]
        BY <2>0, <3>1
      <4>2. <<u, codeSet[u] + 1>> \notin spent
        BY <2>0, <3>1
      <4> QED BY <2>0, <3>1, <4>1, <4>2
    <3> QED BY <2>1, <2>3, <3>0, <3>1 DEF ReplaceRecoveryCodes
  <2>4. ASSUME NEW r \in Requests, consumeRecoveryCode(r) PROVE SpentInv'
    <3>0. /\ request[r].on \in Users /\ request[r].item \in 0..MaxSets /\ codeSet' = codeSet
      BY <2>0, <2>4 DEF RequestShape, consumeRecoveryCode, AtLine
    <3>1. ASSUME NEW u \in Users, NEW c \in 0..MaxSets, IsFresh(u, c), Spend(u, c),
                 fresh' = fresh \ {u}, codeSet' = codeSet
          PROVE  SpentInv'
      <4>1. <<u, c>> \notin spent /\ c = codeSet[u]
        BY <3>1 DEF IsFresh
      <4>2. ~twice' /\ spent' = spent \cup {<<u, c>>}
        BY <3>1, <4>1 DEF Spend
      <4> QED BY <2>0, <3>1, <4>1, <4>2
    <3> QED BY <2>1, <2>4, <3>0, <3>1 DEF consumeRecoveryCode
  <2>5. ASSUME NEW r \in Requests, RequestStep(r),
               ~(CreateUser(r) \/ ReplaceRecoveryCodes(r) \/ consumeRecoveryCode(r))
        PROVE  SpentInv'
    <3>1. UNCHANGED <<codeSet, spent, twice>> /\ fresh' \subseteq fresh
      BY <2>5 DEF RequestStep, handleUserRole, handleUserDisable, handleUserDelete, AskChange,
                  userSetDisabled, takeAccountAction, Login, CheckInvitation, guardLastOwner,
                  UpdateUser, DeleteUser, RemoveRow, ConsumeInvitation
    <3> QED BY <2>1, <3>1
  <2>6. CASE OtherStep
    BY <2>1, <2>6 DEF OtherStep, CreateInvitation, RevokeInvitation, Crash
  <2>7. CASE UNCHANGED accountVars
    BY <2>1, <2>7 DEF accountVars
  <2> QED BY <2>2, <2>3, <2>4, <2>5, <2>6, <2>7, AccountsNextSplits
<1>3. SpentInv => RecoveryCodeSpentOnce
  BY DEF RecoveryCodeSpentOnce
<1> QED BY <1>1, <1>2, <1>3, AccountsTypeCorrect, PTL DEF AccountsSpec
-----------------------------------------------------------------------------
\* What InvitationMakesOneUser needs to be inductive: whoever an invitation
\* records, and whoever an activation is about to, was made for that invitation
\* or for none, and is not made again.
OneUserInv ==
    /\ \A i \in Invites, u \in Users :
           usedBy[i] = u => codeSet[u] # 0 /\ invitedBy[u] \in {i, Nobody}
    /\ \A r \in Requests :
           AtLine(r, {"activate"}, "consume") =>
               /\ codeSet[request[r].on] # 0
               /\ invitedBy[request[r].on] \in {request[r].item, Nobody}
    /\ \A i \in Invites : inviteRole[i] = "none" => createdBy[i] = Nobody
    /\ InvitationMakesOneUser

\* Nothing but the four steps of an activation, a deletion and a death touches
\* what an account is remembered by.
LEMMA InvitationsRest ==
    ASSUME AccountsInv, NEW r \in Requests, RequestStep(r), ~CreateUser(r), ~ConsumeInvitation(r),
           ~DeleteUser(r)
    PROVE  /\ UNCHANGED <<inviteVars, invitedBy>>
           /\ \A u \in Users : (role[u] = "none" <=> role'[u] = "none")
                               /\ (codeSet[u] # 0 => codeSet'[u] # 0)
           /\ \A s \in Requests :
                  (AtLine(s, {"activate"}, "consume") <=> AtLine(s, {"activate"}, "consume")')
                  /\ (AtLine(s, {"activate"}, "consume") => request'[s] = request[s])
<1> USE DEF AccountsInv, AccountsTypeOK
<1>0. /\ \A s \in Requests \ {r} : request'[s] = request[s]
      /\ ~AtLine(r, {"activate"}, "consume") /\ ~AtLine(r, {"activate"}, "consume")'
  <2>1. ASSUME NEW verb, NEW on, NEW want, NEW item, NEW line, Asks(r, verb, on, want, item, line),
               verb # "activate" \/ line # "consume"
        PROVE  /\ \A s \in Requests \ {r} : request'[s] = request[s]
               /\ ~AtLine(r, {"activate"}, "consume") /\ ~AtLine(r, {"activate"}, "consume")'
    BY <2>1 DEF Asks, AtLine, Idle
  <2>2. ASSUME Done(r), ~AtLine(r, {"activate"}, "consume")
        PROVE  /\ \A s \in Requests \ {r} : request'[s] = request[s]
               /\ ~AtLine(r, {"activate"}, "consume") /\ ~AtLine(r, {"activate"}, "consume")'
    BY <2>2 DEF Done, AtLine, Idle
  <2>3. CASE \E by, on \in Users :
               handleUserRole(r, by, on) \/ handleUserDisable(r, by, on) \/ handleUserDelete(r, by, on)
    <3>1. PICK verb \in {"role", "disable", "enable", "delete"}, by \in Users, on \in Users,
                want \in Wanted \cup {"keep"} : AskChange(r, by, on, verb, want)
      BY <2>3 DEF handleUserRole, handleUserDisable, handleUserDelete
    <3> QED BY <2>1, <3>1 DEF AskChange
  <2>4. CASE \E u \in Users : userSetDisabled(r, u) \/ takeAccountAction(r, u)
    BY <2>1, <2>4 DEF userSetDisabled, takeAccountAction
  <2>5. CASE \E u \in Forgetful : Login(r, u)
    BY <2>1, <2>5 DEF Login
  <2>6. CASE \E i \in Invites : CheckInvitation(r, i)
    BY <2>1, <2>6 DEF CheckInvitation
  <2>7. CASE guardLastOwner(r)
    BY <2>7 DEF guardLastOwner, Done, To, AtLine, Idle, RequestType, Changes
  <2>8. CASE UpdateUser(r) \/ consumeRecoveryCode(r) \/ ReplaceRecoveryCodes(r)
    BY <2>2, <2>8 DEF UpdateUser, consumeRecoveryCode, ReplaceRecoveryCodes, AtLine
  <2> QED BY <2>3, <2>4, <2>5, <2>6, <2>7, <2>8 DEF RequestStep
<1>1. UNCHANGED <<inviteVars, invitedBy>>
  BY DEF RequestStep, handleUserRole, handleUserDisable, handleUserDelete, AskChange,
         userSetDisabled, takeAccountAction, Login, CheckInvitation, guardLastOwner,
         UpdateUser, consumeRecoveryCode, ReplaceRecoveryCodes
<1>2. \A u \in Users : role[u] = "none" <=> role'[u] = "none"
  <2>1. CASE UpdateUser(r)
    <3>1. request[r].on \in Users /\ (request[r].verb = "role" => request[r].want \in Roles)
      BY <2>1 DEF RequestShape, UpdateUser, AtLine, Changes
    <3> QED BY <2>1, <3>1 DEF UpdateUser, Roles
  <2>2. CASE ~UpdateUser(r)
    BY <2>2 DEF RequestStep, handleUserRole, handleUserDisable, handleUserDelete, AskChange,
         userSetDisabled, takeAccountAction, Login, CheckInvitation, guardLastOwner,
         consumeRecoveryCode, ReplaceRecoveryCodes
  <2> QED BY <2>1, <2>2
<1>3. \A u \in Users : codeSet[u] # 0 => codeSet'[u] # 0
  <2>1. CASE ReplaceRecoveryCodes(r)
    BY <2>1, AccountsAssumption DEF ReplaceRecoveryCodes
  <2>2. CASE ~ReplaceRecoveryCodes(r)
    BY <2>2 DEF RequestStep, handleUserRole, handleUserDisable, handleUserDelete, AskChange,
         userSetDisabled, takeAccountAction, Login, CheckInvitation, guardLastOwner,
         UpdateUser, consumeRecoveryCode
  <2> QED BY <2>1, <2>2
<1> QED BY <1>0, <1>1, <1>2, <1>3 DEF AtLine

\* A row that goes, or stays because an invitation names it.
LEMMA RemovedOrReferenced ==
    ASSUME AccountsInv, NEW u \in Users, RemoveRow(u)
    PROVE  /\ \A v \in Users \ {u} : role'[v] = role[v] /\ invitedBy'[v] = invitedBy[v]
           /\ \/ role'[u] = "none" /\ invitedBy'[u] = Nobody
              \/ Referenced(u) /\ role'[u] = role[u] /\ invitedBy'[u] = invitedBy[u]
BY DEF RemoveRow, AccountsInv, AccountsTypeOK

\* Of the activations of one invitation at most one account stays.
THEOREM InvitationMakesOneUserHolds == AccountsSpec => []InvitationMakesOneUser
<1> USE AccountsAssumption DEF OneUserInv
<1>1. AccountsInit => OneUserInv
  BY DEF AccountsInit, AtLine, Idle, InvitationMakesOneUser
<1>2. AccountsInv /\ AccountsInv' /\ OneUserInv /\ [AccountsNext]_accountVars => OneUserInv'
  <2> SUFFICES ASSUME AccountsInv, AccountsInv', OneUserInv, [AccountsNext]_accountVars
               PROVE  OneUserInv'
    OBVIOUS
  <2>0. /\ AccountsTypeOK /\ RequestShape /\ AccountsTypeOK'
        /\ usedBy \in [Invites -> Users \cup {Nobody}] /\ createdBy \in [Invites -> Users \cup {Nobody}]
        /\ invitedBy \in [Users -> Invites \cup {Nobody}] /\ Nobody \notin Users \cup Invites
        /\ codeSet \in [Users -> 0..MaxSets] /\ request \in [Requests -> RequestType]
    BY DEF AccountsInv, AccountsTypeOK
  <2> DEFINE Activates(s) == AtLine(s, {"activate"}, "consume")
  <2>1. ASSUME NEW r \in Requests, RequestStep(r), ~CreateUser(r), ~ConsumeInvitation(r), ~DeleteUser(r)
        PROVE  OneUserInv'
    BY <2>0, <2>1, InvitationsRest DEF InvitationMakesOneUser, RequestShape, AtLine
  <2>2. ASSUME NEW r \in Requests, CreateUser(r) PROVE OneUserInv'
    <3>1. CASE Done(r) /\ UNCHANGED <<role, codeSet, fresh, invitedBy>>
      <4>1. /\ \A s \in Requests \ {r} : request'[s] = request[s]
            /\ ~Activates(r) /\ ~Activates(r)'
        BY <2>0, <2>2, <3>1 DEF CreateUser, Done, AtLine, Idle
      <4>2. UNCHANGED <<role, codeSet, inviteVars, invitedBy>>
        BY <2>2, <3>1 DEF CreateUser
      <4> QED BY <2>0, <4>1, <4>2 DEF InvitationMakesOneUser, AtLine
    <3>2. ASSUME NEW u \in Users, codeSet[u] = 0, role' = [role EXCEPT ![u] = request[r].want],
                 codeSet' = [codeSet EXCEPT ![u] = 1], 
                 invitedBy' = [invitedBy EXCEPT ![u] = request[r].item],
                 request' = [request EXCEPT ![r].on = u, ![r].line = "consume"]
          PROVE  OneUserInv'
      <4>1. /\ \A s \in Requests \ {r} : request'[s] = request[s]
            /\ ~Activates(r) /\ Activates(r)'
            /\ request'[r].on = u /\ request'[r].item = request[r].item
        <5>1. request[r] \in RequestType /\ request[r].verb = "activate" /\ request[r].line = "create"
          BY <2>0, <2>2 DEF CreateUser, AtLine
        <5>2. request'[r] = [verb |-> request[r].verb, on |-> u, want |-> request[r].want,
                             line |-> "consume", item |-> request[r].item]
          BY <2>0, <3>2, <5>1 DEF RequestType
        <5> QED BY <2>0, <3>2, <5>1, <5>2 DEF AtLine
      <4>2. /\ UNCHANGED inviteVars
            /\ \A v \in Users \ {u} : /\ role'[v] = role[v] /\ codeSet'[v] = codeSet[v]
                                      /\ invitedBy'[v] = invitedBy[v]
            /\ codeSet'[u] = 1 /\ invitedBy'[u] = request[r].item
        <5>1. role \in [Users -> Roles \cup {"none"}]
          BY <2>0 DEF AccountsTypeOK
        <5>2. UNCHANGED inviteVars
          BY <2>2 DEF CreateUser
        <5>3. /\ codeSet'[u] = 1 /\ invitedBy'[u] = request[r].item
              /\ \A v \in Users \ {u} : codeSet'[v] = codeSet[v] /\ invitedBy'[v] = invitedBy[v]
          BY <2>0, <3>2
        <5>4. \A v \in Users \ {u} : role'[v] = role[v]
          BY <3>2, <5>1
        <5> QED BY <5>2, <5>3, <5>4
      <4>3. \A s \in Requests : Activates(s) => request[s].on \in Users \ {u}
        BY <2>0, <3>2 DEF RequestShape, AtLine
      <4>4. \A i \in Invites : usedBy[i] # u
        BY <3>2
      <4> QED BY <2>0, <4>1, <4>2, <4>3, <4>4 DEF InvitationMakesOneUser, AtLine
    <3> QED BY <2>2, <3>1, <3>2 DEF CreateUser
  <2>3. ASSUME NEW r \in Requests, ConsumeInvitation(r) PROVE OneUserInv'
    <3> DEFINE u == request[r].on
               i == request[r].item
    <3>0. u \in Users /\ i \in Invites /\ codeSet[u] # 0 /\ invitedBy[u] \in {i, Nobody}
      BY <2>0, <2>3 DEF RequestShape, ConsumeInvitation, AtLine
    <3>1. /\ \A s \in Requests \ {r} : request'[s] = request[s]
          /\ ~Activates(r)' /\ UNCHANGED <<codeSet, inviteRole, createdBy>>
      BY <2>0, <2>3 DEF ConsumeInvitation, Done, AtLine, Idle
    <3>2. CASE StillOpen(i)
      <4>1. UNCHANGED <<role, invitedBy>> /\ usedBy[i] = Nobody
        BY <2>3, <3>2 DEF ConsumeInvitation, StillOpen
      <4>2. \A j \in Invites \ {i} : usedBy'[j] = usedBy[j]
        BY <2>0, <2>3, <3>2 DEF ConsumeInvitation
      <4>3. \/ role[u] = "none" /\ usedBy' = usedBy
            \/ usedBy'[i] = u
        BY <2>0, <2>3, <3>0, <3>2 DEF ConsumeInvitation
      <4> HIDE DEF u, i
      <4>4. \A s \in Requests : Activates(s)' => s # r /\ Activates(s) /\ request'[s] = request[s]
        BY <3>1 DEF AtLine
      <4>5. \A s \in Requests : Activates(s) => Activates(s)' \/ s = r
        BY <3>1 DEF AtLine
      <4>6. request[r].on = u
        BY DEF u
      <4> QED BY <2>0, <3>0, <3>1, <4>1, <4>2, <4>3, <4>4, <4>5, <4>6 DEF InvitationMakesOneUser
    <3>3. CASE ~StillOpen(i)
      <4>1. UNCHANGED usedBy /\ RemoveRow(u)
        BY <2>3, <3>3 DEF ConsumeInvitation
      <4>2. /\ \A v \in Users \ {u} : role'[v] = role[v] /\ invitedBy'[v] = invitedBy[v]
            /\ \/ role'[u] = "none" /\ invitedBy'[u] = Nobody
               \/ Referenced(u) /\ role'[u] = role[u] /\ invitedBy'[u] = invitedBy[u]
        BY <3>0, <4>1, RemovedOrReferenced
      <4> HIDE DEF u, i
      <4>3. Referenced(u) => (\E j \in Invites : createdBy[j] = u)
                             \/ invitedBy[u] = Nobody \/ usedBy[invitedBy[u]] = u
        BY <2>0, <3>0 DEF Referenced
      <4>4. \A s \in Requests : Activates(s)' => Activates(s) /\ request'[s] = request[s]
        BY <3>1 DEF AtLine
      <4>5. \A s \in Requests : Activates(s) => Activates(s)' \/ s = r
        BY <3>1 DEF AtLine
      <4>6. request[r].on = u
        BY DEF u
      <4>7. \A s \in Requests : Activates(s) => request[s].on \in Users
        BY <2>0 DEF RequestShape, AtLine
      <4> QED BY <2>0, <3>0, <3>1, <4>1, <4>2, <4>3, <4>4, <4>5, <4>6, <4>7 DEF InvitationMakesOneUser
    <3> QED BY <3>2, <3>3
  <2>4. ASSUME NEW r \in Requests, DeleteUser(r) PROVE OneUserInv'
    <3>0. request[r].on \in Users
      BY <2>0, <2>4 DEF RequestShape, DeleteUser, AtLine, Changes
    <3>1. PICK u \in Users : RemoveRow(u) \/ UNCHANGED <<role, invitedBy>>
      BY <2>4, <3>0 DEF DeleteUser
    <3>2. /\ \A s \in Requests \ {r} : request'[s] = request[s]
          /\ ~Activates(r) /\ ~Activates(r)'
      BY <2>0, <2>4 DEF DeleteUser, Done, AtLine, Idle
    <3>3. UNCHANGED <<codeSet, inviteVars>>
      BY <2>4 DEF DeleteUser
    <3>4. \A v \in Users : \/ role'[v] = "none" /\ invitedBy'[v] = Nobody
                           \/ role'[v] = role[v] /\ invitedBy'[v] = invitedBy[v]
      BY <3>1, RemovedOrReferenced
    <3>5. \A s \in Requests : Activates(s) => request[s].on \in Users
      BY <2>0 DEF RequestShape, AtLine
    <3>6. \A s \in Requests : Activates(s)' <=> Activates(s)
      BY <3>2 DEF AtLine
    <3>7. \A s \in Requests : Activates(s) => request'[s] = request[s]
      BY <3>2
    <3> HIDE DEF Activates
    <3>8. InvitationMakesOneUser'
      BY <2>0, <3>3, <3>4, <3>6, <3>7 DEF InvitationMakesOneUser, Activates
    <3> QED BY <2>0, <3>3, <3>4, <3>5, <3>6, <3>7, <3>8 DEF Activates
  <2>5. CASE OtherStep
    <3>1. ASSUME NEW u \in Users, NEW i \in Invites, NEW want \in Wanted, CreateInvitation(u, i, want)
          PROVE  OneUserInv'
      <4>1. /\ UNCHANGED <<role, codeSet, usedBy, invitedBy, request>>
            /\ \A j \in Invites, v \in Users : createdBy[j] = v => createdBy'[j] = v
        BY <2>0, <3>1 DEF CreateInvitation
      <4>2. \A j \in Invites : inviteRole'[j] = "none" => createdBy'[j] = Nobody
        <5>1. want # "none" /\ inviteRole \in [Invites -> Roles \cup {"none"}]
          BY <2>0 DEF AccountsTypeOK
        <5> QED BY <2>0, <3>1, <5>1 DEF CreateInvitation
      <4> QED BY <2>0, <4>1, <4>2 DEF InvitationMakesOneUser, AtLine
    <3>2. ASSUME NEW i \in Invites, RevokeInvitation(i) PROVE OneUserInv'
      BY <3>2 DEF RevokeInvitation, InvitationMakesOneUser, AtLine
    <3>3. CASE Crash
      <4>1. \A s \in Requests : ~Activates(s)'
        BY <3>3 DEF Crash, AtLine, Idle
      <4>2. /\ UNCHANGED <<role, codeSet, inviteVars>>
            /\ \A v \in Users : invitedBy'[v] \in {invitedBy[v], Nobody}
            /\ \A v \in Users : (\E s \in Requests : Activates(s) /\ request[s].on = v)
                                    => invitedBy'[v] = Nobody
        BY <2>0, <3>3 DEF Crash
      <4> HIDE DEF Activates
      <4>3. InvitationMakesOneUser'
        BY <2>0, <4>1, <4>2 DEF InvitationMakesOneUser, Activates
      <4> QED BY <2>0, <4>1, <4>2, <4>3 DEF Activates
    <3> QED BY <2>5, <3>1, <3>2, <3>3 DEF OtherStep
  <2>6. CASE UNCHANGED accountVars
    BY <2>6 DEF accountVars, InvitationMakesOneUser, AtLine
  <2> QED BY <2>1, <2>2, <2>3, <2>4, <2>5, <2>6, AccountsNextSplits
<1> QED BY <1>1, <1>2, AccountsTypeCorrect, PTL DEF AccountsSpec
-----------------------------------------------------------------------------
\* A request past guardLastOwner whose statement may take an owner away.
Dangerous(r) ==
    /\ AtLine(r, {"role", "disable", "delete"}, "update")
    /\ ~(request[r].verb = "role" /\ request[r].want = "owner")

\* What OwnerLossNeedsOverlap needs to be inductive: as long as nothing
\* overlapped, one such request at most is under way, and an active owner
\* remains besides the account it is about.
OwnerInv ==
    /\ \A u \in Users : codeSet[u] = 0 => role[u] = "none"
    /\ ~overlapped =>
           /\ ActiveOwners # {}
           /\ \A r, s \in Requests : Dangerous(r) /\ Dangerous(s) => r = s
           /\ \A r \in Requests : Dangerous(r) => ActiveOwners \ {request[r].on} # {}

\* Who passes the guard leaves an owner behind.
LEMMA GuardLeavesOwner ==
    ASSUME NEW u \in Users, ~IsLastOwner(u), ActiveOwners # {}
    PROVE  ActiveOwners \ {u} # {}
<1> SUFFICES ASSUME ActiveOwners = {u} PROVE FALSE
  OBVIOUS
<1>1. Cardinality({u}) = 1
  BY FS_Singleton
<1> QED BY <1>1 DEF IsLastOwner

\* A request that changes no account yet, or none to its loss.
LEMMA OwnersRemain ==
    ASSUME AccountsInv, OwnerInv, ActiveOwners \subseteq ActiveOwners', overlapped => overlapped',
           \A u \in Users : codeSet'[u] = 0 => codeSet[u] = 0 /\ role'[u] = role[u],
           \A r \in Requests : Dangerous(r)' => Dangerous(r) /\ request'[r] = request[r]
    PROVE  OwnerInv'
BY DEF OwnerInv

\* How a step of a request moves it: it is accepted, goes on, or ends.
LEMMA DangerFromGuard ==
    ASSUME AccountsInv, NEW r \in Requests, RequestStep(r), ~guardLastOwner(r)
    PROVE  \A s \in Requests : Dangerous(s)' => s # r /\ Dangerous(s) /\ request'[s] = request[s]
<1> USE DEF AccountsInv, AccountsTypeOK
<1> DEFINE Goal == (\A s \in Requests \ {r} : request'[s] = request[s]) /\ ~Dangerous(r)'
<1> SUFFICES Goal
  BY DEF Dangerous, AtLine
<1>1. ASSUME NEW verb, NEW on, NEW want, NEW item, NEW line, Asks(r, verb, on, want, item, line),
             verb \in {"role", "disable", "delete"} /\ line = "update"
                 => verb = "role" /\ want = "owner"
      PROVE  Goal
  BY <1>1 DEF Asks, AtLine, Dangerous
<1>2. ASSUME Done(r) PROVE Goal
  BY <1>2 DEF Done, AtLine, Idle, Dangerous
<1>3. CASE \E by, on \in Users :
             handleUserRole(r, by, on) \/ handleUserDisable(r, by, on) \/ handleUserDelete(r, by, on)
  <2>1. PICK verb \in {"role", "disable", "enable", "delete"}, by \in Users, on \in Users,
              want \in Wanted \cup {"keep"} : AskChange(r, by, on, verb, want)
    BY <1>3 DEF handleUserRole, handleUserDisable, handleUserDelete
  <2> QED BY <1>1, <2>1 DEF AskChange
<1>4. CASE \E u \in Users : userSetDisabled(r, u) \/ takeAccountAction(r, u)
  BY <1>1, <1>4 DEF userSetDisabled, takeAccountAction
<1>5. CASE \E u \in Forgetful : Login(r, u)
  BY <1>1, <1>5 DEF Login
<1>6. CASE \E i \in Invites : CheckInvitation(r, i)
  BY <1>1, <1>6 DEF CheckInvitation
<1>7. CASE CreateUser(r)
  <2>1. CASE Done(r)
    BY <1>2, <2>1
  <2>2. ASSUME NEW u \in Users, request' = [request EXCEPT ![r].on = u, ![r].line = "consume"]
        PROVE  Goal
    BY <2>2 DEF AtLine, Dangerous, RequestType
  <2> QED BY <1>7, <2>1, <2>2 DEF CreateUser
<1>8. CASE UpdateUser(r) \/ DeleteUser(r) \/ ConsumeInvitation(r) \/ consumeRecoveryCode(r)
           \/ ReplaceRecoveryCodes(r)
  BY <1>2, <1>8 DEF UpdateUser, DeleteUser, ConsumeInvitation, consumeRecoveryCode,
                    ReplaceRecoveryCodes
<1> QED BY <1>3, <1>4, <1>5, <1>6, <1>7, <1>8 DEF RequestStep

\* No change that passes the guard alone takes the last active owner.
THEOREM OwnerLossNeedsOverlapHolds == AccountsSpec => []OwnerLossNeedsOverlap
<1> USE AccountsAssumption
<1>1. AccountsInit => OwnerInv
  BY DEF AccountsInit, OwnerInv, ActiveOwners, Dangerous, AtLine, Idle
<1>2. AccountsInv /\ AccountsInv' /\ OwnerInv /\ [AccountsNext]_accountVars => OwnerInv'
  <2> SUFFICES ASSUME AccountsInv, AccountsInv', OwnerInv, [AccountsNext]_accountVars
               PROVE  OwnerInv'
    OBVIOUS
  <2>0. /\ AccountsTypeOK /\ RequestShape
        /\ role \in [Users -> Roles \cup {"none"}] /\ codeSet \in [Users -> 0..MaxSets]
        /\ request \in [Requests -> RequestType] /\ overlapped \in BOOLEAN /\ overlapped' \in BOOLEAN
        /\ MaxSets \in Nat
    BY DEF AccountsInv, AccountsTypeOK
  <2>1. ASSUME NEW r \in Requests, guardLastOwner(r) PROVE OwnerInv'
    <3>1. /\ UNCHANGED <<role, disabled, codeSet>> /\ request[r].on \in Users
          /\ request[r].line = "guard" /\ request[r] \in RequestType
      BY <2>0, <2>1 DEF guardLastOwner, RequestShape, AtLine
    <3>2. CASE Done(r) /\ UNCHANGED overlapped
      <4>1. \A s \in Requests : Dangerous(s)' => Dangerous(s) /\ request'[s] = request[s]
        BY <2>0, <3>2 DEF Dangerous, AtLine, Done, Idle
      <4> QED BY <3>1, <3>2, <4>1, OwnersRemain DEF ActiveOwners
    <3>3. CASE /\ ~IsLastOwner(request[r].on) /\ To(r, "update")
               /\ overlapped' = (overlapped \/ \E s \in Requests \ {r} : AtLine(s, Changes, "update"))
      <4>1. /\ \A s \in Requests \ {r} : request'[s] = request[s]
            /\ request'[r].on = request[r].on
        BY <2>0, <3>1, <3>3 DEF To, RequestType
      <4>2. \A s \in Requests \ {r} : Dangerous(s)' => AtLine(s, Changes, "update")
        BY <4>1 DEF Dangerous, AtLine, Changes
      <4>3. \A u \in Users : codeSet'[u] = 0 => role'[u] = "none"
        BY <3>1 DEF OwnerInv
      <4>4. ActiveOwners' = ActiveOwners
        BY <3>1 DEF ActiveOwners
      <4> SUFFICES ASSUME ~overlapped'
                   PROVE  /\ ActiveOwners # {}
                          /\ \A s \in Requests : Dangerous(s)' => s = r
                          /\ ActiveOwners \ {request[r].on} # {}
        BY <4>1, <4>3, <4>4 DEF OwnerInv
      <4>5. ~overlapped /\ ActiveOwners # {} /\ \A s \in Requests : Dangerous(s)' => s = r
        BY <2>0, <3>3, <4>2 DEF OwnerInv
      <4> QED BY <3>1, <3>3, <4>5, GuardLeavesOwner
    <3> QED BY <2>1, <3>2, <3>3 DEF guardLastOwner
  <2>2. ASSUME NEW r \in Requests, RequestStep(r), ~guardLastOwner(r),
               ActiveOwners \subseteq ActiveOwners', overlapped => overlapped',
               \A u \in Users : codeSet'[u] = 0 => codeSet[u] = 0 /\ role'[u] = role[u]
        PROVE  OwnerInv'
    BY <2>2, DangerFromGuard, OwnersRemain
  <2>3. ASSUME NEW r \in Requests, RequestStep(r), ~guardLastOwner(r), Dangerous(r),
               ActiveOwners \ {request[r].on} \subseteq ActiveOwners', overlapped' = overlapped,
               \A u \in Users : codeSet'[u] = 0 => codeSet[u] = 0 /\ role'[u] \in {role[u], "none"}
        PROVE  OwnerInv'
    <3>1. \A s \in Requests : Dangerous(s)' => s # r /\ Dangerous(s) /\ request'[s] = request[s]
      BY <2>3, DangerFromGuard
    <3> QED BY <2>3, <3>1 DEF OwnerInv
  <2>4. ASSUME NEW r \in Requests, UpdateUser(r) PROVE OwnerInv'
    <3>1. /\ RequestStep(r) /\ ~guardLastOwner(r) /\ UNCHANGED <<codeSet, overlapped>>
          /\ request[r].on \in Users
          /\ request[r].verb \in {"role", "disable", "enable"} /\ request[r].line = "update"
      BY <2>0, <2>4 DEF RequestStep, UpdateUser, guardLastOwner, AtLine, RequestShape, Changes
    <3>2. \A u \in Users : codeSet'[u] = 0 => codeSet[u] = 0 /\ role'[u] = role[u]
      BY <2>0, <2>4, <3>1 DEF UpdateUser, OwnerInv
    <3>3. CASE Dangerous(r)
      <4>1. ActiveOwners \ {request[r].on} \subseteq ActiveOwners'
        BY <2>0, <2>4, <3>1 DEF UpdateUser, ActiveOwners
      <4> QED BY <2>3, <3>1, <3>2, <3>3, <4>1
    <3>4. CASE ~Dangerous(r)
      <4>1. request[r].verb = "enable" \/ (request[r].verb = "role" /\ request[r].want = "owner")
        BY <3>1, <3>4 DEF Dangerous, AtLine
      <4>2. ActiveOwners \subseteq ActiveOwners'
        BY <2>0, <2>4, <3>1, <4>1 DEF UpdateUser, ActiveOwners
      <4> QED BY <2>2, <3>1, <3>2, <4>2
    <3> QED BY <3>3, <3>4
  <2>5. ASSUME NEW u \in Users, RemoveRow(u)
        PROVE  /\ ActiveOwners \ {u} \subseteq ActiveOwners'
               /\ u \notin ActiveOwners => ActiveOwners \subseteq ActiveOwners'
               /\ \A v \in Users : role'[v] \in {role[v], "none"}
    BY <2>0, <2>5 DEF RemoveRow, ActiveOwners
  <2>6. ASSUME NEW r \in Requests, DeleteUser(r) PROVE OwnerInv'
    <3>1. /\ RequestStep(r) /\ ~guardLastOwner(r) /\ UNCHANGED <<codeSet, overlapped>>
          /\ request[r].on \in Users /\ Dangerous(r)
      BY <2>0, <2>6 DEF RequestStep, DeleteUser, guardLastOwner, AtLine, RequestShape, Changes, Dangerous
    <3>2. RemoveRow(request[r].on) \/ UNCHANGED <<role, disabled>>
      BY <2>6 DEF DeleteUser
    <3>3. /\ ActiveOwners \ {request[r].on} \subseteq ActiveOwners'
          /\ \A v \in Users : role'[v] \in {role[v], "none"}
      BY <2>5, <3>1, <3>2 DEF ActiveOwners
    <3> QED BY <2>3, <3>1, <3>3
  <2>7. ASSUME NEW r \in Requests, ConsumeInvitation(r) PROVE OwnerInv'
    <3>1. /\ RequestStep(r) /\ ~guardLastOwner(r) /\ UNCHANGED codeSet /\ request[r].on \in Users
      BY <2>0, <2>7 DEF RequestStep, ConsumeInvitation, guardLastOwner, AtLine, RequestShape, Changes
    <3>2. CASE StillOpen(request[r].item)
      <4>1. UNCHANGED <<role, disabled, overlapped>>
        BY <2>7, <3>2 DEF ConsumeInvitation
      <4> QED BY <2>2, <3>1, <4>1 DEF ActiveOwners
    <3>3. CASE ~StillOpen(request[r].item)
      <4>1. RemoveRow(request[r].on) /\ overlapped' = (overlapped \/ request[r].on \in ActiveOwners)
        BY <2>7, <3>3 DEF ConsumeInvitation
      <4>2. \A u \in Users : codeSet'[u] = 0 => codeSet[u] = 0 /\ role'[u] = role[u]
        BY <2>5, <3>1, <4>1 DEF OwnerInv
      <4>3. CASE request[r].on \in ActiveOwners
        BY <2>0, <3>1, <4>1, <4>2, <4>3 DEF OwnerInv
      <4>4. CASE request[r].on \notin ActiveOwners
        BY <2>2, <2>5, <3>1, <4>1, <4>2, <4>4
      <4> QED BY <4>3, <4>4
    <3> QED BY <3>2, <3>3
  <2>8. ASSUME NEW r \in Requests, CreateUser(r) PROVE OwnerInv'
    <3>1. RequestStep(r) /\ ~guardLastOwner(r) /\ UNCHANGED <<disabled, overlapped>>
      BY <2>0, <2>8 DEF RequestStep, CreateUser, guardLastOwner, AtLine, Changes
    <3>2. CASE UNCHANGED <<role, codeSet>>
      BY <2>2, <3>1, <3>2 DEF ActiveOwners
    <3>3. ASSUME NEW u \in Users, codeSet[u] = 0, role' = [role EXCEPT ![u] = request[r].want],
                 codeSet' = [codeSet EXCEPT ![u] = 1]
          PROVE  OwnerInv'
      <4>1. codeSet'[u] = 1 /\ \A v \in Users \ {u} : role'[v] = role[v] /\ codeSet'[v] = codeSet[v]
        BY <2>0, <3>3
      <4>2. u \notin ActiveOwners
        BY <3>3 DEF OwnerInv, ActiveOwners
      <4>3. ActiveOwners \subseteq ActiveOwners'
        BY <3>1, <4>1, <4>2 DEF ActiveOwners
      <4> QED BY <2>2, <3>1, <4>1, <4>3
    <3> QED BY <2>8, <3>2, <3>3 DEF CreateUser
  <2>9. ASSUME NEW r \in Requests, ReplaceRecoveryCodes(r) PROVE OwnerInv'
    <3>1. /\ RequestStep(r) /\ ~guardLastOwner(r) /\ UNCHANGED <<role, disabled, overlapped>>
          /\ request[r].on \in Users
      BY <2>0, <2>9 DEF RequestStep, ReplaceRecoveryCodes, guardLastOwner, AtLine, Changes, RequestShape
    <3>2. \A u \in Users : codeSet'[u] = 0 => codeSet[u] = 0
      BY <2>0, <2>9, <3>1 DEF ReplaceRecoveryCodes
    <3> QED BY <2>2, <3>1, <3>2 DEF ActiveOwners
  <2>10. ASSUME NEW r \in Requests, RequestStep(r),
                ~(guardLastOwner(r) \/ UpdateUser(r) \/ DeleteUser(r) \/ ConsumeInvitation(r)
                  \/ CreateUser(r) \/ ReplaceRecoveryCodes(r))
         PROVE  OwnerInv'
    <3>1. UNCHANGED <<role, disabled, codeSet, overlapped>>
      BY <2>10 DEF RequestStep, handleUserRole, handleUserDisable, handleUserDelete, AskChange,
                   userSetDisabled, takeAccountAction, Login, CheckInvitation, consumeRecoveryCode
    <3> QED BY <2>2, <2>10, <3>1 DEF ActiveOwners
  <2>11. CASE OtherStep
    <3>1. UNCHANGED <<role, disabled, codeSet, overlapped>>
      BY <2>11 DEF OtherStep, CreateInvitation, RevokeInvitation, Crash
    <3>2. request' = request \/ \A s \in Requests : request'[s] = Idle
      BY <2>11 DEF OtherStep, CreateInvitation, RevokeInvitation, Crash
    <3>3. \A s \in Requests : Dangerous(s)' => Dangerous(s) /\ request'[s] = request[s]
      BY <3>2 DEF Dangerous, AtLine, Idle
    <3> QED BY <3>1, <3>3, OwnersRemain DEF ActiveOwners
  <2>12. CASE UNCHANGED accountVars
    <3>1. UNCHANGED <<role, disabled, codeSet, overlapped, request>>
      BY <2>12 DEF accountVars
    <3> QED BY <3>1, OwnersRemain DEF ActiveOwners, Dangerous, AtLine
  <2> QED BY <2>1, <2>4, <2>6, <2>7, <2>8, <2>9, <2>10, <2>11, <2>12, AccountsNextSplits
<1>3. AccountsInv /\ OwnerInv => OwnerLossNeedsOverlap
  BY DEF OwnerInv, OwnerLossNeedsOverlap
<1> QED BY <1>1, <1>2, <1>3, AccountsTypeCorrect, PTL DEF AccountsSpec
-----------------------------------------------------------------------------
(* Bots: no update is lost *)

\* What the row and a TelegramCommandState are, as far as updates go.
RowShape ==
    /\ DOMAIN row = {"id", "tok", "first"} /\ row.id \in Nat /\ created \in Nat
    /\ row.id # 0 => row.tok \in Tokens
    /\ cursor # None => cursor \in Nat /\ row.id # 0
Handling == {"observe", "command", "advance"}
PollShape ==
    poll # Resting =>
        /\ {"pc", "id", "tok", "last", "init"} \subseteq DOMAIN poll
        /\ poll.pc \in Handling \cup {"fetch", "initialize"}
        /\ poll.id # 0 /\ poll.tok \in Tokens /\ poll.last \in Nat
        /\ poll.pc \in Handling =>
               {"at", "end"} \subseteq DOMAIN poll /\ poll.at \in Nat \ {0}
UpdatesShape ==
    /\ RowShape /\ PollShape
    /\ confirmed \in [Tokens -> Nat] /\ done \in [Tokens -> SUBSET Nat]

\* The updates of a token up to n are dealt with, if nothing crossed it.
HandledUpTo(t, n) == t \in crossed \/ 1..n \subseteq done[t]

\* What is handled where: what was confirmed, what is stored, and what a poll
\* is about to confirm or to store.
UpdatesInv ==
    /\ UpdatesShape
    /\ \A t \in Tokens : HandledUpTo(t, confirmed[t])
    /\ cursor # None => HandledUpTo(row.tok, cursor)
    /\ poll # Resting =>
           /\ HandledUpTo(poll.tok, poll.last)
           /\ poll.pc \in {"observe", "command"} => HandledUpTo(poll.tok, poll.at - 1)
           /\ poll.pc = "advance" => HandledUpTo(poll.tok, poll.at)

\* The transactions that change destinations leave the row and its token.
RowKept == DOMAIN row' = DOMAIN row /\ row'.id = row.id /\ row'.tok = row.tok
LEMMA StoreKeepsRow ==
    ASSUME RowShape, NEW id, NEW c,
           \/ ForgetDiscovered(id, c) \/ MergeDiscovered(id, c) \/ setProviderDestination(id, c)
           \/ disconnectProviderDestination(id, c) \/ Quiet
    PROVE  RowKept
BY DEF RowShape, RowKept, ForgetDiscovered, MergeDiscovered, setProviderDestination,
       disconnectProviderDestination, Quiet, WriteDestinations

\* A step that touches neither cursor nor poll nor what is confirmed.
LEMMA UpdatesRest ==
    ASSUME UpdatesInv, RowKept, UNCHANGED <<created, cursor, confirmed, poll, done, crossed>>
    PROVE  UpdatesInv'
BY DEF UpdatesInv, UpdatesShape, RowShape, PollShape, RowKept, HandledUpTo

\* A poll that ends, or is given up.
LEMMA PollEnds ==
    ASSUME UpdatesInv, UNCHANGED <<row, created, cursor, confirmed, done, crossed>>, poll' = Resting
    PROVE  UpdatesInv'
BY DEF UpdatesInv, UpdatesShape, RowShape, PollShape, HandledUpTo

\* The poll deals with an update: what was handled stays handled, and it too.
LEMMA PastHandles ==
    ASSUME UpdatesInv, poll # Resting, poll.pc \in Handling, Past, UNCHANGED crossed
    PROVE  /\ done' \in [Tokens -> SUBSET Nat]
           /\ \A t \in Tokens, n \in Nat : HandledUpTo(t, n) => HandledUpTo(t, n)'
           /\ HandledUpTo(poll.tok, poll.at - 1) =>
                  poll.tok \in crossed' \/ 1..poll.at \subseteq done'[poll.tok]
<1>1. /\ poll.tok \in Tokens /\ poll.at \in Nat \ {0} /\ done \in [Tokens -> SUBSET Nat]
      /\ done' = [done EXCEPT ![poll.tok] = @ \cup {poll.at}]
  BY DEF UpdatesInv, UpdatesShape, PollShape, Past
<1>2. /\ done' \in [Tokens -> SUBSET Nat]
      /\ \A t \in Tokens : done[t] \subseteq done'[t]
      /\ done'[poll.tok] = done[poll.tok] \cup {poll.at}
  BY <1>1
<1>3. \A n \in 1..poll.at : n \in 1..(poll.at - 1) \/ n = poll.at
  BY <1>1
<1> QED BY <1>1, <1>2, <1>3 DEF HandledUpTo

\* The inductive invariant holds of every step of the poll and of the page.
LEMMA PollStepHandles ==
    ASSUME UpdatesInv,
           TelegramCommandBots \/ telegramCommandUpdates \/ PollFails \/ AdvanceTelegramUpdate
               \/ InitializeTelegramUpdates
    PROVE  UpdatesInv'
<1> USE DEF store, telegram, history
<1>0. /\ UpdatesShape /\ RowShape /\ PollShape
      /\ confirmed \in [Tokens -> Nat] /\ done \in [Tokens -> SUBSET Nat]
      /\ \A t \in Tokens : HandledUpTo(t, confirmed[t])
      /\ cursor # None => HandledUpTo(row.tok, cursor)
      /\ Resting.pc = "idle"
  BY DEF UpdatesInv, UpdatesShape, Resting
<1>1. CASE TelegramCommandBots
  <2>1. /\ poll' = [pc |-> "fetch", id |-> row.id, tok |-> row.tok,
                    last |-> AtLeast0(cursor), init |-> cursor # None]
        /\ UNCHANGED <<row, created, cursor, confirmed, done, crossed>> /\ row.id # 0
    BY <1>1 DEF TelegramCommandBots
  <2>2. AtLeast0(cursor) \in Nat /\ HandledUpTo(row.tok, AtLeast0(cursor))
    BY <1>0 DEF AtLeast0, RowShape, HandledUpTo
  <2>3. PollShape'
    BY <1>0, <2>1, <2>2 DEF PollShape, RowShape, Handling
  <2> QED BY <1>0, <2>1, <2>2, <2>3 DEF UpdatesInv, UpdatesShape, RowShape, HandledUpTo
<1>2. CASE telegramCommandUpdates
  <2> DEFINE upto == Larger(confirmed[poll.tok], poll.last)
  <2>1. /\ poll # Resting /\ poll.pc = "fetch" /\ poll.tok \in Tokens
        /\ HandledUpTo(poll.tok, poll.last) /\ poll.last \in Nat
    BY <1>0, <1>2 DEF telegramCommandUpdates, UpdatesInv, PollShape
  <2>2. upto \in Nat /\ HandledUpTo(poll.tok, upto)
    BY <1>0, <2>1 DEF Larger
  <2>3. UNCHANGED <<row, created, cursor, done, crossed>>
        /\ confirmed' = [confirmed EXCEPT ![poll.tok] = upto]
    BY <1>2 DEF telegramCommandUpdates
  <2>4. PICK end : poll' \in {NoBatch,
             [pc |-> "observe", id |-> poll.id, tok |-> poll.tok, last |-> poll.last,
              init |-> poll.init, at |-> upto + 1, end |-> end]}
    BY <1>2 DEF telegramCommandUpdates
  <2> HIDE DEF upto
  <2>5. /\ confirmed' \in [Tokens -> Nat]
        /\ \A t \in Tokens : HandledUpTo(t, confirmed'[t])
    BY <1>0, <2>1, <2>2, <2>3
  <2>6. /\ RowShape' /\ (cursor' # None => HandledUpTo(row.tok, cursor)')
        /\ \A t \in Tokens, n \in Nat : HandledUpTo(t, n) => HandledUpTo(t, n)'
        /\ \A t \in Tokens : HandledUpTo(t, confirmed[t])'
    BY <1>0, <2>3, <2>5 DEF RowShape, HandledUpTo
  <2>7. CASE poll' = Resting
    BY <1>0, <2>3, <2>5, <2>6, <2>7 DEF UpdatesInv, UpdatesShape, PollShape
  <2>8. CASE poll' = [poll EXCEPT !.pc = "initialize"]
    <3>1. /\ DOMAIN poll' = DOMAIN poll /\ poll'.pc = "initialize" /\ poll'.id = poll.id
          /\ poll'.tok = poll.tok /\ poll'.last = poll.last
      BY <1>0, <2>1, <2>8 DEF PollShape
    <3> QED BY <1>0, <2>1, <2>3, <2>5, <2>6, <3>1 DEF UpdatesInv, UpdatesShape, PollShape, Handling
  <2>9. CASE poll' = [pc |-> "observe", id |-> poll.id, tok |-> poll.tok, last |-> poll.last,
                      init |-> poll.init, at |-> upto + 1, end |-> end]
    <3>1. PollShape'
      BY <1>0, <2>1, <2>2, <2>9 DEF PollShape, Handling
    <3>2. poll'.at - 1 = upto /\ poll'.tok = poll.tok /\ poll'.last = poll.last /\ poll'.pc = "observe"
      BY <2>2, <2>9
    <3> QED BY <1>0, <2>1, <2>2, <2>3, <2>5, <2>6, <3>1, <3>2 DEF UpdatesInv, UpdatesShape
  <2> QED BY <2>4, <2>7, <2>8, <2>9 DEF NoBatch
<1>3. CASE PollFails
  BY <1>3, PollEnds DEF PollFails
<1>4. ASSUME NEW c \in Nat, WriteCursor(c), poll # Resting, HandledUpTo(poll.tok, c),
             UNCHANGED <<row, created, confirmed, done>>
      PROVE  /\ RowShape' /\ (cursor' # None => HandledUpTo(row.tok, cursor)')
             /\ \A t \in Tokens, n \in Nat : HandledUpTo(t, n) => HandledUpTo(t, n)'
             /\ \A t \in Tokens : HandledUpTo(t, confirmed[t])'
  <2>1. crossed \subseteq crossed' /\ poll.id # 0
    BY <1>0, <1>4 DEF WriteCursor, PollShape
  <2>2. CASE row.id = poll.id
    <3>1. cursor' = c /\ (row.tok = poll.tok \/ row.tok \in crossed')
      BY <1>4, <2>2 DEF WriteCursor
    <3> QED BY <1>0, <1>4, <2>1, <2>2, <3>1 DEF RowShape, HandledUpTo
  <2>3. CASE row.id # poll.id
    <3>1. cursor' = cursor
      BY <1>4, <2>3 DEF WriteCursor
    <3> QED BY <1>0, <1>4, <2>1, <3>1 DEF RowShape, HandledUpTo
  <2> QED BY <2>2, <2>3
<1>5. CASE AdvanceTelegramUpdate
  <2>1. /\ poll # Resting /\ poll.pc = "advance" /\ poll.tok \in Tokens /\ poll.at \in Nat \ {0}
        /\ HandledUpTo(poll.tok, poll.at) /\ HandledUpTo(poll.tok, poll.last)
        /\ poll.last \in Nat /\ poll.id # 0
        /\ {"pc", "id", "tok", "last", "init", "at", "end"} \subseteq DOMAIN poll
    BY <1>0, <1>5 DEF AdvanceTelegramUpdate, UpdatesInv, PollShape, Handling
  <2> DEFINE c == Larger(AtLeast0(cursor), poll.at)
  <2>2. UNCHANGED <<row, created, confirmed, done>> /\ WriteCursor(c)
    BY <1>5 DEF AdvanceTelegramUpdate
  <2>3. c \in Nat
    BY <1>0, <2>1 DEF Larger, AtLeast0, RowShape
  <2>4. /\ RowShape' /\ (cursor' # None => HandledUpTo(row.tok, cursor)')
        /\ \A t \in Tokens, n \in Nat : HandledUpTo(t, n) => HandledUpTo(t, n)'
        /\ \A t \in Tokens : HandledUpTo(t, confirmed[t])'
    <3>1. CASE HandledUpTo(poll.tok, c)
      BY <1>4, <2>1, <2>2, <2>3, <3>1
    <3>2. CASE ~HandledUpTo(poll.tok, c)
      <4>1. cursor # None /\ c = cursor /\ cursor \in Nat
        BY <1>0, <2>1, <3>2 DEF Larger, AtLeast0, RowShape
      <4>2. row.tok # poll.tok
        BY <1>0, <3>2, <4>1
      <4>3. crossed \subseteq crossed' /\ cursor' = cursor
        BY <2>2, <4>1 DEF WriteCursor
      <4> HIDE DEF c
      <4> QED BY <1>0, <2>2, <4>1, <4>3 DEF RowShape, HandledUpTo
    <3> QED BY <3>1, <3>2
  <2> HIDE DEF c
  <2>5. poll' = Resting \/ poll' = [poll EXCEPT !.pc = "observe", !.at = @ + 1]
    BY <1>5 DEF AdvanceTelegramUpdate
  <2>6. CASE poll' = Resting
    BY <1>0, <2>2, <2>4, <2>6 DEF UpdatesInv, UpdatesShape, PollShape
  <2>7. CASE poll' = [poll EXCEPT !.pc = "observe", !.at = @ + 1]
    <3>1. /\ DOMAIN poll' = DOMAIN poll /\ poll'.pc = "observe" /\ poll'.id = poll.id
          /\ poll'.tok = poll.tok /\ poll'.last = poll.last /\ poll'.at = poll.at + 1
      BY <2>1, <2>7
    <3>2. PollShape'
      BY <2>1, <3>1 DEF PollShape, Handling
    <3> QED BY <1>0, <2>1, <2>2, <2>4, <3>1, <3>2 DEF UpdatesInv, UpdatesShape
  <2> QED BY <2>5, <2>6, <2>7
<1>6. CASE InitializeTelegramUpdates
  <2>1. /\ poll # Resting /\ poll.last \in Nat /\ HandledUpTo(poll.tok, poll.last)
    BY <1>0, <1>6 DEF InitializeTelegramUpdates, UpdatesInv, PollShape
  <2>2. UNCHANGED <<row, created, confirmed, done>> /\ WriteCursor(poll.last) /\ poll' = Resting
    BY <1>6 DEF InitializeTelegramUpdates
  <2> QED BY <1>0, <1>4, <2>1, <2>2 DEF UpdatesInv, UpdatesShape, PollShape
<1> QED BY <1>1, <1>2, <1>3, <1>5, <1>6

\* Observing an update or answering its command.
LEMMA UpdateStepHandles ==
    ASSUME UpdatesInv, Observe \/ \E b \in BOOLEAN : Command(b)
    PROVE  UpdatesInv'
<1> USE DEF store, telegram, history
<1>0. /\ UpdatesShape /\ RowShape /\ PollShape
      /\ confirmed \in [Tokens -> Nat] /\ done \in [Tokens -> SUBSET Nat]
      /\ \A t \in Tokens : HandledUpTo(t, confirmed[t])
      /\ cursor # None => HandledUpTo(row.tok, cursor)
      /\ Resting.pc = "idle"
  BY DEF UpdatesInv, UpdatesShape, Resting
<1>1. /\ poll # Resting /\ poll.pc \in {"observe", "command"} /\ poll.tok \in Tokens
      /\ poll.at \in Nat \ {0} /\ poll.last \in Nat /\ poll.id # 0
      /\ HandledUpTo(poll.tok, poll.at - 1) /\ HandledUpTo(poll.tok, poll.last)
      /\ {"pc", "id", "tok", "last", "init", "at", "end"} \subseteq DOMAIN poll
  BY <1>0 DEF Observe, Command, UpdatesInv, PollShape, Handling
<1>2. UNCHANGED <<created, cursor, confirmed, crossed>>
  BY DEF Observe, Command
<1>3. RowKept
  <2>1. CASE Observe
    <3>1. \/ ForgetDiscovered(poll.id, Update.chat) \/ MergeDiscovered(poll.id, {Update.chat}) \/ Quiet
      BY <2>1 DEF Observe
    <3> QED BY <1>0, <3>1, StoreKeepsRow
  <2>2. ASSUME NEW b \in BOOLEAN, Command(b) PROVE RowKept
    <3>1. \/ Quiet \/ setProviderDestination(poll.id, Update.chat)
          \/ disconnectProviderDestination(poll.id, Update.chat)
      BY <2>2 DEF Command
    <3> QED BY <1>0, <3>1, StoreKeepsRow
  <2> QED BY <2>1, <2>2
<1>4. \/ Past /\ poll' = NextInit
      \/ UNCHANGED done /\ poll' = [poll EXCEPT !.pc = "command"]
      \/ Past /\ poll' = [poll EXCEPT !.pc = "advance"]
  BY DEF Observe, Command
<1>5. CASE UNCHANGED done /\ poll' = [poll EXCEPT !.pc = "command"]
  <2>1. /\ DOMAIN poll' = DOMAIN poll /\ poll'.pc = "command" /\ poll'.id = poll.id
        /\ poll'.tok = poll.tok /\ poll'.last = poll.last /\ poll'.at = poll.at
    BY <1>1, <1>5
  <2>2. PollShape' /\ RowShape'
    BY <1>0, <1>1, <1>2, <1>3, <2>1 DEF PollShape, Handling, RowShape, RowKept
  <2> QED BY <1>0, <1>1, <1>2, <1>3, <1>5, <2>1, <2>2
          DEF UpdatesInv, UpdatesShape, HandledUpTo, RowKept, RowShape
<1>6. CASE Past
  <2>1. /\ done' \in [Tokens -> SUBSET Nat]
        /\ \A t \in Tokens, n \in Nat : HandledUpTo(t, n) => HandledUpTo(t, n)'
        /\ poll.tok \in crossed' \/ 1..poll.at \subseteq done'[poll.tok]
    BY <1>1, <1>2, <1>6, PastHandles DEF Handling
  <2>2. RowShape' /\ (cursor' # None => HandledUpTo(row.tok, cursor)')
        /\ \A t \in Tokens : HandledUpTo(t, confirmed[t])'
    <3>1. RowShape' /\ (cursor' # None => cursor' \in Nat /\ row'.tok \in Tokens /\ row'.tok = row.tok)
      BY <1>0, <1>2, <1>3 DEF RowShape, RowKept
    <3>2. \A t \in Tokens : confirmed'[t] \in Nat /\ confirmed'[t] = confirmed[t]
      BY <1>0, <1>2
    <3> QED BY <1>0, <1>2, <2>1, <3>1, <3>2 DEF HandledUpTo
  <2>3. ASSUME /\ DOMAIN poll' = DOMAIN poll /\ poll'.id = poll.id /\ poll'.tok = poll.tok
               /\ poll'.last \in {poll.last, poll.at}
               /\ \/ poll'.at = poll.at /\ poll'.pc \in {"advance", "initialize"}
                  \/ poll'.at = poll.at + 1 /\ poll'.pc \in Handling \ {"advance"}
        PROVE  UpdatesInv'
    <3>1. PollShape'
      BY <1>1, <2>3 DEF PollShape, Handling
    <3>2. HandledUpTo(poll.tok, poll.last)'
      BY <1>1, <2>1, <2>3 DEF HandledUpTo
    <3>3. /\ poll'.pc \in {"observe", "command"} => HandledUpTo(poll.tok, poll.at - 1)'
          /\ poll'.pc = "advance" => HandledUpTo(poll.tok, poll.at)'
      BY <1>1, <2>1, <2>3 DEF HandledUpTo
    <3> QED BY <1>0, <1>2, <2>1, <2>2, <3>1, <3>2, <3>3 DEF UpdatesInv, UpdatesShape
  <2>4. CASE poll' = [poll EXCEPT !.pc = "advance"]
    BY <1>1, <2>3, <2>4
  <2>5. CASE poll' = NextInit
    <3>1. CASE poll.at = poll.end
      BY <1>1, <2>3, <2>5, <3>1 DEF NextInit
    <3>2. CASE poll.at # poll.end
      <4>1. poll.pc # "advance" /\ poll.pc \in Handling
        BY <1>1 DEF Handling
      <4> QED BY <1>1, <2>3, <2>5, <3>2, <4>1 DEF NextInit
    <3> QED BY <3>1, <3>2
  <2> QED BY <1>4, <1>5, <2>4, <2>5
<1> QED BY <1>4, <1>5, <1>6

\* No update Telegram is told to forget was left unhandled.
THEOREM NoUpdateIsLostHolds == BotsSpec => []NoUpdateIsLost
<1> USE DEF store, telegram, history
<1>1. BotsInit => UpdatesInv
  <2> SUFFICES ASSUME BotsInit PROVE UpdatesInv
    OBVIOUS
  <2>1. RowShape
    BY DEF BotsInit, RowShape, NoBot
  <2>2. poll = Resting /\ cursor = None
    BY DEF BotsInit
  <2>3. /\ confirmed \in [Tokens -> Nat] /\ done \in [Tokens -> SUBSET Nat]
        /\ \A t \in Tokens : confirmed[t] = 0
    BY DEF BotsInit
  <2> QED BY <2>1, <2>2, <2>3 DEF UpdatesInv, UpdatesShape, PollShape, HandledUpTo
<1>2. UpdatesInv /\ [BotsNext]_botVars => UpdatesInv'
  <2> SUFFICES ASSUME UpdatesInv, [BotsNext]_botVars PROVE UpdatesInv'
    OBVIOUS
  <2>0. RowShape
    BY DEF UpdatesInv, UpdatesShape
  <2>1. ASSUME NEW list \in Lists, NEW t \in Tokens, Create(list, t) PROVE UpdatesInv'
    <3>1. /\ row' = [id |-> created + 1, tok |-> t, first |-> First(Chosen(list))]
          /\ created' = created + 1 /\ cursor' \in {0, None}
          /\ UNCHANGED <<confirmed, poll, done, crossed>>
      BY <2>1 DEF Create
    <3>2. RowShape'
      BY <2>0, <3>1 DEF RowShape
    <3> QED BY <3>1, <3>2 DEF UpdatesInv, UpdatesShape, PollShape, HandledUpTo
  <2>2. ASSUME NEW ds, NEW kept, NEW t \in Tokens \cup {None}, Patch(ds, kept, t) PROVE UpdatesInv'
    <3>0. UNCHANGED <<created, confirmed, poll, done, crossed>>
      BY <2>2 DEF Patch
    <3>1. CASE RowKept /\ UNCHANGED cursor
      BY <3>0, <3>1, UpdatesRest
    <3>2. CASE cursor' = None /\ DOMAIN row' = DOMAIN row /\ row'.id = row.id /\ row'.tok = t /\ t # None
      <4>1. RowShape'
        BY <2>0, <3>0, <3>2 DEF RowShape
      <4> QED BY <3>0, <3>2, <4>1 DEF UpdatesInv, UpdatesShape, PollShape, HandledUpTo
    <3> QED BY <2>0, <2>2, <3>1, <3>2 DEF Patch, Quiet, RowKept, RowShape
  <2>3. CASE Delete
    <3>1. RowShape' /\ cursor' = None /\ UNCHANGED <<confirmed, poll, done, crossed>>
      BY <2>0, <2>3 DEF Delete, RowShape, NoBot
    <3> QED BY <3>1 DEF UpdatesInv, UpdatesShape, PollShape, HandledUpTo
  <2>4. CASE PatchReadsRow \/ PatchReadsDestinations \/ DiscoverExisting \/ telegramDiscovery
    <3>1. UNCHANGED <<created, cursor, confirmed, poll, done, crossed>>
      BY <2>4 DEF PatchReadsRow, PatchReadsDestinations, DiscoverExisting, telegramDiscovery
    <3>2. RowKept
      BY <2>0, <2>4, StoreKeepsRow
      DEF PatchReadsRow, PatchReadsDestinations, DiscoverExisting, telegramDiscovery, RowKept
    <3> QED BY <3>1, <3>2, UpdatesRest
  <2>5. ASSUME NEW t \in Tokens, NEW c \in Chats, NEW what \in Kinds, Happens(t, c, what)
        PROVE  UpdatesInv'
    BY <2>5, UpdatesRest DEF Happens, RowKept
  <2>6. CASE DiscordNext
    <3>1. UNCHANGED <<created, cursor, confirmed, poll, done, crossed>>
      BY <2>6 DEF DiscordNext, GuildCreate, GuildDelete, LeaveUnseen, handleDiscordInteraction, Discord
    <3>2. RowKept
      BY <2>0, <2>6, StoreKeepsRow
      DEF DiscordNext, GuildCreate, GuildDelete, LeaveUnseen, handleDiscordInteraction
    <3> QED BY <3>1, <3>2, UpdatesRest
  <2>7. CASE Die
    BY <2>7, PollEnds DEF Die
  <2>8. CASE UNCHANGED botVars
    BY <2>8, UpdatesRest DEF botVars, RowKept
  <2>9. CASE PageNext
    BY <2>1, <2>2, <2>3, <2>4, <2>9 DEF PageNext
  <2>10. CASE TelegramNext
    BY <2>5, <2>10, PollStepHandles, UpdateStepHandles DEF TelegramNext
  <2> QED BY <2>6, <2>7, <2>8, <2>9, <2>10 DEF BotsNext
<1>3. UpdatesInv => NoUpdateIsLost
  BY DEF UpdatesInv, NoUpdateIsLost, HandledUpTo
<1> QED BY <1>1, <1>2, <1>3, PTL DEF BotsSpec
-----------------------------------------------------------------------------
(* Bots: what is left stays out *)

\* The least of some naturals.
LEMMA LeastNatural ==
    ASSUME NEW T \in SUBSET Nat, T # {}
    PROVE  \E x \in T : \A y \in T : x <= y
<1> DEFINE less == {ss \in Nat \X Nat : ss[1] < ss[2]}
<1>1. IsWellFoundedOn(less, Nat)
  BY NatLessThanWellFounded DEF OpToRel
<1> HIDE DEF less
<1>2. PICK x \in T : \A y \in T : ~(<<y, x>> \in less)
  BY <1>1, WFMin
<1>3. \A y \in T : ~(y < x)
  BY <1>2 DEF less
<1> QED BY <1>3

Elements(ds) == {ds[i] : i \in 1..Len(ds)}
Listed(ds) == ds \in Seq(Elements(ds))

LEMMA SequencesAreListed == ASSUME NEW S, NEW ds \in Seq(S) PROVE Listed(ds) /\ Elements(ds) \subseteq S
BY DEF Listed, Elements

LEMMA AppendListed ==
    ASSUME NEW ds, Listed(ds), NEW d
    PROVE  Listed(Append(ds, d)) /\ Elements(Append(ds, d)) = Elements(ds) \cup {d}
<1> DEFINE S == Elements(ds) \cup {d}
<1>1. ds \in Seq(S)
  BY DEF Listed
<1>2. /\ Append(ds, d) \in Seq(S) /\ Len(Append(ds, d)) = Len(ds) + 1 /\ Len(ds) \in Nat
      /\ \A i \in 1..Len(ds) : Append(ds, d)[i] = ds[i]
      /\ Append(ds, d)[Len(ds) + 1] = d
  <2> HIDE DEF S
  <2>1. d \in S
    BY DEF S
  <2> QED BY <1>1, <2>1, AppendProperties, LenProperties
<1>3. Elements(Append(ds, d)) = Elements(ds) \cup {d}
  <2>1. \A i : i \in 1..(Len(ds) + 1) <=> i \in 1..Len(ds) \/ i = Len(ds) + 1
    BY <1>2
  <2> QED BY <1>2, <2>1 DEF Elements
<1> QED BY <1>2, <1>3, SequencesAreListed

\* A step of At, and what a function that takes them all is.
Stepped(ds, places, at, n) ==
    IF n = 0 THEN <<>> ELSE IF n \in places THEN Append(at[n-1], ds[n]) ELSE at[n-1]

LEMMA StepsExist ==
    ASSUME NEW ds, NEW places, NEW N \in Nat
    PROVE  \E at : at = [n \in 0..N |-> Stepped(ds, places, at, n)]
<1> DEFINE Steps(m, at) == at = [n \in 0..m |-> Stepped(ds, places, at, n)]
           Never == {m \in Nat : ~ \E at : Steps(m, at)}
<1>1. ASSUME Never # {} PROVE FALSE
  <2>1. PICK m \in Never : \A k \in Never : m <= k
    <3>1. Never \in SUBSET Nat
      OBVIOUS
    <3> HIDE DEF Never
    <3> QED BY <1>1, <3>1, LeastNatural
  <2>2. CASE m = 0
    <3>1. Steps(0, [n \in 0..0 |-> <<>>])
      <4> DEFINE at == [n \in 0..0 |-> <<>>]
      <4>1. \A n \in 0..0 : n = 0
        OBVIOUS
      <4>2. \A n \in 0..0 : Stepped(ds, places, at, n) = <<>>
        BY <4>1 DEF Stepped
      <4> HIDE DEF Steps
      <4>3. at = [n \in 0..0 |-> Stepped(ds, places, at, n)]
        BY <4>2
      <4> QED BY <4>3 DEF Steps
    <3> QED BY <2>2, <3>1
  <2>3. CASE m # 0
    <3>1. m \in Nat /\ m - 1 \in Nat /\ m - 1 \notin Never
      BY <2>1, <2>3
    <3>2. PICK at : Steps(m - 1, at)
      BY <3>1
    <3> DEFINE more == [n \in 0..m |-> Stepped(ds, places, at, n)]
    <3>3. ASSUME NEW n \in 0..m PROVE Stepped(ds, places, more, n) = Stepped(ds, places, at, n)
      <4>1. CASE n = 0
        BY <4>1 DEF Stepped
      <4>2. CASE n # 0
        <5>1. n - 1 \in 0..(m - 1) /\ n - 1 \in 0..m
          BY <3>1, <3>3, <4>2
        <5>2. at[n - 1] = Stepped(ds, places, at, n - 1)
          BY <3>2, <5>1
        <5>3. more[n - 1] = at[n - 1]
          BY <5>1, <5>2
        <5> HIDE DEF more
        <5> QED BY <5>3 DEF Stepped
      <4> QED BY <4>1, <4>2
    <3>4. Steps(m, more)
      <4>1. more = [n \in 0..m |-> Stepped(ds, places, more, n)]
        BY <3>3
      <4> QED BY <4>1
    <3> HIDE DEF Steps, more
    <3> QED BY <2>1, <3>4
  <2> QED BY <2>2, <2>3
<1> QED BY <1>1

\* The elements of At are those at its places.
LEMMA AtElements ==
    ASSUME NEW ds, Listed(ds), NEW places
    PROVE  /\ Listed(At(ds, places))
           /\ Elements(At(ds, places)) \subseteq Elements(ds)
           /\ \A d \in Elements(At(ds, places)) : \E i \in places \cap 1..Len(ds) : d = ds[i]
<1> DEFINE at == CHOOSE f : f = [n \in 0..Len(ds) |-> Stepped(ds, places, f, n)]
           Allowed == {ds[i] : i \in places \cap 1..Len(ds)}
<1>1. At(ds, places) = at[Len(ds)]
  BY DEF At, Stepped
<1>2. Len(ds) \in Nat
  BY DEF Listed
<1>3. at = [n \in 0..Len(ds) |-> Stepped(ds, places, at, n)]
  BY <1>2, StepsExist
<1> HIDE DEF at
<1> DEFINE Wrong == {n \in 0..Len(ds) : at[n] \notin Seq(Allowed)}
<1>4. ASSUME Wrong # {} PROVE FALSE
  <2>1. PICK n \in Wrong : \A k \in Wrong : n <= k
    <3>1. Wrong \in SUBSET Nat
      BY <1>2
    <3> HIDE DEF Wrong
    <3> QED BY <1>4, <3>1, LeastNatural
  <2>2. CASE n = 0
    <3>1. at[n] = <<>>
      BY <1>2, <1>3, <2>2 DEF Stepped
    <3>2. <<>> \in Seq(Allowed)
      <4> HIDE DEF Allowed
      <4> QED BY EmptySeq
    <3> QED BY <2>1, <3>1, <3>2
  <2>3. CASE n # 0
    <3>1. n - 1 \in 0..Len(ds) /\ n - 1 \notin Wrong /\ n \in 1..Len(ds)
      BY <1>2, <2>1, <2>3
    <3>2. at[n - 1] \in Seq(Allowed)
      BY <3>1
    <3>3. at[n] = IF n \in places THEN Append(at[n - 1], ds[n]) ELSE at[n - 1]
      BY <1>3, <2>1, <2>3 DEF Stepped
    <3>4. n \in places => ds[n] \in Allowed
      BY <3>1
    <3> HIDE DEF Allowed
    <3>5. at[n] \in Seq(Allowed)
      BY <3>2, <3>3, <3>4, AppendProperties
    <3> QED BY <2>1, <3>5
  <2> QED BY <2>2, <2>3
<1>5. At(ds, places) \in Seq(Allowed)
  <2>1. Len(ds) \in 0..Len(ds)
    BY <1>2
  <2> QED BY <1>1, <1>4, <2>1
<1> HIDE DEF Allowed
<1>6. Listed(At(ds, places)) /\ Elements(At(ds, places)) \subseteq Allowed
  BY <1>5, SequencesAreListed
<1>7. /\ Allowed \subseteq Elements(ds)
      /\ \A d \in Allowed : \E i \in places \cap 1..Len(ds) : d = ds[i]
  BY DEF Allowed, Elements
<1> QED BY <1>6, <1>7

Proper(d) == d = Destination(d.id)
Sound(ds) ==
    /\ Listed(ds)
    /\ \A d \in Elements(ds) : Proper(d) \/ d.guild = None
    /\ \A d, e \in Elements(ds) : d.id = e.id => d = e

\* Destinations are what a chat or a command makes them, or the legacy one of
\* which no server is known; what a patch read is of the same kind, and what it
\* has in common with the store is the same or was made anew since.
StoreSound ==
    /\ Sound(dests) /\ (page.pc = "commit" => Sound(page.ds))
    /\ page.pc = "commit" =>
           \A d \in Elements(page.ds), e \in Elements(dests) : d.id = e.id => d = e \/ Proper(e)
    /\ provider = "discord" => poll = Resting /\ None \notin gone
OutInv == StoreSound /\ LeftStaysOut

LEMMA Remains ==
    LeftStaysOut <=> \A d \in Elements(dests) : Container(d) \in gone => d.id \in revived
BY DEF LeftStaysOut, Elements

LEMMA DestinationProper == \A c : Proper(Destination(c)) /\ Destination(c).id = c
BY DEF Proper, Destination

LEMMA AtSound == ASSUME NEW ds, Sound(ds), NEW places PROVE Sound(At(ds, places))
<1>1. Listed(At(ds, places)) /\ Elements(At(ds, places)) \subseteq Elements(ds)
  BY AtElements DEF Sound
<1> QED BY <1>1 DEF Sound

LEMMA ChosenSound ==
    ASSUME NEW list \in Lists
    PROVE  /\ Sound(Chosen(list))
           /\ \A d \in Elements(Chosen(list)) : Proper(d)
<1>1. Len(list) \in Nat
  BY BotsAssumption DEF Lists
<1>2. Listed(Chosen(list)) /\ \A d \in Elements(Chosen(list)) : \E c : d = Destination(c)
  BY <1>1 DEF Chosen, Listed, Elements
<1> QED BY <1>2, DestinationProper DEF Sound

LEMMA PlacedSound ==
    ASSUME NEW ds, Sound(ds), NEW c
    PROVE  /\ Sound(Placed(ds, Destination(c)))
           /\ \A e \in Elements(Placed(ds, Destination(c))) : e \in Elements(ds) \/ e = Destination(c)
<1> DEFINE d == Destination(c)
<1>0. d.id = c /\ Proper(d)
  BY DestinationProper
<1> HIDE DEF d
<1>1. CASE c \in Ids(ds)
  <2>1. Placed(ds, d) = [i \in 1..Len(ds) |-> IF ds[i].id = c THEN d ELSE ds[i]]
    BY <1>0, <1>1 DEF Placed
  <2>2. Len(ds) \in Nat
    BY DEF Sound, Listed
  <2>3. Listed(Placed(ds, d)) /\ \A e \in Elements(Placed(ds, d)) : e = d \/ (e \in Elements(ds) /\ e.id # c)
    <3> DEFINE S == {e \in Elements(ds) : e.id # c} \cup {d}
    <3>1. \A i \in 1..Len(ds) : (IF ds[i].id = c THEN d ELSE ds[i]) \in S
      BY DEF Elements
    <3>2. Placed(ds, d) \in Seq(S)
      <4> HIDE DEF S
      <4> QED BY <2>1, <2>2, <3>1
    <3>3. Listed(Placed(ds, d)) /\ Elements(Placed(ds, d)) \subseteq S
      <4> HIDE DEF S
      <4> QED BY <3>2, SequencesAreListed
    <3>4. \A e \in S : e = d \/ (e \in Elements(ds) /\ e.id # c)
      OBVIOUS
    <3> HIDE DEF S
    <3> QED BY <3>3, <3>4
  <2> QED BY <1>0, <2>3 DEF Sound, d
<1>2. CASE c \notin Ids(ds)
  <2>1. Placed(ds, d) = Append(ds, d)
    BY <1>0, <1>2 DEF Placed
  <2>2. Listed(Placed(ds, d)) /\ Elements(Placed(ds, d)) = Elements(ds) \cup {d}
    BY <2>1, AppendListed DEF Sound
  <2>3. \A e \in Elements(ds) : e.id # c
    BY <1>2 DEF Elements, Ids
  <2> QED BY <1>0, <2>2, <2>3 DEF Sound, d
<1> QED BY <1>1, <1>2

\* A step that writes destinations: each was there before or is made anew.
LEMMA Writes ==
    ASSUME OutInv, NEW new, Sound(new), dests' = new, UNCHANGED provider,
           page' = page \/ page' = Resting,
           provider = "discord" => poll' = Resting /\ None \notin gone',
           \A d \in Elements(new) :
               \/ d \in Elements(dests) /\ (Container(d) \in gone' => Container(d) \in gone /\ revived \subseteq revived')
               \/ Proper(d) /\ Container(d) \notin gone'
    PROVE  OutInv'
<1> USE DEF Proper, Destination, Container
<1>1. Sound(dests)'
  BY DEF Sound, Listed, Elements
<1>2. (\A d \in Elements(dests) : Container(d) \in gone => d.id \in revived)'
  BY Remains DEF OutInv, Elements
<1>3. LeftStaysOut'
  BY <1>2 DEF LeftStaysOut, Elements
<1>4. CASE page' = Resting
  <2>1. page'.pc # "commit"
    BY <1>4 DEF Resting
  <2> QED BY <1>1, <1>3, <2>1 DEF OutInv, StoreSound
<1>5. CASE page' = page
  <2>1. (page.pc = "commit" => Sound(page.ds))'
    BY <1>5 DEF OutInv, StoreSound, Sound, Listed, Elements
  <2>2. ASSUME page.pc = "commit", NEW d \in Elements(page.ds), NEW e \in Elements(new), d.id = e.id
        PROVE  d = e \/ Proper(e)
    BY <2>2 DEF OutInv, StoreSound
  <2>3. (page.pc = "commit" =>
           \A d \in Elements(page.ds), e \in Elements(dests) : d.id = e.id => d = e \/ Proper(e))'
    BY <1>5, <2>2 DEF Elements
  <2> QED BY <1>1, <1>3, <2>1, <2>3 DEF OutInv, StoreSound
<1> QED BY <1>4, <1>5

\* A step that writes none.
LEMMA Spares ==
    ASSUME OutInv, UNCHANGED <<provider, dests>>, page' = page \/ page' = Resting,
           provider = "discord" => poll' = Resting,
           gone' \subseteq gone, revived \subseteq revived'
    PROVE  OutInv'
<1>1. Sound(dests) /\ (provider = "discord" => None \notin gone')
  BY DEF OutInv, StoreSound
<1> QED BY <1>1, Writes

\* The transactions of the store, of the poller and of the gateway alike.
LEMMA StoreWrites ==
    ASSUME OutInv, UNCHANGED provider, page' = page \/ page' = Resting,
           provider = "discord" => poll' = Resting,
           NEW id, NEW c,
           \/ ForgetDiscovered(id, c) /\ (provider = "discord" => c # None)
           \/ setProviderDestination(id, c) \/ disconnectProviderDestination(id, c)
           \/ Quiet
    PROVE  OutInv'
<1>0. Sound(dests) /\ (provider = "discord" => None \notin gone)
  BY DEF OutInv, StoreSound
<1>1. CASE Quiet
  BY <1>1, Spares DEF Quiet
<1>2. CASE ForgetDiscovered(id, c) /\ (provider = "discord" => c # None) /\ ~Quiet
  <2>1. dests' = Without(dests, c) /\ gone' = gone \cup {c} /\ revived' = revived
    BY <1>2 DEF ForgetDiscovered, WriteDestinations
  <2>2. Sound(Without(dests, c))
    BY <1>0, AtSound DEF Without
  <2>3. \A d \in Elements(Without(dests, c)) : d \in Elements(dests) /\ Container(d) # c
    <3> DEFINE places == {i \in 1..Len(dests) : Container(dests[i]) # c}
    <3>1. Without(dests, c) = At(dests, places)
      BY DEF Without
    <3>2. \A i \in places : Container(dests[i]) # c
      OBVIOUS
    <3> HIDE DEF places
    <3> QED BY <1>0, <3>1, <3>2, AtElements DEF Sound
  <2> QED BY <1>0, <1>2, <2>1, <2>2, <2>3, Writes
<1>3. CASE setProviderDestination(id, c) /\ ~Quiet
  <2>1. /\ dests' = Placed(dests, Destination(c)) /\ revived' = revived
        /\ gone' = gone \ {Container(Destination(c))}
    BY <1>3 DEF setProviderDestination, WriteDestinations
  <2>2. /\ Sound(Placed(dests, Destination(c)))
        /\ \A e \in Elements(Placed(dests, Destination(c))) : e \in Elements(dests) \/ e = Destination(c)
    BY <1>0, PlacedSound
  <2> QED BY <1>0, <2>1, <2>2, DestinationProper, Writes
<1>4. CASE disconnectProviderDestination(id, c) /\ ~Quiet
  <2>1. dests' = WithoutID(dests, c) /\ gone' = gone /\ revived' = revived
    BY <1>4 DEF disconnectProviderDestination, WriteDestinations
  <2>2. Sound(WithoutID(dests, c))
    BY <1>0, AtSound DEF WithoutID
  <2>3. Elements(WithoutID(dests, c)) \subseteq Elements(dests)
    BY <1>0, AtElements DEF WithoutID, Sound
  <2> QED BY <1>0, <2>1, <2>2, <2>3, Writes
<1> QED BY <1>1, <1>2, <1>3, <1>4

\* A container that was forgotten and not chosen since is not among the
\* destinations, but for those a request wrote back as it had read them.
THEOREM LeftStaysOutHolds == BotsSpec => []LeftStaysOut
<1> USE DEF store, telegram, history
<1>1. BotsInit => OutInv
  <2> SUFFICES ASSUME BotsInit PROVE OutInv
    OBVIOUS
  <2>1. /\ dests = <<>> /\ poll = Resting /\ page.pc = "idle" /\ gone = {}
    BY DEF BotsInit, Resting
  <2>2. Listed(dests) /\ Elements(dests) = {}
    BY <2>1 DEF Listed, Elements
  <2> QED BY <2>1, <2>2, Remains DEF OutInv, StoreSound, Sound
<1>2. OutInv /\ [BotsNext]_botVars => OutInv'
  <2> SUFFICES ASSUME OutInv, [BotsNext]_botVars PROVE OutInv'
    OBVIOUS
  <2>0. /\ Sound(dests) /\ (page.pc = "commit" => Sound(page.ds))
        /\ provider = "discord" => poll = Resting /\ None \notin gone
        /\ Resting.pc = "idle"
    BY DEF OutInv, StoreSound, Resting
  <2>1. ASSUME NEW list \in Lists, NEW t \in Tokens, Create(list, t) PROVE OutInv'
    <3>1. /\ dests' = Chosen(list) /\ gone' = {} /\ UNCHANGED <<provider, page, poll>>
      BY <2>1 DEF Create
    <3> QED BY <2>0, <3>1, ChosenSound, Writes
  <2>2. ASSUME NEW ds, NEW kept, NEW t \in Tokens \cup {None}, Patch(ds, kept, t),
               Sound(ds), ~kept => \A d \in Elements(ds) : Proper(d),
               kept => page.pc = "commit" /\ ds = page.ds
        PROVE OutInv'
    <3>0. /\ page.pc = "commit" /\ page' = Resting /\ UNCHANGED <<provider, poll>>
          /\ row.id # page.id => Quiet
      BY <2>2 DEF Patch
    <3>1. CASE row.id # page.id
      BY <2>0, <3>0, <3>1, Spares DEF Quiet
    <3>2. CASE row.id = page.id
      <4>1. /\ dests' = ds
            /\ gone' = IF t # None THEN {} ELSE IF kept THEN gone
                       ELSE gone \ {Container(ds[i]) : i \in 1..Len(ds)}
            /\ revived' = IF kept THEN revived \cup (Ids(ds) \ Ids(dests)) ELSE revived
        BY <2>2, <3>2 DEF Patch
      <4>2. Sound(dests)'
        BY <2>2, <3>0, <4>1 DEF Sound, Listed, Elements, Proper, Destination
      <4>3. provider = "discord" => poll' = Resting /\ None \notin gone'
        BY <2>0, <3>0, <4>1
      <4>4. ASSUME NEW d \in Elements(ds), Container(d) \in gone' PROVE d.id \in revived'
        <5>1. kept /\ t = None
          BY <4>1, <4>4 DEF Elements
        <5>2. CASE d.id \notin Ids(dests)
          BY <4>1, <5>1, <5>2 DEF Elements, Ids
        <5>3. CASE d.id \in Ids(dests)
          <6>1. PICK e \in Elements(dests) : e.id = d.id
            BY <5>3 DEF Elements, Ids
          <6>2. Container(e) = Container(d)
            <7>1. d = e \/ Proper(e)
              BY <2>2, <3>0, <5>1, <6>1 DEF OutInv, StoreSound
            <7>2. Proper(d) \/ d.guild = None
              BY <2>2 DEF Sound
            <7>3. provider = "discord" => d.guild # None
              BY <2>0, <4>1, <4>4, <5>1 DEF Container
            <7> QED BY <6>1, <7>1, <7>2, <7>3 DEF Container, Proper
          <6>3. Container(e) \in gone
            BY <4>1, <4>4, <5>1, <6>2
          <6> QED BY <4>1, <5>1, <6>1, <6>3, Remains DEF OutInv
        <5> QED BY <5>2, <5>3
      <4>5. LeftStaysOut'
        BY <3>0, <4>1, <4>4 DEF LeftStaysOut, Elements, Container
      <4>6. page'.pc # "commit"
        BY <2>0, <3>0
      <4> QED BY <3>0, <4>2, <4>3, <4>5, <4>6 DEF OutInv, StoreSound
    <3> QED BY <3>1, <3>2
  <2>3. CASE Delete
    <3>1. dests' = <<>> /\ gone' = {} /\ UNCHANGED <<provider, page, poll>>
      BY <2>3 DEF Delete
    <3>2. Listed(<<>>) /\ Elements(<<>>) = {}
      BY DEF Listed, Elements
    <3>3. Sound(<<>>)
      BY <3>2 DEF Sound
    <3> QED BY <2>0, <3>1, <3>2, <3>3, Writes
  <2>4. CASE PatchReadsRow \/ DiscoverExisting
    <3>1. page'.pc \in {"row", "found"} /\ UNCHANGED <<provider, dests, gone, revived, poll>>
      BY <2>4 DEF PatchReadsRow, DiscoverExisting
    <3>2. page'.pc # "commit"
      BY <3>1
    <3> QED BY <3>1, <3>2 DEF OutInv, StoreSound, LeftStaysOut, Sound, Listed, Elements, Proper,
                              Destination, Container
  <2>5. CASE PatchReadsDestinations
    <3> DEFINE ds == normalizeDestinations(dests, page.first)
    <3>1. page'.pc = "commit" /\ page'.ds = ds /\ UNCHANGED <<provider, dests, gone, revived, poll>>
      BY <2>5 DEF PatchReadsDestinations
    <3>2. Sound(ds) /\ (dests = <<>> \/ ds = dests)
      <4>1. CASE ds = dests
        BY <2>0, <4>1
      <4>2. CASE ds # dests
        <5>1. dests = <<>> /\ ds = <<[id |-> page.first, guild |-> None]>>
          BY <4>2 DEF normalizeDestinations
        <5> HIDE DEF ds
        <5>2. Listed(ds) /\ Elements(ds) = {[id |-> page.first, guild |-> None]}
          BY <5>1 DEF Listed, Elements
        <5> QED BY <5>1, <5>2 DEF Sound
      <4> QED BY <4>1, <4>2
    <3> HIDE DEF ds
    <3>3. \A d \in Elements(ds), e \in Elements(dests) : d.id = e.id => d = e \/ Proper(e)
      <4>1. Elements(<<>>) = {}
        BY DEF Elements
      <4> QED BY <2>0, <3>2, <4>1 DEF Sound
    <3>4. Sound(page.ds)' /\ Sound(dests)'
      BY <2>0, <3>1, <3>2 DEF Sound, Listed, Elements, Proper, Destination
    <3>5. (\A d \in Elements(page.ds), e \in Elements(dests) : d.id = e.id => d = e \/ Proper(e))'
      BY <3>1, <3>3 DEF Elements, Proper, Destination
    <3>6. LeftStaysOut'
      BY <3>1 DEF OutInv, LeftStaysOut, Container
    <3> QED BY <2>0, <3>1, <3>4, <3>5, <3>6 DEF OutInv, StoreSound
  <2>6. CASE telegramDiscovery
    BY <2>0, <2>6, Spares DEF telegramDiscovery, MergeDiscovered
  <2>7. ASSUME NEW t \in Tokens, NEW c \in Chats, NEW what \in Kinds, Happens(t, c, what)
        PROVE  OutInv'
    BY <2>0, <2>7, Spares DEF Happens
  <2>8. CASE TelegramCommandBots \/ telegramCommandUpdates \/ PollFails
             \/ AdvanceTelegramUpdate \/ InitializeTelegramUpdates
    <3>1. UNCHANGED <<provider, dests, page, gone, revived>>
      BY <2>8 DEF TelegramCommandBots, telegramCommandUpdates, PollFails,
                  AdvanceTelegramUpdate, InitializeTelegramUpdates
    <3>2. provider # "discord"
      BY <2>0, <2>8 DEF TelegramCommandBots, telegramCommandUpdates, PollFails,
                        AdvanceTelegramUpdate, InitializeTelegramUpdates
    <3> QED BY <3>1, <3>2, Spares
  <2>9. CASE Observe \/ \E b \in BOOLEAN : Command(b)
    <3>1. UNCHANGED <<provider, page>> /\ provider # "discord"
      BY <2>0, <2>9 DEF Observe, Command
    <3>2. CASE /\ UNCHANGED <<dests, revived>> /\ gone' \subseteq gone
      BY <3>1, <3>2, Spares
    <3>3. CASE \/ ForgetDiscovered(poll.id, Update.chat) \/ setProviderDestination(poll.id, Update.chat)
               \/ disconnectProviderDestination(poll.id, Update.chat) \/ Quiet
      BY <3>1, <3>3, StoreWrites
    <3> QED BY <2>9, <3>2, <3>3 DEF Observe, Command, MergeDiscovered
  <2>10. ASSUME NEW g \in Guilds, GuildCreate(g) \/ GuildDelete(g) \/ LeaveUnseen(g) PROVE OutInv'
    <3>1. UNCHANGED <<provider, page, poll>> /\ g # None
      BY <2>10, BotsAssumption DEF GuildCreate, GuildDelete, LeaveUnseen, Discord
    <3>2. CASE GuildCreate(g)
      BY <2>0, <3>1, <3>2, Spares DEF GuildCreate, MergeDiscovered
    <3>3. CASE GuildDelete(g)
      BY <2>0, <3>1, <3>3, StoreWrites DEF GuildDelete
    <3>4. CASE LeaveUnseen(g)
      BY <2>0, <3>1, <3>4, StoreWrites DEF LeaveUnseen
    <3> QED BY <2>10, <3>2, <3>3, <3>4
  <2>11. ASSUME NEW c \in Chats, NEW command, handleDiscordInteraction(c, command) PROVE OutInv'
    <3>1. UNCHANGED <<provider, page, poll>>
      BY <2>11 DEF handleDiscordInteraction, Discord
    <3> QED BY <2>0, <2>11, <3>1, StoreWrites DEF handleDiscordInteraction
  <2>12. CASE Die
    BY <2>12, Spares DEF Die
  <2>13. CASE UNCHANGED botVars
    BY <2>0, <2>13, Spares DEF botVars
  <2>14. CASE PageNext
    <3>1. ASSUME NEW t \in Tokens \cup {None}, page.pc = "commit", Patch(page.ds, TRUE, t) PROVE OutInv'
      BY <2>0, <2>2, <3>1
    <3>2. ASSUME NEW t \in Tokens \cup {None}, NEW list \in Lists, Patch(Chosen(list), FALSE, t) PROVE OutInv'
      BY <2>2, <3>2, ChosenSound
    <3> QED BY <2>1, <2>3, <2>4, <2>5, <2>6, <2>14, <3>1, <3>2 DEF PageNext
  <2>15. CASE TelegramNext
    BY <2>7, <2>8, <2>9, <2>15 DEF TelegramNext
  <2>16. CASE DiscordNext
    BY <2>10, <2>11, <2>16 DEF DiscordNext
  <2> QED BY <2>12, <2>13, <2>14, <2>15, <2>16 DEF BotsNext
<1>3. OutInv => LeftStaysOut
  BY DEF OutInv
<1> QED BY <1>1, <1>2, <1>3, PTL DEF BotsSpec
=============================================================================
