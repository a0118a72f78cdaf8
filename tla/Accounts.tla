------------------------------ MODULE Accounts ------------------------------
(***************************************************************************)
(* User accounts (auth.Store, the user handlers, `bonghos user`): roles    *)
(* and the last owner, invitations, one-time recovery codes and            *)
(* the verification tokens of account changes.  SQLite has one connection, *)
(* so a statement or transaction is a step and a request is several.       *)
(***************************************************************************)
EXTENDS Naturals, FiniteSets

CONSTANTS
    Users,          \* user IDs; an ID is given to one account only
    FirstOwners,    \* the owners to begin with
    Invites,        \* invitations
    MaxSets,        \* bound: sets of recovery codes per account (a set is one code)
    Forgetful,      \* bound: the users who sign in with recovery codes
    Wanted,         \* the roles that are asked for
    Requests,       \* requests and commands under way
    Nobody          \* no user, no invitation

ASSUME AccountsAssumption ==
    /\ FirstOwners \subseteq Users /\ FirstOwners # {} /\ Forgetful \subseteq Users /\ Nobody \notin Users \cup Invites
    /\ MaxSets \in Nat \ {0}
    /\ Wanted \subseteq {"viewer", "member", "admin", "owner"}

VARIABLES
    role,           \* users.role; "none": no row
    disabled,       \* users.disabled
    codeSet,        \* how many sets of recovery codes a user was given
    fresh,          \* the users whose present code is unused
    inviteRole,     \* invitations.role; "none": no row
    createdBy,      \* invitations.created_by
    usedBy,         \* invitations.used_by
    revoked,        \* invitations.revoked
    request,        \* what each request is doing
    token,          \* accountActions: the users verified for a new set of codes
    invitedBy,      \* ghost: the invitation an account was made for, if no process
                    \* died between making it and recording it
    spent,          \* ghost: user and code of every recovery sign-in
    twice,          \* ghost: a code signed in a second time
    overlapped      \* ghost: two requests were past the owner guard at once, or
                    \* an activation took back an account made owner meanwhile

userVars == <<role, disabled, codeSet, fresh>>
inviteVars == <<inviteRole, createdBy, usedBy, revoked>>
ghosts == <<invitedBy, spent, twice, overlapped>>
accountVars == <<userVars, inviteVars, request, token, ghosts>>

Roles == {"viewer", "member", "admin", "owner"}
roleRank(r) == CASE r = "owner" -> 4 [] r = "admin" -> 3 [] r = "member" -> 2
                 [] r = "viewer" -> 1 [] OTHER -> 0

Verbs == {"none", "role", "disable", "enable", "delete", "activate", "login", "replace"}
RequestLines == {"idle", "guard", "update", "create", "consume", "replace"}

\* on: the account; want: a role; item: an invitation or a code; line: the next
\* statement of the request.
RequestType ==
    [verb : Verbs, on : Users \cup {Nobody}, want : Roles \cup {"keep"}, line : RequestLines,
     item : Invites \cup {Nobody} \cup 0..MaxSets]
Idle == [verb |-> "none", on |-> Nobody, want |-> "keep", line |-> "idle", item |-> Nobody]

AccountsInit ==
    /\ role = [u \in Users |-> IF u \in FirstOwners THEN "owner" ELSE "none"]
    /\ disabled = {}
    /\ codeSet = [u \in Users |-> IF u \in FirstOwners THEN 1 ELSE 0]
    /\ fresh = FirstOwners
    /\ inviteRole = [i \in Invites |-> "none"]
    /\ createdBy = [i \in Invites |-> Nobody]
    /\ usedBy = [i \in Invites |-> Nobody]
    /\ revoked = {}
    /\ request = [r \in Requests |-> Idle]
    /\ token = {}
    /\ invitedBy = [u \in Users |-> Nobody]
    /\ spent = {} /\ twice = FALSE /\ overlapped = FALSE

AccountsTypeOK ==
    /\ role \in [Users -> Roles \cup {"none"}]
    /\ disabled \in SUBSET Users
    /\ codeSet \in [Users -> 0..MaxSets]
    /\ fresh \in SUBSET Users
    /\ inviteRole \in [Invites -> Roles \cup {"none"}]
    /\ createdBy \in [Invites -> Users \cup {Nobody}]
    /\ usedBy \in [Invites -> Users \cup {Nobody}]
    /\ revoked \in SUBSET Invites
    /\ request \in [Requests -> RequestType]
    /\ token \in SUBSET Users
    /\ invitedBy \in [Users -> Invites \cup {Nobody}]
    /\ spent \in SUBSET (Users \X (0..MaxSets))
    /\ {twice, overlapped} \subseteq BOOLEAN

ActiveOwners == {u \in Users : role[u] = "owner" /\ u \notin disabled}
SignedIn(u) == role[u] # "none" /\ u \notin disabled
\* An invitation's created_by and used_by refer to users(id) and say nothing of deletion.
Referenced(u) == \E i \in Invites : u \in {createdBy[i], usedBy[i]}

AtLine(r, verbs, line) == request[r].verb \in verbs /\ request[r].line = line
To(r, line) == request' = [request EXCEPT ![r].line = line]
Done(r) == request' = [request EXCEPT ![r] = Idle]
Asks(r, verb, on, want, item, line) ==
    /\ request[r] = Idle
    /\ request' = [request EXCEPT ![r] =
           [verb |-> verb, on |-> on, want |-> want, line |-> line, item |-> item]]

-----------------------------------------------------------------------------
(* Role changes, disabling, deletion.                                      *)

CanManageUser(by, on, want) ==
    /\ by = on => want \in {"keep", role[on]}
    /\ \/ role[by] = "owner"
       \/ /\ roleRank(role[by]) > roleRank(role[on])
          /\ want # "keep" => roleRank(want) < roleRank(role[by])

Changes == {"role", "disable", "enable", "delete"}

\* handleUserRole, handleUserDisable and handleUserDelete down to their checks.
AskChange(r, by, on, verb, want) ==
    /\ SignedIn(by) /\ role[on] # "none"
    /\ CanManageUser(by, on, want)
    /\ verb # "role" => by # on
    /\ Asks(r, verb, on, want, Nobody,
            IF verb = "enable" \/ (verb = "role" /\ want = "owner") THEN "update" ELSE "guard")
    /\ UNCHANGED <<userVars, inviteVars, token, ghosts>>
handleUserRole(r, by, on) == \E want \in Wanted : AskChange(r, by, on, "role", want)
handleUserDisable(r, by, on) ==
    \E verb \in {"disable", "enable"} : AskChange(r, by, on, verb, "keep")
handleUserDelete(r, by, on) == AskChange(r, by, on, "delete", "keep")

\* `bonghos user disable`, in its own process.
userSetDisabled(r, on) ==
    /\ role[on] # "none" /\ (role[on] = "owner" => Cardinality(ActiveOwners) > 1)
    /\ Asks(r, "disable", on, "keep", Nobody, "guard")
    /\ UNCHANGED <<userVars, inviteVars, token, ghosts>>

\* (mutant) the owners are counted with the disabled ones
CountsDisabledOwners(on) ==
    on \in ActiveOwners /\ Cardinality({u \in Users : role[u] = "owner"}) <= 1
IsLastOwner(on) == on \in ActiveOwners /\ Cardinality(ActiveOwners) <= 1

guardLastOwner(r) ==
    /\ AtLine(r, Changes, "guard")
    /\ IF IsLastOwner(request[r].on)
       THEN Done(r) /\ UNCHANGED overlapped
       ELSE /\ To(r, "update")
            /\ overlapped' = (overlapped \/ \E s \in Requests \ {r} : AtLine(s, Changes, "update"))
    /\ UNCHANGED <<userVars, inviteVars, token, invitedBy, spent, twice>>

\* An UPDATE of a row that is gone changes nothing.
UpdateUser(r) ==
    /\ AtLine(r, {"role", "disable", "enable"}, "update")
    /\ LET u == request[r].on  v == request[r].verb IN
         IF role[u] = "none" THEN UNCHANGED <<role, disabled>>
         ELSE /\ role' = IF v = "role" THEN [role EXCEPT ![u] = request[r].want] ELSE role
              /\ disabled' = CASE v = "disable" -> disabled \cup {u}
                               [] v = "enable" -> disabled \ {u}
                               [] OTHER -> disabled
    /\ Done(r) /\ UNCHANGED <<codeSet, fresh, inviteVars, token, ghosts>>

\* A row takes its codes with it; the foreign keys refuse it while an invitation
\* or another table names the user.
RemoveRow(u) ==
    IF Referenced(u) THEN UNCHANGED <<role, disabled, fresh, invitedBy>>
    ELSE /\ role' = [role EXCEPT ![u] = "none"]
         /\ disabled' = disabled \ {u}
         /\ fresh' = fresh \ {u}
         /\ invitedBy' = [invitedBy EXCEPT ![u] = Nobody]
DeleteUser(r) ==
    /\ AtLine(r, {"delete"}, "update") /\ Done(r)
    /\ RemoveRow(request[r].on) \/ UNCHANGED <<role, disabled, fresh, invitedBy>>
    /\ UNCHANGED <<codeSet, inviteVars, token, spent, twice, overlapped>>

-----------------------------------------------------------------------------
(* Invitations.                                                            *)

CanInviteRole(by, want) ==
    want # "owner" /\ (role[by] = "owner" \/ roleRank(want) < roleRank(role[by]))

CreateInvitation(by, i, want) ==
    /\ SignedIn(by) /\ inviteRole[i] = "none" /\ CanInviteRole(by, want)
    /\ inviteRole' = [inviteRole EXCEPT ![i] = want]
    /\ createdBy' = [createdBy EXCEPT ![i] = by]
    /\ UNCHANGED <<userVars, usedBy, revoked, request, token, ghosts>>

RevokeInvitation(i) ==
    /\ inviteRole[i] # "none" /\ i \notin revoked /\ revoked' = revoked \cup {i}
    /\ UNCHANGED <<userVars, inviteRole, createdBy, usedBy, request, token, ghosts>>

StillOpen(i) == inviteRole[i] # "none" /\ usedBy[i] = Nobody /\ i \notin revoked

\* ActivateInvitation: CheckInvitation, ...
CheckInvitation(r, i) ==
    /\ StillOpen(i) /\ Asks(r, "activate", Nobody, inviteRole[i], i, "create")
    /\ UNCHANGED <<userVars, inviteVars, token, ghosts>>

\* ... CreateUser, one transaction with the first set of codes, or an error, ...
CreateUser(r) ==
    /\ AtLine(r, {"activate"}, "create")
    /\ \/ \E u \in Users :
            /\ codeSet[u] = 0
            /\ role' = [role EXCEPT ![u] = request[r].want]
            /\ codeSet' = [codeSet EXCEPT ![u] = 1]
            /\ fresh' = fresh \cup {u}
            /\ invitedBy' = [invitedBy EXCEPT ![u] = request[r].item]
            /\ request' = [request EXCEPT ![r].on = u, ![r].line = "consume"]
       \/ Done(r) /\ UNCHANGED <<role, codeSet, fresh, invitedBy>>
    /\ UNCHANGED <<disabled, inviteVars, token, spent, twice, overlapped>>

\* (mutant) the losing activation keeps its account
ConsumeKeepsUser(r) ==
    /\ AtLine(r, {"activate"}, "consume") /\ Done(r)
    /\ LET i == request[r].item IN
         usedBy' = IF StillOpen(i) /\ role[request[r].on] # "none"
                   THEN [usedBy EXCEPT ![i] = request[r].on] ELSE usedBy
    /\ UNCHANGED <<userVars, inviteRole, createdBy, revoked, token, ghosts>>
\* ... and the conditional UPDATE, whose loser takes its account back.  The UPDATE
\* fails, and the account stays, when the row has been deleted meanwhile.
ConsumeInvitation(r) ==
    /\ AtLine(r, {"activate"}, "consume") /\ Done(r)
    /\ LET i == request[r].item  u == request[r].on IN
         IF StillOpen(i)
         THEN /\ usedBy' = IF role[u] = "none" THEN usedBy ELSE [usedBy EXCEPT ![i] = u]
              /\ UNCHANGED <<role, disabled, fresh, invitedBy, overlapped>>
         ELSE /\ RemoveRow(u) /\ UNCHANGED usedBy
              /\ overlapped' = (overlapped \/ u \in ActiveOwners)
    /\ UNCHANGED <<codeSet, inviteRole, createdBy, revoked, token, spent, twice>>

-----------------------------------------------------------------------------
(* Recovery codes.                                                         *)

\* Login with a recovery code finds it unused; its password is right.
Login(r, u) ==
    /\ SignedIn(u) /\ u \in fresh /\ Asks(r, "login", u, "keep", codeSet[u], "consume")
    /\ UNCHANGED <<userVars, inviteVars, token, ghosts>>

IsFresh(u, c) == u \in fresh /\ c = codeSet[u]
Spend(u, c) ==
    /\ spent' = spent \cup {<<u, c>>}
    /\ twice' = (twice \/ <<u, c>> \in spent)

\* (mutant) the number of rows updated is not looked at
ConsumeUnchecked(r) ==
    /\ AtLine(r, {"login"}, "consume") /\ Done(r)
    /\ LET u == request[r].on  c == request[r].item IN
         /\ fresh' = IF IsFresh(u, c) THEN fresh \ {u} ELSE fresh
         /\ Spend(u, c)
    /\ UNCHANGED <<role, disabled, codeSet, inviteVars, token, invitedBy, overlapped>>
\* consumeRecoveryCode: only the request that updates the row goes on, to a session
\* or, for an account change, to a verification token.
consumeRecoveryCode(r) ==
    /\ AtLine(r, {"login"}, "consume") /\ Done(r)
    /\ LET u == request[r].on  c == request[r].item IN
         \/ /\ IsFresh(u, c) /\ fresh' = fresh \ {u} /\ Spend(u, c)
            /\ token' \in {token, token \cup {u}}
         \/ ~IsFresh(u, c) /\ UNCHANGED <<fresh, spent, twice, token>>
    /\ UNCHANGED <<role, disabled, codeSet, inviteVars, invitedBy, overlapped>>

\* takeAccountAction, once, then the replacement in one transaction.
takeAccountAction(r, u) ==
    /\ SignedIn(u) /\ u \in token /\ token' = token \ {u}
    /\ Asks(r, "replace", u, "keep", Nobody, "replace")
    /\ UNCHANGED <<userVars, inviteVars, ghosts>>

\* A row that is gone takes no codes: the foreign key refuses them.
ReplaceRecoveryCodes(r) ==
    /\ AtLine(r, {"replace"}, "replace") /\ Done(r)
    /\ LET u == request[r].on IN
         IF role[u] # "none" /\ codeSet[u] < MaxSets
         THEN fresh' = fresh \cup {u} /\ codeSet' = [codeSet EXCEPT ![u] = @ + 1]
         ELSE UNCHANGED <<fresh, codeSet>>
    /\ UNCHANGED <<role, disabled, inviteVars, token, ghosts>>

\* The panel and the commands die; verification tokens are in memory.
Crash ==
    /\ request' = [r \in Requests |-> Idle] /\ token' = {}
    /\ invitedBy' = [u \in Users |->
           IF \E r \in Requests : AtLine(r, {"activate"}, "consume") /\ request[r].on = u
           THEN Nobody ELSE invitedBy[u]]
    /\ UNCHANGED <<userVars, inviteVars, spent, twice, overlapped>>

AccountsNext ==
    \/ \E r \in Requests, by, on \in Users :
         handleUserRole(r, by, on) \/ handleUserDisable(r, by, on) \/ handleUserDelete(r, by, on)
    \/ \E r \in Requests, u \in Users : 
         userSetDisabled(r, u) \/ takeAccountAction(r, u)
    \/ \E r \in Requests, u \in Forgetful : Login(r, u)
    \/ \E r \in Requests :
         \/ guardLastOwner(r) \/ UpdateUser(r) \/ DeleteUser(r)
         \/ CreateUser(r) \/ ConsumeInvitation(r)
         \/ consumeRecoveryCode(r) \/ ReplaceRecoveryCodes(r)
    \/ \E u \in Users, i \in Invites, want \in Wanted : CreateInvitation(u, i, want)
    \/ \E i \in Invites : RevokeInvitation(i)
    \/ \E r \in Requests, i \in Invites : CheckInvitation(r, i)
    \/ Crash

AccountsSpec == AccountsInit /\ [][AccountsNext]_accountVars

-----------------------------------------------------------------------------
(* Properties.                                                             *)

\* The guard and the change are two statements: the installation is left without an
\* active owner only by changes past guardLastOwner at the same time, or by a losing
\* activation that takes back an account somebody made owner meanwhile.
OwnerLossNeedsOverlap == ActiveOwners = {} => overlapped

\* Of the activations of one invitation, and of one racing its revocation, at most one
\* account stays, the one the invitation records, unless a process died in between
\* (or the loser's account had itself invited somebody by then, which the foreign key keeps).
InvitationMakesOneUser ==
    \A u \in Users :
        role[u] # "none" /\ invitedBy[u] # Nobody =>
            \/ usedBy[invitedBy[u]] = u
            \/ \E r \in Requests : AtLine(r, {"activate"}, "consume") /\ request[r].on = u
            \/ \E i \in Invites : createdBy[i] = u

\* A recovery code signs in once, though two requests found it unused or the set was
\* replaced in between.
RecoveryCodeSpentOnce == ~twice
=============================================================================
