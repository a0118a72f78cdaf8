-------------------------- MODULE RolePermissions ---------------------------
(***************************************************************************)
(* The permissions of the roles below owner (role_permissions.go,          *)
(* authorization.go): the profiles in SQLite, the catalogue of the build,  *)
(* and pages that load a profile and post it back changed.                 *)
(***************************************************************************)
EXTENDS Naturals, FiniteSets

CONSTANTS
    Permissions,    \* the permissions of both builds
    Catalog,        \* build -> permission -> [requires, roles]; not there: unknown
    Defaults,       \* build -> role -> rolePerms
    Editors,        \* pages of the role editor
    MaxEdits        \* bound: the revisions of a profile

Roles == {"admin", "member"}
Builds == {"old", "new"}

\* The defaults hold together, as TestDefaultProfilesSatisfyCatalogRules has it.
ASSUME RolePermissionsAssumption ==
    /\ IsFiniteSet(Permissions)
    /\ \A b \in Builds :
         /\ DOMAIN Catalog[b] \subseteq Permissions
         /\ \A p \in DOMAIN Catalog[b] :
              Catalog[b][p].requires \subseteq Permissions /\ Catalog[b][p].roles \subseteq Roles
         /\ \A r \in Roles :
              /\ Defaults[b][r] \subseteq DOMAIN Catalog[b]
              /\ \A p \in Defaults[b][r] : Catalog[b][p].requires \subseteq Defaults[b][r]
    /\ MaxEdits \in Nat

VARIABLES
    build,          \* of the executable that runs
    profile,        \* role -> [revision, customized, allowed]
    page,           \* editor -> what it loaded: role, revision, permissions, build
    lastEdit        \* ghost: what the last edit replaced and what its page had seen

roleVars == <<build, profile, page, lastEdit>>

Nowhere == [role |-> "none", revision |-> 0, permissions |-> {}, build |-> "old"]

RolesInit ==
    /\ build = "old"
    /\ profile = [r \in Roles |-> [revision |-> 0, customized |-> FALSE, allowed |-> {}]]
    /\ page = [e \in Editors |-> Nowhere]
    /\ lastEdit = [seen |-> {}, replaced |-> {}, build |-> "old"]

\* What a page holds of permissions is as it was computed.
RolesTypeOK ==
    /\ build \in Builds
    /\ profile \in [Roles -> [revision : 0..MaxEdits, customized : BOOLEAN,
                              allowed : SUBSET Permissions]]
    /\ page = [e \in Editors |-> page[e]]
    /\ \A e \in Editors : /\ page[e].role \in Roles \cup {"none"}
                          /\ page[e].revision \in 0..MaxEdits /\ page[e].build \in Builds

-----------------------------------------------------------------------------
(* What a profile amounts to under the catalogue of build b *)

Requires(b, p) == Catalog[b][p].requires
Unsupported(b, S) == {p \in S : ~(Requires(b, p) \subseteq S)}

\* (mutant) one pass over the permissions
EnforceOnce(b, S) == S \ Unsupported(b, S)

\* Permissions whose requirements are missing are dropped until none is left,
\* in the order of Go's map: any.
enforcePermissionDependencies(b, S) ==
    LET enforced[T \in SUBSET Permissions] ==
          IF Unsupported(b, T) = {} THEN T
          ELSE enforced[T \ {CHOOSE p \in Unsupported(b, T) : TRUE}]
    IN enforced[S]

Assignable(b, r) == {p \in DOMAIN Catalog[b] : r \in Catalog[b][p].roles}

\* A customised profile is a snapshot; what it does not name is refused.
Effective(b, held, r) ==
    IF held.customized THEN enforcePermissionDependencies(b, held.allowed \cap Assignable(b, r))
    ELSE Defaults[b][r]
loadRolePermissionState(r) == Effective(build, profile[r], r)

-----------------------------------------------------------------------------
(* The handlers *)

\* by: "owner" or "admin"
canEditRolePermissions(by, r) == by = "owner" \/ r = "member"

validateDesiredPermissions(r, desired) ==
    desired \subseteq Assignable(build, r) /\ \A p \in desired : Requires(build, p) \subseteq desired

MayGrant(by, r, desired) ==
    by = "admin" =>
        LET own == loadRolePermissionState("admin") IN
        "roles.manage" \in own /\ desired \subseteq own \cup loadRolePermissionState(r)

handleRolePermissions(e, r) ==
    /\ page' = [page EXCEPT ![e] =
           [role |-> r, revision |-> profile[r].revision,
            permissions |-> loadRolePermissionState(r), build |-> build]]
    /\ UNCHANGED <<build, profile, lastEdit>>

\* (mutant) the revision stays
StoreKeepsRevision(r, desired) ==
    profile' = [profile EXCEPT ![r].customized = TRUE, ![r].allowed = desired]
Store(r, desired) ==
    profile' = [profile EXCEPT ![r] =
        [revision |-> @.revision + 1, customized |-> TRUE, allowed |-> desired]]

\* One transaction: the revision is the page's, and something changes.
handleRolePermissionsUpdate(e, by, desired) ==
    LET r == page[e].role  current == loadRolePermissionState(r) IN
    /\ r # "none" /\ canEditRolePermissions(by, r)
    /\ validateDesiredPermissions(r, desired)
    /\ profile[r].revision = page[e].revision
    /\ MayGrant(by, r, desired)
    /\ current # desired /\ profile[r].revision < MaxEdits
    /\ Store(r, desired)
    /\ lastEdit' = [seen |-> page[e].permissions, replaced |-> current, build |-> page[e].build]
    /\ page' = [page EXCEPT ![e] = Nowhere]
    /\ UNCHANGED build

\* An update of Bonghos: another catalogue and other defaults under the same profiles.
Upgrade ==
    /\ build = "old" /\ build' = "new" /\ UNCHANGED <<profile, page, lastEdit>>

RolesNext ==
    \/ \E e \in Editors, r \in Roles : handleRolePermissions(e, r)
    \/ \E e \in Editors, by \in {"owner", "admin"}, desired \in SUBSET Permissions :
         handleRolePermissionsUpdate(e, by, desired)
    \/ Upgrade

RolesSpec == RolesInit /\ [][RolesNext]_roleVars

-----------------------------------------------------------------------------
\* Two pages that edit one role do not undo each other unseen: a change replaces
\* what its page had loaded, unless the catalogue changed under it.
NoEditIsLost ==
    lastEdit.build = build => lastEdit.seen = lastEdit.replaced

\* What a role may do holds together whatever its profile says and whichever build
\* wrote it: nothing is allowed without what it requires, nothing that is unknown or
\* not the role's, and nothing more is refused than that takes.
EffectiveHoldsTogether ==
    \A r \in Roles :
        LET effective == loadRolePermissionState(r) IN
        /\ effective \subseteq DOMAIN Catalog[build]
        /\ \A p \in effective : Requires(build, p) \subseteq effective
        /\ profile[r].customized =>
             /\ effective \subseteq Assignable(build, r)
             /\ \A S \in SUBSET (profile[r].allowed \cap Assignable(build, r)) :
                  (\A p \in S : Requires(build, p) \subseteq S) => S \subseteq effective
=============================================================================
