----------------------------- MODULE Workspaces -----------------------------
(***************************************************************************)
(* Multi-workspace tenancy: accounts, workspaces (the company documents),  *)
(* memberships and invitations, and the requests of the API that read and  *)
(* write them.                                                             *)
(*                                                                         *)
(* A request handler awaits the database several times; every await is a   *)
(* step of its own here, so that requests interleave between any two of    *)
(* them and a handler keeps, in its record, what it read earlier.  The     *)
(* process may also die between two steps (Crash).                         *)
(***************************************************************************)
EXTENDS Naturals, FiniteSets

CONSTANTS
    Users,          \* account identifiers; one is never reused
    Emails,         \* normalised e-mail addresses
    EmailOf,        \* the address of each account: no route changes it
    Workspaces,     \* workspace (company) identifiers
    Invitations,    \* invitation identifiers: the bound on their number
    Procs,          \* requests in flight at once
    None,           \* the absent reference
    LegacyCompany,  \* the company of each account that predates memberships
    LegacySystem,   \* those of them that are system users
    OfferedRoles,   \* the roles clients ask for in this instance
    Operations      \* the operations clients call in this instance

ASSUME WorkspacesAssumption ==
    /\ EmailOf \in [Users -> Emails]
    /\ None \notin Users \union Emails \union Workspaces \union Invitations
    /\ LegacyCompany \in [Users -> Workspaces \union {None}]
    /\ LegacySystem \subseteq {u \in Users : LegacyCompany[u] # None}
    \* One account of a legacy company is its system user, the one that
    \* registered it: the others were added by inviteUser.
    /\ \A u, v \in LegacySystem :
          LegacyCompany[u] = LegacyCompany[v] => u = v
    /\ \A u, v \in {x \in Users : LegacyCompany[x] # None} :
          EmailOf[u] = EmailOf[v] => u = v
    \* The validation of the routes refuses the role of the owner.
    /\ OfferedRoles \subseteq {"admin", "member", "viewer"}

VARIABLES
    users,          \* the account documents
    workspaces,     \* the status of every workspace
    memberships,    \* memberships[w][u]: unique index on (user, workspace)
    invitations,    \* the invitation documents
    requests        \* what every request in flight will do next

vars == <<users, workspaces, memberships, invitations, requests>>

-----------------------------------------------------------------------------
(* Roles and their ranks.                                                  *)

Roles == {"owner", "admin", "member", "viewer"}

RoleRank == [owner |-> 4, admin |-> 3, member |-> 2, viewer |-> 1]

HasMinimumRole(actual, required) == RoleRank[actual] >= RoleRank[required]
CanManageMembers(role)   == HasMinimumRole(role, "admin")
CanDeleteWorkspace(role) == role = "owner"

RoleCanPerform(role, operationType) ==
    \/ role \in {"owner", "admin"}
    \/ role = "viewer" /\ operationType \in {"read", "readList"}
    \/ role = "member" /\ operationType \notin {"delete", "admin"}

-----------------------------------------------------------------------------
(* Documents.                                                              *)

Account == [account : {"absent", "live", "deleted"},
            system  : BOOLEAN,
            company : Workspaces \union {None}]

Membership == [role   : Roles \union {"none"},
               status : {"none", "active", "invited", "suspended"}]

NoMembership == [role |-> "none", status |-> "none"]

Invitation == [status     : {"none", "pending", "accepted", "revoked", "expired"},
               email      : Emails \union {None},
               workspace  : Workspaces \union {None},
               role       : Roles \union {"none"},
               lapsed     : BOOLEAN,
               acceptedBy : Users \union {None}]

NoInvitation == [status |-> "none", email |-> None, workspace |-> None,
                 role |-> "none", lapsed |-> FALSE, acceptedBy |-> None]

Steps == {"idle", "company_create", "oauth_create", "oauth_point",
          "owner_upsert", "link", "legacy_create",
          "role_find", "role_save", "remove_find", "remove_save",
          "invite_check", "invite_revoke", "invite_create",
          "accept_upsert", "accept_save", "expire_save",
          "revoke_find", "revoke_save",
          "delete_suspend", "delete_revoke", "delete_mark",
          "add_create", "deluser_delete"}

Request == [step      : Steps,
            user      : Users \union {None},       \* the caller, if used again
            workspace : Workspaces \union {None},
            target    : Users \union {None},       \* the account acted on
            email     : Emails \union {None},
            role      : Roles \union {"none"},     \* the role to write
            seen      : Roles \union {"none"},     \* the role read before
            inv       : Invitations \union {None}]

Idle == [step |-> "idle", user |-> None, workspace |-> None, target |-> None,
         email |-> None, role |-> "none", seen |-> "none", inv |-> None]

TypeOK ==
    /\ users \in [Users -> Account]
    /\ workspaces \in [Workspaces -> {"absent", "active", "deleted"}]
    /\ memberships \in [Workspaces -> [Users -> Membership]]
    /\ invitations \in [Invitations -> Invitation]
    /\ requests \in [Procs -> Request]

Init ==
    /\ users = [u \in Users |->
                  [account |-> IF LegacyCompany[u] = None THEN "absent" ELSE "live",
                   system  |-> u \in LegacySystem,
                   company |-> LegacyCompany[u]]]
    /\ workspaces = [w \in Workspaces |->
                       IF \E u \in Users : LegacyCompany[u] = w
                       THEN "active" ELSE "absent"]
    /\ memberships = [w \in Workspaces |-> [u \in Users |-> NoMembership]]
    /\ invitations = [i \in Invitations |-> NoInvitation]
    /\ requests = [p \in Procs |-> Idle]

-----------------------------------------------------------------------------
(* Reading the documents.                                                  *)

Live(u) == users[u].account = "live"

HasMembership(u, w) == memberships[w][u] # NoMembership
IsActive(u, w)      == memberships[w][u].status = "active"
IsOwner(u, w)       == memberships[w][u].role = "owner"

\* ensureLegacyMembership has something to create for u.
NeedsLegacyMembership(u) ==
    /\ users[u].company # None
    /\ ~ HasMembership(u, users[u].company)

\* The auth middleware lets u's requests through: ensureLegacyMembership ran,
\* and some workspace resolves in which u is an active member.
Authenticated(u) ==
    /\ Live(u)
    /\ ~ NeedsLegacyMembership(u)
    /\ \E w \in Workspaces : IsActive(u, w)

\* requireMembership(u, w) returns instead of throwing.
RequireMembership(u, w) == Authenticated(u) /\ IsActive(u, w)

EmailTaken(e) == \E u \in Users : Live(u) /\ EmailOf[u] = e

PendingFor(e, w) ==
    {i \in Invitations : /\ invitations[i].status = "pending"
                         /\ invitations[i].email = e
                         /\ invitations[i].workspace = w}

(* The bookkeeping of a request.                                           *)

Free(p, op) == requests[p].step = "idle" /\ op \in Operations

At(p, step) == requests[p].step = step

Continue(p, step) == requests' = [requests EXCEPT ![p].step = step]

Finish(p) == requests' = [requests EXCEPT ![p] = Idle]

\* Finish a handler that only read: it threw, or had nothing to do.
Refuse(p) ==
    /\ Finish(p)
    /\ UNCHANGED <<users, workspaces, memberships, invitations>>

\* Begin a handler whose first step only reads.
Begin(p, r) ==
    /\ requests' = [requests EXCEPT ![p] = r]
    /\ UNCHANGED <<users, workspaces, memberships, invitations>>

-----------------------------------------------------------------------------
(* Registration and new workspaces: the user, then the company, then the   *)
(* owner's membership, then the user's pointer to the company.  A sign-up   *)
(* by OAuth writes the pointer before the membership as well.              *)

SignUp(p, u, operation, step) ==
    /\ Free(p, operation)
    /\ users[u].account = "absent"
    /\ ~ EmailTaken(EmailOf[u])
    /\ users' = [users EXCEPT ![u] = [account |-> "live", system |-> TRUE,
                                      company |-> None]]
    /\ requests' = [requests EXCEPT
                      ![p] = [Idle EXCEPT !.step = step, !.user = u]]
    /\ UNCHANGED <<workspaces, memberships, invitations>>

RequestRegister(p, u) == SignUp(p, u, "register", "company_create")

OauthSignUp(p, u) == SignUp(p, u, "oauth", "oauth_create")

CreateWorkspaceForUser(p, u) ==
    /\ Free(p, "createWorkspace")
    /\ Authenticated(u)
    /\ Begin(p, [Idle EXCEPT !.step = "company_create", !.user = u])

CreateCompany(p, w) ==
    /\ At(p, "company_create") \/ At(p, "oauth_create")
    /\ workspaces[w] = "absent"
    /\ workspaces' = [workspaces EXCEPT ![w] = "active"]
    /\ requests' = [requests EXCEPT
                      ![p] = [@ EXCEPT !.step = IF At(p, "oauth_create")
                                                THEN "oauth_point" ELSE "owner_upsert",
                                       !.workspace = w]]
    /\ UNCHANGED <<users, memberships, invitations>>

\* user.company = company._id and save, which throws for a deleted account.
PointAtCompany(p) ==
    LET r == requests[p] IN
    /\ At(p, "oauth_point")
    /\ IF Live(r.user)
       THEN /\ users' = [users EXCEPT ![r.user].company = r.workspace]
            /\ Continue(p, "owner_upsert")
            /\ UNCHANGED <<workspaces, memberships, invitations>>
       ELSE Refuse(p)

UpsertOwner(p) ==
    LET r == requests[p] IN
    /\ At(p, "owner_upsert")
    /\ memberships' = [memberships EXCEPT
                         ![r.workspace][r.user] = [role |-> "owner",
                                                   status |-> "active"]]
    /\ Continue(p, "link")
    /\ UNCHANGED <<users, workspaces, invitations>>

\* User.updateOne({company}): the last write of registering, of creating and
\* switching workspaces and of accepting an invitation.
LinkCompany(p) ==
    LET r == requests[p] IN
    /\ At(p, "link")
    /\ users' = IF Live(r.user)
                THEN [users EXCEPT ![r.user].company = r.workspace]
                ELSE users
    /\ Finish(p)
    /\ UNCHANGED <<workspaces, memberships, invitations>>

SwitchWorkspace(p, u, w) ==
    /\ Free(p, "switch")
    /\ RequireMembership(u, w)
    /\ Begin(p, [Idle EXCEPT !.step = "link", !.user = u, !.workspace = w])

-----------------------------------------------------------------------------
(* Memberships nobody was invited to: accounts whose company predates the  *)
(* memberships, or that inviteUser created inside a company.               *)

EnsureLegacyMembership(p, u) ==
    /\ Free(p, "legacy")
    /\ Live(u)
    /\ NeedsLegacyMembership(u)
    /\ Begin(p, [Idle EXCEPT !.step = "legacy_create", !.user = u,
                             !.workspace = users[u].company,
                             !.role = IF users[u].system THEN "owner" ELSE "member"])

\* The unique index refuses a second membership of the same pair.
CreateLegacyMembership(p) ==
    LET r == requests[p] IN
    /\ At(p, "legacy_create")
    /\ memberships' = IF HasMembership(r.user, r.workspace)
                      THEN memberships
                      ELSE [memberships EXCEPT
                              ![r.workspace][r.user] = [role |-> r.role,
                                                        status |-> "active"]]
    /\ Finish(p)
    /\ UNCHANGED <<users, workspaces, invitations>>

\* Owners and admins are system users to the route; a plain member needs the
\* admin-global permission, which inviteUser gives to the accounts it creates.
MayManageUsers(u, role) ==
    /\ RoleCanPerform(role, "create")
    /\ CanManageMembers(role) \/ ~ users[u].system

InviteUser(p, u, w, t) ==
    /\ Free(p, "inviteUser")
    /\ RequireMembership(u, w)
    /\ MayManageUsers(u, memberships[w][u].role)
    /\ Begin(p, [Idle EXCEPT !.step = "add_create", !.workspace = w,
                             !.target = t])

CreateInvitedUser(p) ==
    LET r == requests[p] IN
    /\ At(p, "add_create")
    /\ users' = IF users[r.target].account = "absent"
                     /\ ~ EmailTaken(EmailOf[r.target])
                THEN [users EXCEPT ![r.target] =
                        [account |-> "live", system |-> FALSE,
                         company |-> r.workspace]]
                ELSE users
    /\ Finish(p)
    /\ UNCHANGED <<workspaces, memberships, invitations>>

\* deleteUserById looks the account up in the caller's workspace only.
DeleteUser(p, u, w, t) ==
    /\ Free(p, "deleteUser")
    /\ RequireMembership(u, w)
    /\ RoleCanPerform(memberships[w][u].role, "delete")
    /\ Begin(p, [Idle EXCEPT !.step = "deluser_delete", !.workspace = w,
                             !.target = t])

DeleteUserById(p) ==
    LET r == requests[p] IN
    /\ At(p, "deluser_delete")
    /\ users' = IF Live(r.target) /\ users[r.target].company = r.workspace
                THEN [users EXCEPT ![r.target].account = "deleted"]
                ELSE users
    /\ Finish(p)
    /\ UNCHANGED <<workspaces, memberships, invitations>>

-----------------------------------------------------------------------------
(* Managing members: the caller's membership is read first, the target's   *)
(* after it, and save writes only what the handler modified.               *)

UpdateMemberRole(p, u, w, t, role) ==
    /\ Free(p, "updateMemberRole")
    /\ RequireMembership(u, w)
    /\ CanManageMembers(memberships[w][u].role)
    /\ Begin(p, [Idle EXCEPT !.step = "role_find", !.workspace = w,
                             !.target = t, !.role = role])

\* Mutation of Manageable: the owner is not spared.
ManageableIfActive(t, w) == IsActive(t, w)

\* An active member that is not the owner; otherwise the handler throws.
Manageable(t, w) == IsActive(t, w) /\ ~ IsOwner(t, w)

FindRoleTarget(p) ==
    LET r == requests[p] IN
    /\ At(p, "role_find")
    /\ IF Manageable(r.target, r.workspace)
       THEN Begin(p, [r EXCEPT !.step = "role_save",
                               !.seen = memberships[r.workspace][r.target].role])
       ELSE Refuse(p)

\* Mutation of SaveRole: the document that was read is written back whole.
SaveRoleWholeDocument(p) ==
    LET r == requests[p] IN
    /\ At(p, "role_save")
    /\ memberships' = [memberships EXCEPT
                         ![r.workspace][r.target] = [role |-> r.role,
                                                     status |-> "active"]]
    /\ Finish(p)
    /\ UNCHANGED <<users, workspaces, invitations>>

SaveRole(p) ==
    LET r == requests[p] IN
    /\ At(p, "role_save")
    /\ memberships' = IF r.role = r.seen
                      THEN memberships
                      ELSE [memberships EXCEPT
                              ![r.workspace][r.target].role = r.role]
    /\ Finish(p)
    /\ UNCHANGED <<users, workspaces, invitations>>

RemoveMember(p, u, w, t) ==
    /\ Free(p, "removeMember")
    /\ RequireMembership(u, w)
    /\ CanManageMembers(memberships[w][u].role)
    /\ Begin(p, [Idle EXCEPT !.step = "remove_find", !.workspace = w,
                             !.target = t])

FindRemoveTarget(p) ==
    LET r == requests[p] IN
    /\ At(p, "remove_find")
    /\ IF Manageable(r.target, r.workspace)
       THEN Begin(p, [r EXCEPT !.step = "remove_save"])
       ELSE Refuse(p)

SaveRemoval(p) ==
    LET r == requests[p] IN
    /\ At(p, "remove_save")
    /\ memberships' = [memberships EXCEPT
                         ![r.workspace][r.target].status = "suspended"]
    /\ Finish(p)
    /\ UNCHANGED <<users, workspaces, invitations>>

-----------------------------------------------------------------------------
(* Invitations.                                                            *)

CreateInvitation(p, u, w, e, role) ==
    /\ Free(p, "createInvitation")
    /\ RequireMembership(u, w)
    /\ CanManageMembers(memberships[w][u].role)
    /\ Begin(p, [Idle EXCEPT !.step = "invite_check", !.workspace = w,
                             !.email = e, !.role = role])

\* Mutation of CheckExistingMember: members can be invited again.
SkipExistingMember(p) ==
    /\ At(p, "invite_check")
    /\ Begin(p, [requests[p] EXCEPT !.step = "invite_revoke"])

CheckExistingMember(p) ==
    LET r == requests[p] IN
    /\ At(p, "invite_check")
    /\ IF \E u \in Users :
             /\ Live(u)
             /\ EmailOf[u] = r.email
             /\ memberships[r.workspace][u].status \in {"active", "invited"}
       THEN Refuse(p)
       ELSE Begin(p, [r EXCEPT !.step = "invite_revoke"])

\* Mutation of RevokeEarlierInvitations: the earlier invitations stay open.
KeepEarlierInvitations(p) ==
    /\ At(p, "invite_revoke")
    /\ Continue(p, "invite_create")
    /\ UNCHANGED <<users, workspaces, memberships, invitations>>

RevokeEarlierInvitations(p) ==
    LET r == requests[p] IN
    /\ At(p, "invite_revoke")
    /\ invitations' = [i \in Invitations |->
                         IF i \in PendingFor(r.email, r.workspace)
                         THEN [invitations[i] EXCEPT !.status = "revoked"]
                         ELSE invitations[i]]
    /\ Continue(p, "invite_create")
    /\ UNCHANGED <<users, workspaces, memberships>>

StoreInvitation(p, i) ==
    LET r == requests[p] IN
    /\ At(p, "invite_create")
    /\ invitations[i].status = "none"
    /\ invitations' = [invitations EXCEPT
                         ![i] = [NoInvitation EXCEPT !.status = "pending",
                                                     !.email = r.email,
                                                     !.workspace = r.workspace,
                                                     !.role = r.role]]
    /\ Finish(p)
    /\ UNCHANGED <<users, workspaces, memberships>>

\* Seven days pass: expiresAt lies behind the clock.
Lapse(i) ==
    /\ "lapse" \in Operations
    /\ invitations[i].status = "pending"
    /\ ~ invitations[i].lapsed
    /\ invitations' = [invitations EXCEPT ![i].lapsed = TRUE]
    /\ UNCHANGED <<users, workspaces, memberships, requests>>

\* getInvitationByToken on a lapsed invitation, from the public preview or
\* from accept: it is found pending and saved expired.
FindLapsed(p, i) ==
    /\ Free(p, "preview")
    /\ invitations[i].status = "pending"
    /\ invitations[i].lapsed
    /\ Begin(p, [Idle EXCEPT !.step = "expire_save", !.inv = i])

SaveExpired(p) ==
    LET r == requests[p] IN
    /\ At(p, "expire_save")
    /\ invitations' = [invitations EXCEPT ![r.inv].status = "expired"]
    /\ Finish(p)
    /\ UNCHANGED <<users, workspaces, memberships>>

\* Mutation of AcceptInvitation: the account points at the workspace before
\* the membership exists.
AcceptLinkingFirst(p, u, i) ==
    /\ Free(p, "acceptInvitation")
    /\ Authenticated(u)
    /\ invitations[i].status = "pending"
    /\ invitations[i].email = EmailOf[u]
    /\ users' = [users EXCEPT ![u].company = invitations[i].workspace]
    /\ requests' = [requests EXCEPT
                      ![p] = [Idle EXCEPT !.step = "accept_upsert", !.user = u,
                                          !.inv = i,
                                          !.workspace = invitations[i].workspace,
                                          !.role = invitations[i].role]]
    /\ UNCHANGED <<workspaces, memberships, invitations>>

AcceptInvitation(p, u, i) ==
    /\ Free(p, "acceptInvitation")
    /\ Authenticated(u)
    /\ invitations[i].status = "pending"
    /\ ~ invitations[i].lapsed
    /\ invitations[i].email = EmailOf[u]
    /\ Begin(p, [Idle EXCEPT !.step = "accept_upsert", !.user = u, !.inv = i,
                             !.workspace = invitations[i].workspace,
                             !.role = invitations[i].role])

\* Mutation of UpsertMember: an update without upsert.
UpdateMemberOnly(p) ==
    LET r == requests[p] IN
    /\ At(p, "accept_upsert")
    /\ memberships' = IF HasMembership(r.user, r.workspace)
                      THEN [memberships EXCEPT
                              ![r.workspace][r.user] = [role |-> r.role,
                                                        status |-> "active"]]
                      ELSE memberships
    /\ Continue(p, "accept_save")
    /\ UNCHANGED <<users, workspaces, invitations>>

\* Mutation of UpsertMember: the status of the invitation lands in the
\* membership (updates do not run the validators of the schema).
UpsertAcceptedStatus(p) ==
    LET r == requests[p] IN
    /\ At(p, "accept_upsert")
    /\ memberships' = [memberships EXCEPT
                         ![r.workspace][r.user] = [role |-> r.role,
                                                   status |-> "accepted"]]
    /\ Continue(p, "accept_save")
    /\ UNCHANGED <<users, workspaces, invitations>>

UpsertMember(p) ==
    LET r == requests[p] IN
    /\ At(p, "accept_upsert")
    /\ memberships' = [memberships EXCEPT
                         ![r.workspace][r.user] = [role |-> r.role,
                                                   status |-> "active"]]
    /\ Continue(p, "accept_save")
    /\ UNCHANGED <<users, workspaces, invitations>>

SaveAccepted(p) ==
    LET r == requests[p] IN
    /\ At(p, "accept_save")
    /\ invitations' = [invitations EXCEPT ![r.inv].status = "accepted",
                                          ![r.inv].acceptedBy = r.user]
    /\ Continue(p, "link")
    /\ UNCHANGED <<users, workspaces, memberships>>

RevokeInvitation(p, u, w, i) ==
    /\ Free(p, "revokeInvitation")
    /\ RequireMembership(u, w)
    /\ CanManageMembers(memberships[w][u].role)
    /\ Begin(p, [Idle EXCEPT !.step = "revoke_find", !.workspace = w,
                             !.inv = i])

\* Mutation of FindRevocable: the status of the invitation is not looked at.
FindAnyInvitation(p) ==
    LET r == requests[p] IN
    /\ At(p, "revoke_find")
    /\ IF invitations[r.inv].workspace = r.workspace
       THEN Begin(p, [r EXCEPT !.step = "revoke_save"])
       ELSE Refuse(p)

FindRevocable(p) ==
    LET r == requests[p] IN
    /\ At(p, "revoke_find")
    /\ IF /\ invitations[r.inv].status = "pending"
          /\ invitations[r.inv].workspace = r.workspace
       THEN Begin(p, [r EXCEPT !.step = "revoke_save"])
       ELSE Refuse(p)

SaveRevoked(p) ==
    LET r == requests[p] IN
    /\ At(p, "revoke_save")
    /\ invitations' = [invitations EXCEPT ![r.inv].status = "revoked"]
    /\ Finish(p)
    /\ UNCHANGED <<users, workspaces, memberships>>

-----------------------------------------------------------------------------
(* Deleting a workspace: three updates, none of them in a transaction.     *)

DeleteWorkspace(p, u, w) ==
    /\ Free(p, "deleteWorkspace")
    /\ RequireMembership(u, w)
    /\ CanDeleteWorkspace(memberships[w][u].role)
    /\ Begin(p, [Idle EXCEPT !.step = "delete_suspend", !.workspace = w])

SuspendMemberships(p) ==
    LET w == requests[p].workspace IN
    /\ At(p, "delete_suspend")
    /\ memberships' = [memberships EXCEPT ![w] =
                         [u \in Users |->
                            IF HasMembership(u, w)
                            THEN [memberships[w][u] EXCEPT !.status = "suspended"]
                            ELSE NoMembership]]
    /\ Continue(p, "delete_revoke")
    /\ UNCHANGED <<users, workspaces, invitations>>

\* Mutation of RevokePendingInvitations: the invitations stay open.
KeepPendingInvitations(p) ==
    /\ At(p, "delete_revoke")
    /\ Continue(p, "delete_mark")
    /\ UNCHANGED <<users, workspaces, memberships, invitations>>

RevokePendingInvitations(p) ==
    LET w == requests[p].workspace IN
    /\ At(p, "delete_revoke")
    /\ invitations' = [i \in Invitations |->
                         IF /\ invitations[i].status = "pending"
                            /\ invitations[i].workspace = w
                         THEN [invitations[i] EXCEPT !.status = "revoked"]
                         ELSE invitations[i]]
    /\ Continue(p, "delete_mark")
    /\ UNCHANGED <<users, workspaces, memberships>>

MarkDeleted(p) ==
    /\ At(p, "delete_mark")
    /\ workspaces' = [workspaces EXCEPT ![requests[p].workspace] = "deleted"]
    /\ Finish(p)
    /\ UNCHANGED <<users, memberships, invitations>>

-----------------------------------------------------------------------------
\* The process dies, or a call to the database fails, between two awaits of
\* p: the handler ends there and nothing it wrote is undone.
Crash(p) ==
    /\ "crash" \in Operations
    /\ requests[p].step # "idle"
    /\ Refuse(p)

\* A client calls the API.
Call(p) ==
    \/ \E u \in Users :
          \/ RequestRegister(p, u)
          \/ OauthSignUp(p, u)
          \/ CreateWorkspaceForUser(p, u)
          \/ EnsureLegacyMembership(p, u)
    \/ \E i \in Invitations : FindLapsed(p, i)
    \/ \E u \in Users, i \in Invitations : AcceptInvitation(p, u, i)
    \/ \E u \in Users, w \in Workspaces :
          \/ SwitchWorkspace(p, u, w)
          \/ DeleteWorkspace(p, u, w)
          \/ \E t \in Users :
                \/ InviteUser(p, u, w, t)
                \/ DeleteUser(p, u, w, t)
                \/ RemoveMember(p, u, w, t)
                \/ \E role \in OfferedRoles : UpdateMemberRole(p, u, w, t, role)
          \/ \E e \in Emails, role \in OfferedRoles :
                CreateInvitation(p, u, w, e, role)
          \/ \E i \in Invitations : RevokeInvitation(p, u, w, i)

\* The handler of p resumes after an await.
Resume(p) ==
    \/ \E w \in Workspaces : CreateCompany(p, w)
    \/ \E i \in Invitations : StoreInvitation(p, i)
    \/ PointAtCompany(p)
    \/ UpsertOwner(p)
    \/ LinkCompany(p)
    \/ CreateLegacyMembership(p)
    \/ CreateInvitedUser(p)
    \/ DeleteUserById(p)
    \/ FindRoleTarget(p)
    \/ SaveRole(p)
    \/ FindRemoveTarget(p)
    \/ SaveRemoval(p)
    \/ CheckExistingMember(p)
    \/ RevokeEarlierInvitations(p)
    \/ SaveExpired(p)
    \/ UpsertMember(p)
    \/ SaveAccepted(p)
    \/ FindRevocable(p)
    \/ SaveRevoked(p)
    \/ SuspendMemberships(p)
    \/ RevokePendingInvitations(p)
    \/ MarkDeleted(p)

Next ==
    \/ \E p \in Procs : Call(p) \/ Resume(p) \/ Crash(p)
    \/ \E i \in Invitations : Lapse(i)

Spec == Init /\ [][Next]_vars

-----------------------------------------------------------------------------
(* Properties.                                                             *)

\* u holds the owner's membership of w, or is about to get it: by its own
\* registration, or because ensureLegacyMembership will create it.
ClaimsOwnership(u, w) ==
    \/ IsOwner(u, w)
    \/ /\ Live(u) /\ users[u].system
       /\ users[u].company = w /\ ~ HasMembership(u, w)
    \/ \E p \in Procs :
          /\ requests[p].user = u /\ requests[p].workspace = w
          /\ \/ At(p, "owner_upsert") \/ At(p, "oauth_point")
             \/ /\ At(p, "legacy_create") /\ requests[p].role = "owner"
                /\ ~ HasMembership(u, w)

\* A workspace never has two owners, whatever requests interleave or die.
\* ensureLegacyMembership makes any system user the owner of the company it
\* points at unless a membership exists, so this rests on every handler
\* writing the membership before the pointer, but for a company that nobody
\* else knows yet.
AtMostOneOwner ==
    \A w \in Workspaces : \A u, v \in Users :
        IsOwner(u, w) /\ IsOwner(v, w) => u = v

\* A workspace that has any member has an owner as well (removeMember and
\* updateMemberRole spare the owner; accepting an invitation must too).
SomebodyOwns ==
    \A w \in Workspaces :
        (\E u \in Users : HasMembership(u, w))
            => \E u \in Users : ClaimsOwnership(u, w)

\* An invitation that is marked accepted did give its addressee a membership
\* of that workspace: acceptInvitation writes the membership first.
AcceptedMeansJoined ==
    \A i \in Invitations :
        invitations[i].status = "accepted" =>
            LET u == invitations[i].acceptedBy IN
            /\ u \in Users
            /\ EmailOf[u] = invitations[i].email
            /\ HasMembership(u, invitations[i].workspace)

\* The owner's active membership changes only when the workspace is deleted,
\* which suspends every membership of it in the same update.
ActiveOwnerKept ==
    [][\A w \in Workspaces, u \in Users :
          IsActive(u, w) /\ IsOwner(u, w) =>
              \/ IsActive(u, w)' /\ IsOwner(u, w)'
              \/ \A v \in Users : ~ IsActive(v, w)']_vars

\* A suspended membership becomes active again only through an invitation
\* addressed to that user, accepted while it could still be accepted: neither
\* ensureLegacyMembership nor a late save of a role revives it.
NoSilentReinstatement ==
    [][\A w \in Workspaces, u \in Users :
          memberships[w][u].status = "suspended" /\ IsActive(u, w)' =>
              \E p \in Procs :
                  /\ At(p, "accept_upsert")
                  /\ requests[p].user = u
                  /\ invitations[requests[p].inv].workspace = w
                  /\ invitations[requests[p].inv].email = EmailOf[u]]_vars

\* With one request at a time (a single process), an address has at most one
\* pending invitation to a workspace: createInvitation revokes the others.
OnePendingPerAddress ==
    \A e \in Emails, w \in Workspaces : Cardinality(PendingFor(e, w)) <= 1

\* With one request at a time, an invitation that was accepted, revoked or
\* expired never changes its status again.
InvitationsSettleOnce ==
    [][\A i \in Invitations :
          invitations[i].status \in {"accepted", "revoked", "expired"} =>
              invitations'[i].status = invitations[i].status]_vars

\* With one request at a time, nobody may manage a deleted workspace.
NoManagerOfDeleted ==
    \A w \in Workspaces, u \in Users :
        workspaces[w] = "deleted" /\ IsActive(u, w) =>
            ~ CanManageMembers(memberships[w][u].role)

\* "Cannot change the workspace owner role" (workspace.service.ts:237): what
\* the guard of updateMemberRole says of the owner, asked of every handler.
OwnerRoleKept ==
    [][\A w \in Workspaces, u \in Users :
          IsOwner(u, w) => IsOwner(u, w)']_vars

-----------------------------------------------------------------------------
(* Why there is at most one owner: the inductive invariant of the proof.   *)

\* The roles that invitations and role changes give: never the owner's.
GrantedRoles == {"admin", "member", "viewer"}

\* A request holds the references its next step dereferences.
ShapedRequest ==
    {r \in Request :
       /\ r.step \notin {"idle", "company_create", "oauth_create", "expire_save"}
             => r.workspace \in Workspaces
       /\ r.step \in {"company_create", "oauth_create", "oauth_point", "owner_upsert", "link", "legacy_create",
                      "accept_upsert", "accept_save"} => r.user \in Users
       /\ r.step \in {"role_find", "role_save", "remove_find", "remove_save",
                      "add_create", "deluser_delete"} => r.target \in Users
       /\ r.step = "legacy_create" => r.role \in Roles
       /\ r.step \in {"role_find", "role_save", "invite_check", "invite_revoke",
                      "invite_create", "accept_upsert"} => r.role \in GrantedRoles
       /\ r.step \in {"invite_check", "invite_revoke", "invite_create"}
             => r.email \in Emails
       /\ r.step \in {"accept_upsert", "accept_save", "expire_save",
                      "revoke_find", "revoke_save"} => r.inv \in Invitations}

ShapedInvitation ==
    {i \in Invitation : i.status = "pending" => /\ i.workspace \in Workspaces
                                               /\ i.role \in GrantedRoles}

Shape ==
    /\ users \in [Users -> Account]
    /\ workspaces \in [Workspaces -> {"absent", "active", "deleted"}]
    /\ memberships \in [Workspaces -> [Users -> Membership]]
    /\ invitations \in [Invitations -> ShapedInvitation]
    /\ requests \in [Procs -> ShapedRequest]

\* Nothing refers to a workspace before its company document is created.
FreshUntouched ==
    \A w \in Workspaces : workspaces[w] = "absent" =>
        /\ \A u \in Users : ~ HasMembership(u, w) /\ users[u].company # w
        /\ \A p \in Procs : requests[p].workspace # w
        /\ \A i \in Invitations : invitations[i].workspace # w

\* A request about to point an account at a workspace finds its membership.
PointerBacked ==
    \A p \in Procs : requests[p].step \in {"accept_save", "link"} =>
        HasMembership(requests[p].user, requests[p].workspace)

\* No two accounts own a workspace or are about to.
UniqueClaim ==
    \A w \in Workspaces : \A u, v \in Users :
        ClaimsOwnership(u, w) /\ ClaimsOwnership(v, w) => u = v

\* The ownership of every workspace is settled before anyone can refer to it,
\* and a pointer to a workspace is written only behind a membership of it.
OwnershipInv == Shape /\ FreshUntouched /\ PointerBacked /\ UniqueClaim

-----------------------------------------------------------------------------
(* Why an accepted invitation means a membership: its inductive invariant. *)

\* A request that accepts an invitation holds one that exists, addressed to
\* its user, to the workspace it is about to write.
AddresseesMatch ==
    \A p \in Procs : requests[p].step \in {"accept_upsert", "accept_save"} =>
        LET r == requests[p] IN
        /\ invitations[r.inv].status # "none"
        /\ invitations[r.inv].email = EmailOf[r.user]
        /\ invitations[r.inv].workspace = r.workspace

AcceptedSomewhere ==
    \A i \in Invitations : invitations[i].status = "accepted" =>
        invitations[i].workspace \in Workspaces

JoinInv ==
    OwnershipInv /\ AddresseesMatch /\ AcceptedSomewhere /\ AcceptedMeansJoined

-----------------------------------------------------------------------------
(* Why an owner stays the owner: the inductive invariant.                  *)

ActiveOwner(u, w) == IsActive(u, w) /\ IsOwner(u, w)

\* Nobody manages w yet: it is new, or it predates the memberships and its
\* owner has not been seen since.
Unowned(w) ==
    /\ \A u \in Users : HasMembership(u, w) => memberships[w][u].role = "member"
    /\ \A i \in Invitations : invitations[i].workspace # w
    /\ \A p \in Procs : requests[p].workspace = w =>
          requests[p].step \in {"idle", "oauth_point", "owner_upsert",
                               "legacy_create", "add_create", "link"}

\* Whoever claims a workspace without being a member finds it unowned.
ClaimsComeFirst ==
    \A w \in Workspaces, u \in Users :
        ClaimsOwnership(u, w) /\ ~ HasMembership(u, w) => Unowned(w)

\* Only p knows the company it has just created.
Founding(p) ==
    LET w == requests[p].workspace IN
    /\ \A u \in Users : ~ HasMembership(u, w) /\ users[u].company # w
    /\ \A i \in Invitations : invitations[i].workspace # w
    /\ \A q \in Procs : requests[q].workspace = w => q = p

\* A request about to write the owner's membership is the first to do so, or,
\* after a sign-up by OAuth, rewrites what ensureLegacyMembership just wrote.
FoundersComeFirst ==
    \A p \in Procs :
        LET r == requests[p] IN
        /\ r.step \in {"oauth_create", "oauth_point"} => users[r.user].system
        /\ r.step \in {"oauth_point", "owner_upsert"} =>
              \/ Founding(p)
              \/ /\ r.step = "owner_upsert"
                 /\ "deleteWorkspace" \notin Operations
                 /\ users[r.user].system
                 /\ HasMembership(r.user, r.workspace)
                       => ActiveOwner(r.user, r.workspace)

\* A sign-up by OAuth cannot come back to a workspace deleted meanwhile.
NoLateFounder == "oauth" \notin Operations \/ "deleteWorkspace" \notin Operations

\* Nothing in flight takes the workspace from its active owner, and only the
\* deleted account of an owner can be invited again.
OwnersUnthreatened ==
    \A w \in Workspaces, u \in Users : ActiveOwner(u, w) =>
        /\ \A p \in Procs : requests[p].workspace = w =>
              /\ requests[p].step \in {"role_save", "remove_save"}
                    => requests[p].target # u
              /\ requests[p].step = "accept_upsert" => requests[p].user # u
              /\ /\ requests[p].step \in {"invite_revoke", "invite_create"}
                 /\ requests[p].email = EmailOf[u]
                 => ~ Live(u)
        /\ \A i \in PendingFor(EmailOf[u], w) : ~ Live(u)

\* A request that creates the membership of an old account knows its kind.
LegacyRoleOfAccount ==
    \A p \in Procs : requests[p].step = "legacy_create" =>
        requests[p].role = IF users[requests[p].user].system THEN "owner" ELSE "member"

\* Members, and the users that requests come back to, have had an account;
\* whoever a request is about to change or remove is a member.
EverybodyPresent ==
    /\ \A w \in Workspaces, u \in Users :
          HasMembership(u, w) => users[u].account # "absent"
    /\ \A p \in Procs :
          requests[p].step \in {"role_save", "remove_save"}
             => HasMembership(requests[p].target, requests[p].workspace)
    /\ \A p \in Procs :
          requests[p].user # None => users[requests[p].user].account # "absent"

\* Requests are at the steps of the operations that clients call.
StepsOffered ==
    \A p \in Procs :
        /\ requests[p].step \in {"oauth_create", "oauth_point"} => "oauth" \in Operations
        /\ requests[p].step \in {"delete_suspend", "delete_revoke", "delete_mark"}
              => "deleteWorkspace" \in Operations

ReignInv ==
    /\ OwnershipInv /\ AddresseesMatch
    /\ ClaimsComeFirst /\ FoundersComeFirst /\ OwnersUnthreatened
    /\ LegacyRoleOfAccount /\ EverybodyPresent /\ StepsOffered

\* The owner of an old company has not been seen since it was registered.
Waiting(w) ==
    \E u \in Users :
        /\ Live(u) /\ users[u].system /\ users[u].company = w
        /\ ~ HasMembership(u, w)
        /\ \A p \in Procs : requests[p].user = u => requests[p].step = "legacy_create"

\* w has no member yet, and whoever becomes one first becomes its owner.
Unborn(w) ==
    /\ \A u \in Users : ~ HasMembership(u, w)
    /\ \A u \in Users : users[u].company = w => users[u].system
    /\ \A i \in Invitations : invitations[i].workspace # w
    /\ \A p \in Procs : requests[p].workspace = w =>
          \/ requests[p].step \in {"idle", "oauth_point", "owner_upsert"}
          \/ requests[p].step = "legacy_create" /\ users[requests[p].user].system

Successions ==
    \A w \in Workspaces :
        (\E u \in Users : ActiveOwner(u, w)) \/ Waiting(w) \/ Unborn(w)

=============================================================================
