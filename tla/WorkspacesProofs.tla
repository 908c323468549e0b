-------------------------- MODULE WorkspacesProofs --------------------------
(***************************************************************************)
(* Proofs about Workspaces for every set of accounts, workspaces,          *)
(* invitations and concurrent requests: the types; what an accepted        *)
(* invitation means; the owners; and what holds when requests do not       *)
(* overlap, in the specification that MCWorkspaces makes of that.          *)
(***************************************************************************)
EXTENDS MCWorkspaces, FiniteSetTheorems, TLAPS

-----------------------------------------------------------------------------
(* Every variable keeps its type, and every request in flight holds the    *)
(* references its next step dereferences.                                  *)

LEMMA ShapeImpliesType == Shape => TypeOK
  BY DEF Shape, TypeOK, ShapedRequest, ShapedInvitation

LEMMA IdleShape == Idle \in ShapedRequest
  BY DEF Idle, ShapedRequest, Request, Steps, Roles

LEMMA InitShape == Init => Shape
<1> SUFFICES ASSUME Init
             PROVE  Shape
  OBVIOUS
<1>1. users \in [Users -> Account]
  BY WorkspacesAssumption DEF Init, Account
<1>2. workspaces \in [Workspaces -> {"absent", "active", "deleted"}]
  BY DEF Init
<1>3. memberships \in [Workspaces -> [Users -> Membership]]
  BY DEF Init, NoMembership, Membership, Roles
<1>4. NoInvitation \in ShapedInvitation
  BY DEF NoInvitation, ShapedInvitation, Invitation
<1>5. invitations \in [Invitations -> ShapedInvitation]
  BY <1>4 DEF Init
<1>6. requests \in [Procs -> ShapedRequest]
  BY IdleShape DEF Init
<1>7. QED
  BY <1>1, <1>2, <1>3, <1>5, <1>6 DEF Shape

\* What the documents can be, one field at a time.
LEMMA MembershipType ==
  /\ NoMembership \in Membership
  /\ \A role \in Roles : [role |-> role, status |-> "active"] \in Membership
  /\ \A m \in Membership : [m EXCEPT !.status = "suspended"] \in Membership
  /\ \A m \in Membership : \A role \in GrantedRoles :
        [m EXCEPT !.role = role] \in Membership
  BY DEF NoMembership, Membership, Roles, GrantedRoles

LEMMA InvitationShape ==
  ASSUME NEW i \in ShapedInvitation
  PROVE  /\ [i EXCEPT !.lapsed = TRUE] \in ShapedInvitation
         /\ \A s \in {"accepted", "revoked", "expired"} :
               [i EXCEPT !.status = s] \in ShapedInvitation
  BY DEF ShapedInvitation, Invitation

\* A handler that ends leaves well-shaped requests behind.
LEMMA FinishShape ==
  ASSUME Shape, NEW p \in Procs, Finish(p)
  PROVE  requests' \in [Procs -> ShapedRequest]
  BY IdleShape DEF Shape, Finish

LEMMA BeginShape ==
  ASSUME Shape, NEW p \in Procs, NEW r \in ShapedRequest, Begin(p, r)
  PROVE  Shape'
  BY DEF Shape, Begin

LEMMA RefuseShape ==
  ASSUME Shape, NEW p \in Procs, Refuse(p)
  PROVE  Shape'
  BY FinishShape DEF Shape, Refuse

\* A request may begin, or go on after a step that only reads, as r.
Sound(r) ==
    /\ r \in ShapedRequest
    /\ r.workspace # None => workspaces[r.workspace] # "absent"
    /\ r.step \notin {"owner_upsert", "oauth_point", "accept_save"}
    /\ r.step = "link" => HasMembership(r.user, r.workspace)
    /\ r.step = "legacy_create" /\ r.role = "owner" =>
          /\ Live(r.user) /\ users[r.user].system
          /\ users[r.user].company = r.workspace
          /\ ~ HasMembership(r.user, r.workspace)

\* Calls either register an account or begin a sound request.
LEMMA CallBegins ==
  ASSUME OwnershipInv, NEW p \in Procs, Call(p)
  PROVE  \/ \E u \in Users : RequestRegister(p, u) \/ OauthSignUp(p, u)
         \/ \E r \in ShapedRequest : Sound(r) /\ Begin(p, r)
<1> DEFINE Begun == \E r \in ShapedRequest : Sound(r) /\ Begin(p, r)
<1>1. \A r : Sound(r) /\ Begin(p, r) => Begun
  BY DEF Sound
<1>2. \A u \in Users, w \in Workspaces :
         IsActive(u, w) => HasMembership(u, w) /\ workspaces[w] # "absent"
  BY DEF OwnershipInv, FreshUntouched, IsActive, HasMembership, NoMembership
<1> HIDE DEF Begun
<1>3. ASSUME NEW u \in Users, CreateWorkspaceForUser(p, u)  PROVE Begun
  <2>1. Sound([Idle EXCEPT !.step = "company_create", !.user = u])
    BY DEF Sound, ShapedRequest, Request, Steps, Idle, Roles
  <2>2. QED
    BY <1>1, <1>3, <2>1 DEF CreateWorkspaceForUser
<1>4. ASSUME NEW u \in Users, EnsureLegacyMembership(p, u)  PROVE Begun
  <2> DEFINE r == [Idle EXCEPT !.step = "legacy_create", !.user = u,
                               !.workspace = users[u].company,
                               !.role = IF users[u].system THEN "owner" ELSE "member"]
  <2>1. users[u].company \in Workspaces /\ workspaces[users[u].company] # "absent"
    BY <1>4 DEF EnsureLegacyMembership, NeedsLegacyMembership, OwnershipInv,
                Shape, FreshUntouched, Account
  <2>2. r \in ShapedRequest
    BY <2>1 DEF ShapedRequest, Request, Steps, Idle, Roles
  <2>3. /\ r.user = u /\ r.workspace = users[u].company /\ r.step = "legacy_create"
        /\ r.role = "owner" => users[u].system
    BY DEF Idle
  <2>4. Live(u) /\ ~ HasMembership(u, users[u].company) /\ Begin(p, r)
    BY <1>4 DEF EnsureLegacyMembership, NeedsLegacyMembership
  <2> HIDE DEF r
  <2>5. Sound(r)
    BY <2>1, <2>2, <2>3, <2>4 DEF Sound
  <2>6. QED
    BY <1>1, <2>4, <2>5
<1>5. ASSUME NEW i \in Invitations, FindLapsed(p, i)  PROVE Begun
  <2>1. Sound([Idle EXCEPT !.step = "expire_save", !.inv = i])
    BY DEF Sound, ShapedRequest, Request, Steps, Idle, Roles
  <2>2. QED
    BY <1>1, <1>5, <2>1 DEF FindLapsed
<1>6. ASSUME NEW u \in Users, NEW i \in Invitations, AcceptInvitation(p, u, i)
      PROVE  Begun
  <2> DEFINE w == invitations[i].workspace
             role == invitations[i].role
  <2>1. w \in Workspaces /\ role \in GrantedRoles /\ workspaces[w] # "absent"
    BY <1>6 DEF AcceptInvitation, OwnershipInv, Shape, FreshUntouched,
                ShapedInvitation
  <2>2. Begin(p, [Idle EXCEPT !.step = "accept_upsert", !.user = u, !.inv = i,
                              !.workspace = w, !.role = role])
    BY <1>6 DEF AcceptInvitation
  <2> HIDE DEF w, role
  <2>3. Sound([Idle EXCEPT !.step = "accept_upsert", !.user = u, !.inv = i,
                           !.workspace = w, !.role = role])
    BY <2>1 DEF Sound, ShapedRequest, Request, Steps, Idle, Roles, GrantedRoles
  <2>4. QED
    BY <1>1, <2>2, <2>3
<1>7. ASSUME NEW u \in Users, NEW w \in Workspaces, SwitchWorkspace(p, u, w)
      PROVE  Begun
  <2>1. HasMembership(u, w) /\ workspaces[w] # "absent"
    BY <1>2, <1>7 DEF SwitchWorkspace, RequireMembership
  <2>2. Sound([Idle EXCEPT !.step = "link", !.user = u, !.workspace = w])
    BY <2>1 DEF Sound, ShapedRequest, Request, Steps, Idle, Roles
  <2>3. QED
    BY <1>1, <1>7, <2>2 DEF SwitchWorkspace
<1>8. ASSUME NEW u \in Users, NEW w \in Workspaces, DeleteWorkspace(p, u, w)
      PROVE  Begun
  <2>1. workspaces[w] # "absent"
    BY <1>2, <1>8 DEF DeleteWorkspace, RequireMembership
  <2>2. Sound([Idle EXCEPT !.step = "delete_suspend", !.workspace = w])
    BY <2>1 DEF Sound, ShapedRequest, Request, Steps, Idle, Roles
  <2>3. QED
    BY <1>1, <1>8, <2>2 DEF DeleteWorkspace
<1>9. ASSUME NEW u \in Users, NEW w \in Workspaces, NEW t \in Users,
             InviteUser(p, u, w, t)
      PROVE  Begun
  <2>1. workspaces[w] # "absent"
    BY <1>2, <1>9 DEF InviteUser, RequireMembership
  <2>2. Sound([Idle EXCEPT !.step = "add_create", !.workspace = w, !.target = t])
    BY <2>1 DEF Sound, ShapedRequest, Request, Steps, Idle, Roles
  <2>3. QED
    BY <1>1, <1>9, <2>2 DEF InviteUser
<1>10. ASSUME NEW u \in Users, NEW w \in Workspaces, NEW t \in Users,
              DeleteUser(p, u, w, t)
       PROVE  Begun
  <2>1. workspaces[w] # "absent"
    BY <1>2, <1>10 DEF DeleteUser, RequireMembership
  <2>2. Sound([Idle EXCEPT !.step = "deluser_delete", !.workspace = w, !.target = t])
    BY <2>1 DEF Sound, ShapedRequest, Request, Steps, Idle, Roles
  <2>3. QED
    BY <1>1, <1>10, <2>2 DEF DeleteUser
<1>11. ASSUME NEW u \in Users, NEW w \in Workspaces, NEW t \in Users,
              RemoveMember(p, u, w, t)
       PROVE  Begun
  <2>1. workspaces[w] # "absent"
    BY <1>2, <1>11 DEF RemoveMember, RequireMembership
  <2>2. Sound([Idle EXCEPT !.step = "remove_find", !.workspace = w, !.target = t])
    BY <2>1 DEF Sound, ShapedRequest, Request, Steps, Idle, Roles
  <2>3. QED
    BY <1>1, <1>11, <2>2 DEF RemoveMember
<1>12. ASSUME NEW u \in Users, NEW w \in Workspaces, NEW t \in Users,
              NEW role \in OfferedRoles, UpdateMemberRole(p, u, w, t, role)
       PROVE  Begun
  <2>1. workspaces[w] # "absent" /\ role \in GrantedRoles
    BY <1>2, <1>12, WorkspacesAssumption
    DEF UpdateMemberRole, RequireMembership, GrantedRoles
  <2>2. Sound([Idle EXCEPT !.step = "role_find", !.workspace = w, !.target = t,
                           !.role = role])
    BY <2>1 DEF Sound, ShapedRequest, Request, Steps, Idle, Roles, GrantedRoles
  <2>3. QED
    BY <1>1, <1>12, <2>2 DEF UpdateMemberRole
<1>13. ASSUME NEW u \in Users, NEW w \in Workspaces, NEW e \in Emails,
              NEW role \in OfferedRoles, CreateInvitation(p, u, w, e, role)
       PROVE  Begun
  <2>1. workspaces[w] # "absent" /\ role \in GrantedRoles
    BY <1>2, <1>13, WorkspacesAssumption
    DEF CreateInvitation, RequireMembership, GrantedRoles
  <2>2. Sound([Idle EXCEPT !.step = "invite_check", !.workspace = w, !.email = e,
                           !.role = role])
    BY <2>1 DEF Sound, ShapedRequest, Request, Steps, Idle, Roles, GrantedRoles
  <2>3. QED
    BY <1>1, <1>13, <2>2 DEF CreateInvitation
<1>14. ASSUME NEW u \in Users, NEW w \in Workspaces, NEW i \in Invitations,
              RevokeInvitation(p, u, w, i)
       PROVE  Begun
  <2>1. workspaces[w] # "absent"
    BY <1>2, <1>14 DEF RevokeInvitation, RequireMembership
  <2>2. Sound([Idle EXCEPT !.step = "revoke_find", !.workspace = w, !.inv = i])
    BY <2>1 DEF Sound, ShapedRequest, Request, Steps, Idle, Roles
  <2>3. QED
    BY <1>1, <1>14, <2>2 DEF RevokeInvitation
<1>15. QED
  BY <1>3, <1>4, <1>5, <1>6, <1>7, <1>8, <1>9, <1>10, <1>11, <1>12, <1>13, <1>14
  DEF Call, Begun

-----------------------------------------------------------------------------
(* At most one owner.  Every step but the creation of a company keeps the  *)
(* invariant for the same reasons: memberships do not disappear, nothing   *)
(* new refers to an absent workspace, and a claim of ownership that holds  *)
(* afterwards held before.                                                 *)

LEMMA InitOwnership == Init => OwnershipInv
<1> SUFFICES ASSUME Init
             PROVE  OwnershipInv
  OBVIOUS
<1>1. Shape
  BY InitShape
<1>2. FreshUntouched
  BY WorkspacesAssumption
  DEF Init, FreshUntouched, HasMembership, NoMembership, Idle, NoInvitation
<1>3. PointerBacked
  BY DEF Init, PointerBacked, Idle
<1>4. ASSUME NEW w \in Workspaces, NEW u \in Users, ClaimsOwnership(u, w)
      PROVE  u \in LegacySystem /\ LegacyCompany[u] = w
  <2>1. ~ IsOwner(u, w)
    BY DEF Init, IsOwner, NoMembership
  <2>2. \A p \in Procs : requests[p].step = "idle"
    BY DEF Init, Idle
  <2>3. users[u].system /\ users[u].company = w
    BY <1>4, <2>1, <2>2 DEF ClaimsOwnership, At
  <2>4. QED
    BY <2>3 DEF Init
<1>5. UniqueClaim
  BY <1>4, WorkspacesAssumption DEF UniqueClaim
<1>6. QED
  BY <1>1, <1>2, <1>3, <1>5 DEF OwnershipInv

\* p's request becomes s.
Becomes(p, s) == requests' = [requests EXCEPT ![p] = s]

\* What every step but the creation of a company keeps: the invariant, the
\* memberships, and no claim of ownership is new.
Kept ==
  /\ OwnershipInv'
  /\ \A u \in Users, w \in Workspaces : HasMembership(u, w) => HasMembership(u, w)'
  /\ \A u \in Users, w \in Workspaces : ClaimsOwnership(u, w)' => ClaimsOwnership(u, w)

LEMMA StepKeeps ==
  ASSUME OwnershipInv, Shape',
         NEW p \in Procs, NEW s \in ShapedRequest, Becomes(p, s),
         workspaces' = workspaces,
         s.workspace # None => workspaces[s.workspace] # "absent",
         s.step \in {"accept_save", "link"} => HasMembership(s.user, s.workspace)',
         s.step \in {"owner_upsert", "oauth_point"}
            => ClaimsOwnership(s.user, s.workspace),
         s.step = "legacy_create" /\ s.role = "owner"
            => ClaimsOwnership(s.user, s.workspace),
         \A u \in Users, w \in Workspaces : HasMembership(u, w) => HasMembership(u, w)',
         \A w \in Workspaces : workspaces[w] = "absent" =>
            /\ \A u \in Users : ~ HasMembership(u, w)' /\ users'[u].company # w
            /\ \A i \in Invitations : invitations'[i].workspace # w,
         \A u \in Users, w \in Workspaces : IsOwner(u, w)' => ClaimsOwnership(u, w),
         \A u \in Users, w \in Workspaces :
            Live(u)' /\ users'[u].system /\ users'[u].company = w
              /\ ~ HasMembership(u, w)' => ClaimsOwnership(u, w)
  PROVE  Kept
<1>1. \A q \in Procs : requests'[q] = IF q = p THEN s ELSE requests[q]
  BY DEF OwnershipInv, Shape, Becomes
<1>2. FreshUntouched'
  <2> SUFFICES ASSUME NEW w \in Workspaces, workspaces'[w] = "absent"
               PROVE  /\ \A u \in Users : ~ HasMembership(u, w)' /\ users'[u].company # w
                      /\ \A q \in Procs : requests'[q].workspace # w
                      /\ \A i \in Invitations : invitations'[i].workspace # w
    BY DEF FreshUntouched, HasMembership
  <2>1. s.workspace # w
    BY WorkspacesAssumption
  <2>2. \A q \in Procs : requests[q].workspace # w
    BY DEF OwnershipInv, FreshUntouched
  <2>3. QED
    BY <1>1, <2>1, <2>2
<1>3. PointerBacked'
  <2>1. ASSUME NEW q \in Procs, requests'[q].step \in {"accept_save", "link"},
               NEW u, NEW w, u = requests'[q].user, w = requests'[q].workspace
        PROVE  HasMembership(u, w)'
    <3>1. CASE q = p
      BY <1>1, <2>1, <3>1
    <3>2. CASE q # p
      <4>1. requests[q] = requests'[q] /\ requests[q] \in ShapedRequest
        BY <1>1, <3>2 DEF OwnershipInv, Shape
      <4>2. u \in Users /\ w \in Workspaces
        BY <2>1, <4>1 DEF ShapedRequest
      <4>3. HasMembership(u, w)
        BY <2>1, <4>1 DEF OwnershipInv, PointerBacked
      <4>4. QED
        BY <4>2, <4>3
    <3>3. QED
      BY <3>1, <3>2
  <2>2. QED
    BY <2>1 DEF PointerBacked, HasMembership
<1>4. ASSUME NEW u \in Users, NEW w \in Workspaces, ClaimsOwnership(u, w)'
      PROVE  ClaimsOwnership(u, w)
  <2>1. CASE IsOwner(u, w)'
    BY <2>1
  <2>2. CASE Live(u)' /\ users'[u].system /\ users'[u].company = w
               /\ ~ HasMembership(u, w)'
    BY <2>2
  <2>3. ASSUME NEW q \in Procs,
               requests'[q].user = u, requests'[q].workspace = w,
               \/ At(q, "owner_upsert")' \/ At(q, "oauth_point")'
               \/ /\ At(q, "legacy_create")' /\ requests'[q].role = "owner"
                  /\ ~ HasMembership(u, w)'
        PROVE  ClaimsOwnership(u, w)
    <3>1. CASE q = p
      BY <1>1, <2>3, <3>1 DEF At
    <3>2. CASE q # p
      BY <1>1, <2>3, <3>2 DEF At, ClaimsOwnership
    <3>3. QED
      BY <3>1, <3>2
  <2>4. QED
    BY <1>4, <2>1, <2>2, <2>3 DEF ClaimsOwnership
<1>5. UniqueClaim'
  BY <1>4 DEF UniqueClaim, OwnershipInv
<1>6. QED
  BY <1>2, <1>3, <1>4, <1>5 DEF Kept, OwnershipInv

LEMMA BeginKeeps ==
  ASSUME OwnershipInv, NEW p \in Procs, NEW r \in ShapedRequest, Sound(r), Begin(p, r)
  PROVE  Kept
<1>1. Shape'
  BY BeginShape DEF OwnershipInv
<1>2. /\ \A u, w : HasMembership(u, w)' <=> HasMembership(u, w)
      /\ \A u, w : IsOwner(u, w)' <=> IsOwner(u, w)
      /\ \A u : Live(u)' <=> Live(u)
      /\ UNCHANGED <<users, workspaces, invitations>>
  BY DEF Begin, HasMembership, IsOwner, Live
<1>3. Becomes(p, r)
  BY DEF Begin, Becomes
<1>4. \A u \in Users, w \in Workspaces :
         \/ IsOwner(u, w)
         \/ Live(u) /\ users[u].system /\ users[u].company = w /\ ~ HasMembership(u, w)
         => ClaimsOwnership(u, w)
  BY DEF ClaimsOwnership
<1>5. r.step = "legacy_create" => r.user \in Users /\ r.workspace \in Workspaces
  BY DEF ShapedRequest
<1>6. /\ r.workspace # None => workspaces[r.workspace] # "absent"
      /\ r.step \in {"accept_save", "link"} => HasMembership(r.user, r.workspace)
      /\ r.step \notin {"owner_upsert", "oauth_point"}
      /\ r.step = "legacy_create" /\ r.role = "owner"
            => ClaimsOwnership(r.user, r.workspace)
  BY <1>4, <1>5 DEF Sound
<1>7. \A w \in Workspaces : workspaces[w] = "absent" =>
         /\ \A u \in Users : ~ HasMembership(u, w) /\ users[u].company # w
         /\ \A i \in Invitations : invitations[i].workspace # w
  BY DEF OwnershipInv, FreshUntouched
<1>8. QED
  BY <1>1, <1>2, <1>3, <1>4, <1>6, <1>7, StepKeeps

LEMMA RefuseKeeps ==
  ASSUME OwnershipInv, NEW p \in Procs, Refuse(p)
  PROVE  Kept
<1>1. Sound(Idle)
  BY IdleShape DEF Sound, Idle
<1>2. Begin(p, Idle)
  BY DEF Refuse, Finish, Begin
<1>3. QED
  BY <1>1, <1>2, IdleShape, BeginKeeps

\* A step that writes only memberships of the request's workspace.
LEMMA MembershipStepKeeps ==
  ASSUME OwnershipInv,
         NEW p \in Procs, NEW s \in ShapedRequest, Becomes(p, s),
         UNCHANGED <<users, workspaces, invitations>>,
         NEW w0 \in Workspaces, workspaces[w0] # "absent",
         s.workspace \in {None, w0},
         s.step \notin {"owner_upsert", "oauth_point", "legacy_create"},
         s.step \in {"accept_save", "link"} => HasMembership(s.user, s.workspace)',
         memberships' \in [Workspaces -> [Users -> Membership]],
         \A u \in Users, w \in Workspaces : HasMembership(u, w) => HasMembership(u, w)',
         \A w \in Workspaces \ {w0} : memberships'[w] = memberships[w],
         \A u \in Users : IsOwner(u, w0)' => ClaimsOwnership(u, w0)
  PROVE  Kept
<1>1. Shape'
  BY DEF OwnershipInv, Shape, Becomes
<1>2. \A u \in Users, w \in Workspaces : IsOwner(u, w)' => ClaimsOwnership(u, w)
  <2> SUFFICES ASSUME NEW u \in Users, NEW w \in Workspaces, IsOwner(u, w)'
               PROVE  ClaimsOwnership(u, w)
    OBVIOUS
  <2>1. CASE w = w0
    BY <2>1
  <2>2. CASE w # w0
    BY <2>2 DEF IsOwner, ClaimsOwnership
  <2>3. QED
    BY <2>1, <2>2
<1>3. \A u \in Users, w \in Workspaces :
         Live(u)' /\ users'[u].system /\ users'[u].company = w
           /\ ~ HasMembership(u, w)' => ClaimsOwnership(u, w)
  BY DEF Live, ClaimsOwnership
<1>4. \A w \in Workspaces : workspaces[w] = "absent" =>
         /\ \A u \in Users : ~ HasMembership(u, w)' /\ users'[u].company # w
         /\ \A i \in Invitations : invitations'[i].workspace # w
  <2> SUFFICES ASSUME NEW w \in Workspaces, workspaces[w] = "absent"
               PROVE  /\ \A u \in Users : ~ HasMembership(u, w)' /\ users'[u].company # w
                      /\ \A i \in Invitations : invitations'[i].workspace # w
    OBVIOUS
  <2>1. memberships'[w] = memberships[w]
    OBVIOUS
  <2>2. QED
    BY <2>1 DEF OwnershipInv, FreshUntouched, HasMembership
<1>5. s.workspace # None => workspaces[s.workspace] # "absent"
  OBVIOUS
<1>6. QED
  BY <1>1, <1>2, <1>3, <1>4, <1>5, StepKeeps

\* What p's request may rely on: its workspace was created.
LEMMA RequestFacts ==
  ASSUME OwnershipInv, NEW p \in Procs
  PROVE  /\ requests[p] \in ShapedRequest
         /\ requests[p].workspace \in Workspaces =>
               workspaces[requests[p].workspace] # "absent"
         /\ requests[p].step \in {"accept_save", "link"} =>
               HasMembership(requests[p].user, requests[p].workspace)
  BY DEF OwnershipInv, Shape, FreshUntouched, PointerBacked

\* Going on to step s keeps the shape of a request when s needs no more than
\* the step before.
LEMMA ContinueShape ==
  ASSUME NEW r \in ShapedRequest, NEW s \in Steps,
         <<r.step, s>> \in {<<"owner_upsert", "link">>, <<"accept_save", "link">>,
                           <<"oauth_point", "owner_upsert">>,
                           <<"accept_upsert", "accept_save">>,
                           <<"role_find", "role_save">>,
                           <<"remove_find", "remove_save">>,
                           <<"invite_check", "invite_revoke">>,
                           <<"invite_revoke", "invite_create">>,
                           <<"revoke_find", "revoke_save">>,
                           <<"delete_suspend", "delete_revoke">>,
                           <<"delete_revoke", "delete_mark">>}
  PROVE  [r EXCEPT !.step = s] \in ShapedRequest
<1> DEFINE n == [r EXCEPT !.step = s]
<1>1. n \in Request
  BY DEF ShapedRequest, Request
<1>2. /\ n.step = s /\ n.user = r.user /\ n.workspace = r.workspace
      /\ n.target = r.target /\ n.role = r.role /\ n.email = r.email
      /\ n.inv = r.inv
  BY DEF ShapedRequest, Request
<1> HIDE DEF n
<1>3. n \in ShapedRequest
  BY <1>1, <1>2 DEF ShapedRequest
<1>4. QED
  BY <1>3 DEF n

\* In particular, a step that writes one membership m.
LEMMA WriteKeeps ==
  ASSUME OwnershipInv,
         NEW p \in Procs, NEW s \in ShapedRequest, Becomes(p, s),
         UNCHANGED <<users, workspaces, invitations>>,
         NEW w0 \in Workspaces, workspaces[w0] # "absent", NEW u0 \in Users,
         NEW m \in Membership, m # NoMembership,
         m.role = "owner" => ClaimsOwnership(u0, w0),
         memberships' = [memberships EXCEPT ![w0][u0] = m],
         s.workspace \in {None, w0},
         s.step \notin {"owner_upsert", "oauth_point", "legacy_create"},
         s.step \in {"accept_save", "link"} => s.user = u0 /\ s.workspace = w0
  PROVE  Kept
<1>1. memberships \in [Workspaces -> [Users -> Membership]]
  BY DEF OwnershipInv, Shape
<1>2. memberships' \in [Workspaces -> [Users -> Membership]]
  BY <1>1
<1>3. \A u \in Users, w \in Workspaces :
         memberships'[w][u] = IF u = u0 /\ w = w0 THEN m ELSE memberships[w][u]
  BY <1>1
<1>4. \A u \in Users, w \in Workspaces : HasMembership(u, w) => HasMembership(u, w)'
  BY <1>3 DEF HasMembership
<1>5. HasMembership(u0, w0)'
  BY <1>3 DEF HasMembership
<1>6. \A w \in Workspaces \ {w0} : memberships'[w] = memberships[w]
  BY <1>1
<1>7. \A u \in Users : IsOwner(u, w0)' => ClaimsOwnership(u, w0)
  BY <1>3 DEF IsOwner, ClaimsOwnership
<1>8. QED
  BY <1>2, <1>4, <1>5, <1>6, <1>7, MembershipStepKeeps

LEMMA UpsertOwnerKeeps ==
  ASSUME OwnershipInv, NEW p \in Procs, UpsertOwner(p)
  PROVE  Kept
<1>1. PICK r \in ShapedRequest : r = requests[p]
  BY RequestFacts
<1>2. /\ r.step = "owner_upsert"
      /\ r.user \in Users /\ r.workspace \in Workspaces
      /\ workspaces[r.workspace] # "absent"
  BY <1>1, RequestFacts DEF UpsertOwner, At, ShapedRequest
<1>3. PICK s \in ShapedRequest : s = [r EXCEPT !.step = "link"]
  BY <1>2, ContinueShape DEF Steps
<1>4. s.step = "link" /\ s.user = r.user /\ s.workspace = r.workspace
  BY <1>3 DEF ShapedRequest, Request
<1>5. PICK m \in Membership : m = [role |-> "owner", status |-> "active"]
  BY MembershipType DEF Roles
<1>6. m # NoMembership
  BY <1>5 DEF NoMembership
<1>7. /\ memberships' = [memberships EXCEPT ![r.workspace][r.user] = m]
      /\ Becomes(p, s)
      /\ UNCHANGED <<users, workspaces, invitations>>
  BY <1>1, <1>3, <1>5 DEF UpsertOwner, Continue, Becomes
<1>8. ClaimsOwnership(r.user, r.workspace)
  BY <1>1, <1>2 DEF ClaimsOwnership, At
<1>9. QED
  BY <1>2, <1>4, <1>6, <1>7, <1>8, WriteKeeps

LEMMA CreateLegacyMembershipKeeps ==
  ASSUME OwnershipInv, NEW p \in Procs, CreateLegacyMembership(p)
  PROVE  Kept
<1>1. PICK r \in ShapedRequest : r = requests[p]
  BY RequestFacts
<1>2. /\ r.step = "legacy_create"
      /\ r.user \in Users /\ r.workspace \in Workspaces /\ r.role \in Roles
      /\ workspaces[r.workspace] # "absent"
  BY <1>1, RequestFacts DEF CreateLegacyMembership, At, ShapedRequest
<1>3. /\ Idle \in ShapedRequest /\ Idle.step = "idle" /\ Idle.workspace = None
      /\ Becomes(p, Idle)
      /\ UNCHANGED <<users, workspaces, invitations>>
  BY IdleShape DEF CreateLegacyMembership, Finish, Becomes, Idle
<1>4. CASE HasMembership(r.user, r.workspace)
  <2>1. Refuse(p)
    BY <1>1, <1>4 DEF CreateLegacyMembership, Refuse
  <2>2. QED
    BY <2>1, RefuseKeeps
<1>5. CASE ~ HasMembership(r.user, r.workspace)
  <2>1. PICK m \in Membership : m = [role |-> r.role, status |-> "active"]
    BY <1>2, MembershipType
  <2>2. m # NoMembership /\ m.role = r.role
    BY <2>1 DEF NoMembership
  <2>3. memberships' = [memberships EXCEPT ![r.workspace][r.user] = m]
    BY <1>1, <1>5, <2>1 DEF CreateLegacyMembership
  <2>4. r.role = "owner" => ClaimsOwnership(r.user, r.workspace)
    BY <1>1, <1>2, <1>5 DEF ClaimsOwnership, At
  <2>5. QED
    BY <1>2, <1>3, <2>2, <2>3, <2>4, WriteKeeps
<1>6. QED
  BY <1>4, <1>5

LEMMA SaveRoleKeeps ==
  ASSUME OwnershipInv, NEW p \in Procs, SaveRole(p)
  PROVE  Kept
<1>1. PICK r \in ShapedRequest : r = requests[p]
  BY RequestFacts
<1>2. /\ r.target \in Users /\ r.workspace \in Workspaces /\ r.role \in GrantedRoles
      /\ workspaces[r.workspace] # "absent"
  BY <1>1, RequestFacts DEF SaveRole, At, ShapedRequest
<1>3. /\ Idle \in ShapedRequest /\ Idle.step = "idle" /\ Idle.workspace = None
      /\ Becomes(p, Idle)
      /\ UNCHANGED <<users, workspaces, invitations>>
  BY IdleShape DEF SaveRole, Finish, Becomes, Idle
<1>4. CASE r.role = r.seen
  <2>1. Refuse(p)
    BY <1>1, <1>4 DEF SaveRole, Refuse
  <2>2. QED
    BY <2>1, RefuseKeeps
<1>5. CASE r.role # r.seen
  <2>1. memberships[r.workspace][r.target] \in Membership
    BY <1>2 DEF OwnershipInv, Shape
  <2>2. PICK m \in Membership :
           m = [memberships[r.workspace][r.target] EXCEPT !.role = r.role]
    BY <1>2, <2>1, MembershipType
  <2>3. m.role = r.role
    BY <2>1, <2>2 DEF Membership
  <2>4. m # NoMembership /\ m.role # "owner"
    BY <1>2, <2>3 DEF NoMembership, GrantedRoles
  <2>5. memberships' = [memberships EXCEPT ![r.workspace][r.target] = m]
    BY <1>1, <1>5, <2>2 DEF SaveRole
  <2>6. QED
    BY <1>2, <1>3, <2>4, <2>5, WriteKeeps
<1>6. QED
  BY <1>4, <1>5

LEMMA SaveRemovalKeeps ==
  ASSUME OwnershipInv, NEW p \in Procs, SaveRemoval(p)
  PROVE  Kept
<1>1. PICK r \in ShapedRequest : r = requests[p]
  BY RequestFacts
<1>2. /\ r.target \in Users /\ r.workspace \in Workspaces
      /\ workspaces[r.workspace] # "absent"
  BY <1>1, RequestFacts DEF SaveRemoval, At, ShapedRequest
<1>3. /\ Idle \in ShapedRequest /\ Idle.step = "idle" /\ Idle.workspace = None
      /\ Becomes(p, Idle)
      /\ UNCHANGED <<users, workspaces, invitations>>
  BY IdleShape DEF SaveRemoval, Finish, Becomes, Idle
<1>4. memberships[r.workspace][r.target] \in Membership
  BY <1>2 DEF OwnershipInv, Shape
<1>5. PICK m \in Membership :
         m = [memberships[r.workspace][r.target] EXCEPT !.status = "suspended"]
  BY <1>4, MembershipType
<1>6. m.role = memberships[r.workspace][r.target].role /\ m.status = "suspended"
  BY <1>4, <1>5 DEF Membership
<1>7. m # NoMembership
  BY <1>6 DEF NoMembership
<1>8. m.role = "owner" => ClaimsOwnership(r.target, r.workspace)
  BY <1>6 DEF ClaimsOwnership, IsOwner
<1>9. memberships' = [memberships EXCEPT ![r.workspace][r.target] = m]
  BY <1>1, <1>5 DEF SaveRemoval
<1>10. QED
  BY <1>2, <1>3, <1>7, <1>8, <1>9, WriteKeeps

LEMMA UpsertMemberKeeps ==
  ASSUME OwnershipInv, NEW p \in Procs, UpsertMember(p)
  PROVE  Kept
<1>1. PICK r \in ShapedRequest : r = requests[p]
  BY RequestFacts
<1>2. /\ r.step = "accept_upsert"
      /\ r.user \in Users /\ r.workspace \in Workspaces /\ r.role \in GrantedRoles
      /\ workspaces[r.workspace] # "absent"
  BY <1>1, RequestFacts DEF UpsertMember, At, ShapedRequest
<1>3. PICK s \in ShapedRequest : s = [r EXCEPT !.step = "accept_save"]
  BY <1>2, ContinueShape DEF Steps
<1>4. s.step = "accept_save" /\ s.user = r.user /\ s.workspace = r.workspace
  BY <1>3 DEF ShapedRequest, Request
<1>5. PICK m \in Membership : m = [role |-> r.role, status |-> "active"]
  BY <1>2, MembershipType DEF Roles, GrantedRoles
<1>6. m # NoMembership /\ m.role # "owner"
  BY <1>2, <1>5 DEF NoMembership, GrantedRoles
<1>7. /\ memberships' = [memberships EXCEPT ![r.workspace][r.user] = m]
      /\ Becomes(p, s)
      /\ UNCHANGED <<users, workspaces, invitations>>
  BY <1>1, <1>3, <1>5 DEF UpsertMember, Continue, Becomes
<1>8. QED
  BY <1>2, <1>4, <1>6, <1>7, WriteKeeps

LEMMA SuspendMembershipsKeeps ==
  ASSUME OwnershipInv, NEW p \in Procs, SuspendMemberships(p)
  PROVE  Kept
<1>1. PICK r \in ShapedRequest : r = requests[p]
  BY RequestFacts
<1>2. /\ r.step = "delete_suspend" /\ r.workspace \in Workspaces
      /\ workspaces[r.workspace] # "absent"
  BY <1>1, RequestFacts DEF SuspendMemberships, At, ShapedRequest
<1>3. PICK s \in ShapedRequest : s = [r EXCEPT !.step = "delete_revoke"]
  BY <1>2, ContinueShape DEF Steps
<1>4. s.step = "delete_revoke" /\ s.workspace = r.workspace
  BY <1>3 DEF ShapedRequest, Request
<1>5. PICK f : f = [u \in Users |->
                      IF HasMembership(u, r.workspace)
                      THEN [memberships[r.workspace][u] EXCEPT !.status = "suspended"]
                      ELSE NoMembership]
  OBVIOUS
<1>6. /\ memberships' = [memberships EXCEPT ![r.workspace] = f]
      /\ Becomes(p, s)
      /\ UNCHANGED <<users, workspaces, invitations>>
  BY <1>1, <1>3, <1>5 DEF SuspendMemberships, Continue, Becomes
<1>7. memberships \in [Workspaces -> [Users -> Membership]]
  BY DEF OwnershipInv, Shape
<1>8. f \in [Users -> Membership]
  BY <1>2, <1>5, <1>7, MembershipType
<1>9. ASSUME NEW u \in Users
      PROVE  /\ f[u].role = memberships[r.workspace][u].role
             /\ HasMembership(u, r.workspace) => f[u] # NoMembership
  <2>1. memberships[r.workspace][u] \in Membership
    BY <1>2, <1>7
  <2>2. CASE HasMembership(u, r.workspace)
    <3>1. f[u] = [memberships[r.workspace][u] EXCEPT !.status = "suspended"]
      BY <1>5, <2>2
    <3>2. f[u].role = memberships[r.workspace][u].role /\ f[u].status = "suspended"
      BY <2>1, <3>1 DEF Membership
    <3>3. QED
      BY <3>2 DEF NoMembership
  <2>3. CASE ~ HasMembership(u, r.workspace)
    BY <1>5, <2>3 DEF HasMembership
  <2>4. QED
    BY <2>2, <2>3
<1>10. memberships' \in [Workspaces -> [Users -> Membership]]
  BY <1>6, <1>7, <1>8
<1>11. memberships'[r.workspace] = f
  BY <1>2, <1>6, <1>7
<1>12. \A w \in Workspaces \ {r.workspace} : memberships'[w] = memberships[w]
  BY <1>6, <1>7
<1>13. \A u \in Users, w \in Workspaces : HasMembership(u, w) => HasMembership(u, w)'
  BY <1>9, <1>11, <1>12 DEF HasMembership
<1>14. \A u \in Users : IsOwner(u, r.workspace)' => ClaimsOwnership(u, r.workspace)
  BY <1>9, <1>11 DEF IsOwner, ClaimsOwnership
<1>15. QED
  BY <1>2, <1>4, <1>6, <1>10, <1>12, <1>13, <1>14, MembershipStepKeeps

\* A step that writes only invitations, and refers to no absent workspace.
LEMMA InvitationStepKeeps ==
  ASSUME OwnershipInv,
         NEW p \in Procs, NEW s \in ShapedRequest, Becomes(p, s),
         UNCHANGED <<users, workspaces, memberships>>,
         invitations' \in [Invitations -> ShapedInvitation],
         \A i \in Invitations :
            \/ invitations'[i].workspace = invitations[i].workspace
            \/ invitations'[i].workspace = requests[p].workspace,
         s.workspace \in {None, requests[p].workspace},
         s.step \notin {"owner_upsert", "oauth_point", "legacy_create", "accept_save"},
         s.step = "link" => HasMembership(s.user, s.workspace)
  PROVE  Kept
<1>1. Shape'
  BY DEF OwnershipInv, Shape, Becomes
<1>2. /\ \A u, w : HasMembership(u, w)' <=> HasMembership(u, w)
      /\ \A u, w : IsOwner(u, w)' <=> IsOwner(u, w)
      /\ \A u : Live(u)' <=> Live(u)
      /\ users' = users /\ workspaces' = workspaces
  BY DEF HasMembership, IsOwner, Live
<1>3. \A u \in Users, w \in Workspaces :
         \/ IsOwner(u, w)
         \/ Live(u) /\ users[u].system /\ users[u].company = w /\ ~ HasMembership(u, w)
         => ClaimsOwnership(u, w)
  BY DEF ClaimsOwnership
<1>4. \A w \in Workspaces : workspaces[w] = "absent" =>
         /\ \A u \in Users : ~ HasMembership(u, w) /\ users[u].company # w
         /\ \A i \in Invitations : invitations'[i].workspace # w
         /\ requests[p].workspace # w
  BY DEF OwnershipInv, FreshUntouched
<1>5. s.workspace # None => workspaces[s.workspace] # "absent"
  <2>1. s.workspace \in Workspaces \union {None}
    BY DEF ShapedRequest, Request
  <2>2. QED
    BY <1>4, <2>1
<1>6. QED
  BY <1>1, <1>2, <1>3, <1>4, <1>5, StepKeeps

\* Updating many invitations at once: the chosen ones become revoked.
LEMMA RevokeManyShape ==
  ASSUME OwnershipInv, NEW Chosen,
         invitations' = [i \in Invitations |->
                           IF i \in Chosen
                           THEN [invitations[i] EXCEPT !.status = "revoked"]
                           ELSE invitations[i]]
  PROVE  /\ invitations' \in [Invitations -> ShapedInvitation]
         /\ \A i \in Invitations : invitations'[i].workspace = invitations[i].workspace
<1>1. \A i \in Invitations : invitations[i] \in ShapedInvitation
  BY DEF OwnershipInv, Shape
<1>2. \A i \in ShapedInvitation :
         /\ [i EXCEPT !.status = "revoked"] \in ShapedInvitation
         /\ [i EXCEPT !.status = "revoked"].workspace = i.workspace
  BY InvitationShape DEF ShapedInvitation, Invitation
<1>3. QED
  BY <1>1, <1>2

\* Saving the status of one invitation.
LEMMA SaveStatusShape ==
  ASSUME OwnershipInv, NEW i0 \in Invitations, NEW s \in {"accepted", "revoked", "expired"},
         invitations' = [invitations EXCEPT ![i0].status = s]
  PROVE  /\ invitations' \in [Invitations -> ShapedInvitation]
         /\ \A i \in Invitations : invitations'[i].workspace = invitations[i].workspace
<1>1. \A i \in Invitations : invitations[i] \in ShapedInvitation
  BY DEF OwnershipInv, Shape
<1>2. \A i \in ShapedInvitation : [i EXCEPT !.status = s].workspace = i.workspace
  BY DEF ShapedInvitation, Invitation
<1>3. \A i \in ShapedInvitation : [i EXCEPT !.status = s] \in ShapedInvitation
  BY InvitationShape
<1>4. invitations \in [Invitations -> ShapedInvitation]
  BY DEF OwnershipInv, Shape
<1>5. QED
  BY <1>1, <1>2, <1>3, <1>4

LEMMA RevokeEarlierInvitationsKeeps ==
  ASSUME OwnershipInv, NEW p \in Procs, RevokeEarlierInvitations(p)
  PROVE  Kept
<1>1. PICK r \in ShapedRequest : r = requests[p]
  BY RequestFacts
<1>2. r.step = "invite_revoke"
  BY <1>1 DEF RevokeEarlierInvitations, At
<1>3. PICK s \in ShapedRequest : s = [r EXCEPT !.step = "invite_create"]
  BY <1>2, ContinueShape DEF Steps
<1>4. s.step = "invite_create" /\ s.workspace = r.workspace
  BY <1>3 DEF ShapedRequest, Request
<1>5. PICK Chosen : Chosen = PendingFor(r.email, r.workspace)
  OBVIOUS
<1>6. /\ invitations' = [i \in Invitations |->
                           IF i \in Chosen
                           THEN [invitations[i] EXCEPT !.status = "revoked"]
                           ELSE invitations[i]]
      /\ Becomes(p, s)
      /\ UNCHANGED <<users, workspaces, memberships>>
  BY <1>1, <1>3, <1>5 DEF RevokeEarlierInvitations, Continue, Becomes
<1>7. /\ invitations' \in [Invitations -> ShapedInvitation]
      /\ \A i \in Invitations : invitations'[i].workspace = invitations[i].workspace
  BY <1>6, RevokeManyShape
<1>8. QED
  BY <1>1, <1>4, <1>6, <1>7, InvitationStepKeeps

LEMMA RevokePendingInvitationsKeeps ==
  ASSUME OwnershipInv, NEW p \in Procs, RevokePendingInvitations(p)
  PROVE  Kept
<1>1. PICK r \in ShapedRequest : r = requests[p]
  BY RequestFacts
<1>2. r.step = "delete_revoke"
  BY <1>1 DEF RevokePendingInvitations, At
<1>3. PICK s \in ShapedRequest : s = [r EXCEPT !.step = "delete_mark"]
  BY <1>2, ContinueShape DEF Steps
<1>4. s.step = "delete_mark" /\ s.workspace = r.workspace
  BY <1>3 DEF ShapedRequest, Request
<1>5. PICK Chosen : Chosen = {i \in Invitations : /\ invitations[i].status = "pending"
                                                 /\ invitations[i].workspace = r.workspace}
  OBVIOUS
<1>6. /\ invitations' = [i \in Invitations |->
                           IF i \in Chosen
                           THEN [invitations[i] EXCEPT !.status = "revoked"]
                           ELSE invitations[i]]
      /\ Becomes(p, s)
      /\ UNCHANGED <<users, workspaces, memberships>>
  BY <1>1, <1>3, <1>5 DEF RevokePendingInvitations, Continue, Becomes
<1>7. /\ invitations' \in [Invitations -> ShapedInvitation]
      /\ \A i \in Invitations : invitations'[i].workspace = invitations[i].workspace
  BY <1>6, RevokeManyShape
<1>8. QED
  BY <1>1, <1>4, <1>6, <1>7, InvitationStepKeeps

LEMMA StoreInvitationKeeps ==
  ASSUME OwnershipInv, NEW p \in Procs, NEW i \in Invitations, StoreInvitation(p, i)
  PROVE  Kept
<1>1. PICK r \in ShapedRequest : r = requests[p]
  BY RequestFacts
<1>2. r.workspace \in Workspaces /\ r.role \in GrantedRoles /\ r.email \in Emails
  BY <1>1 DEF StoreInvitation, At, ShapedRequest
<1>3. PICK n \in ShapedInvitation :
         n = [NoInvitation EXCEPT !.status = "pending", !.email = r.email,
                                  !.workspace = r.workspace, !.role = r.role]
  BY <1>2 DEF NoInvitation, ShapedInvitation, Invitation, Roles, GrantedRoles
<1>4. n.workspace = r.workspace
  BY <1>3 DEF NoInvitation
<1>5. /\ invitations' = [invitations EXCEPT ![i] = n]
      /\ Becomes(p, Idle)
      /\ UNCHANGED <<users, workspaces, memberships>>
  BY <1>1, <1>3 DEF StoreInvitation, Finish, Becomes
<1>6. Idle \in ShapedRequest /\ Idle.step = "idle" /\ Idle.workspace = None
  BY IdleShape DEF Idle
<1>7. invitations \in [Invitations -> ShapedInvitation]
  BY DEF OwnershipInv, Shape
<1>8. /\ invitations' \in [Invitations -> ShapedInvitation]
      /\ \A j \in Invitations : \/ invitations'[j].workspace = invitations[j].workspace
                                \/ invitations'[j].workspace = requests[p].workspace
  BY <1>1, <1>4, <1>5, <1>7
<1>9. QED
  BY <1>5, <1>6, <1>8, InvitationStepKeeps

\* The handlers that end by saving the status of one invitation.
LEMMA SaveStatusKeeps ==
  ASSUME OwnershipInv, NEW p \in Procs, SaveExpired(p) \/ SaveRevoked(p)
  PROVE  Kept
<1>1. PICK r \in ShapedRequest : r = requests[p]
  BY RequestFacts
<1>2. r.inv \in Invitations
  BY <1>1 DEF SaveExpired, SaveRevoked, At, ShapedRequest
<1>3. PICK s \in {"accepted", "revoked", "expired"} :
         invitations' = [invitations EXCEPT ![r.inv].status = s]
  BY <1>1 DEF SaveExpired, SaveRevoked
<1>4. Becomes(p, Idle) /\ UNCHANGED <<users, workspaces, memberships>>
  BY DEF SaveExpired, SaveRevoked, Finish, Becomes
<1>5. Idle \in ShapedRequest /\ Idle.step = "idle" /\ Idle.workspace = None
  BY IdleShape DEF Idle
<1>6. /\ invitations' \in [Invitations -> ShapedInvitation]
      /\ \A i \in Invitations : invitations'[i].workspace = invitations[i].workspace
  BY <1>2, <1>3, SaveStatusShape
<1>7. QED
  BY <1>4, <1>5, <1>6, InvitationStepKeeps

LEMMA SaveAcceptedKeeps ==
  ASSUME OwnershipInv, NEW p \in Procs, SaveAccepted(p)
  PROVE  Kept
<1>1. PICK r \in ShapedRequest : r = requests[p]
  BY RequestFacts
<1>2. /\ r.step = "accept_save" /\ r.inv \in Invitations
      /\ r.user \in Users /\ r.workspace \in Workspaces
      /\ HasMembership(r.user, r.workspace)
  BY <1>1, RequestFacts DEF SaveAccepted, At, ShapedRequest
<1>3. PICK s \in ShapedRequest : s = [r EXCEPT !.step = "link"]
  BY <1>2, ContinueShape DEF Steps
<1>4. s.step = "link" /\ s.user = r.user /\ s.workspace = r.workspace
  BY <1>3 DEF ShapedRequest, Request
<1>5. PICK i \in ShapedInvitation : i = invitations[r.inv]
  BY <1>2 DEF OwnershipInv, Shape
<1>6. PICK n \in ShapedInvitation :
         n = [i EXCEPT !.status = "accepted", !.acceptedBy = r.user]
  BY <1>2 DEF ShapedInvitation, Invitation
<1>7. n.workspace = i.workspace
  BY <1>6 DEF ShapedInvitation, Invitation
<1>8. invitations \in [Invitations -> ShapedInvitation]
  BY DEF OwnershipInv, Shape
<1>9. invitations' = [invitations EXCEPT ![r.inv] = n]
  <2>1. invitations' = [invitations EXCEPT ![r.inv].status = "accepted",
                                           ![r.inv].acceptedBy = r.user]
    BY <1>1 DEF SaveAccepted
  <2>2. QED
    BY <1>2, <1>5, <1>6, <1>8, <2>1
<1>10. Becomes(p, s) /\ UNCHANGED <<users, workspaces, memberships>>
  BY <1>1, <1>3 DEF SaveAccepted, Continue, Becomes
<1>11. /\ invitations' \in [Invitations -> ShapedInvitation]
       /\ \A j \in Invitations : invitations'[j].workspace = invitations[j].workspace
  BY <1>2, <1>5, <1>7, <1>8, <1>9
<1>12. QED
  BY <1>1, <1>2, <1>4, <1>10, <1>11, InvitationStepKeeps

LEMMA LapseKeeps ==
  ASSUME OwnershipInv, NEW i \in Invitations, Lapse(i)
  PROVE  Kept
<1>1. PICK n \in ShapedInvitation : n = [invitations[i] EXCEPT !.lapsed = TRUE]
  BY InvitationShape DEF OwnershipInv, Shape
<1>2. n.workspace = invitations[i].workspace
  BY <1>1 DEF OwnershipInv, Shape, ShapedInvitation, Invitation
<1>3. /\ invitations' = [invitations EXCEPT ![i] = n]
      /\ UNCHANGED <<users, workspaces, memberships, requests>>
  BY <1>1 DEF Lapse
<1>4. invitations \in [Invitations -> ShapedInvitation]
  BY DEF OwnershipInv, Shape
<1>5. /\ invitations' \in [Invitations -> ShapedInvitation]
      /\ \A j \in Invitations : invitations'[j].workspace = invitations[j].workspace
  BY <1>2, <1>3, <1>4
<1>6. Shape'
  BY <1>3, <1>5 DEF OwnershipInv, Shape
<1>7. FreshUntouched'
  BY <1>3, <1>5 DEF OwnershipInv, FreshUntouched, HasMembership
<1>8. PointerBacked'
  BY <1>3 DEF OwnershipInv, PointerBacked, HasMembership
<1>9. /\ \A u \in Users, w \in Workspaces : HasMembership(u, w) => HasMembership(u, w)'
      /\ \A u \in Users, w \in Workspaces : ClaimsOwnership(u, w)' => ClaimsOwnership(u, w)
  BY <1>3 DEF ClaimsOwnership, IsOwner, Live, HasMembership, At
<1>10. UniqueClaim'
  BY <1>9 DEF OwnershipInv, UniqueClaim
<1>11. QED
  BY <1>6, <1>7, <1>8, <1>9, <1>10 DEF Kept, OwnershipInv

\* A step that writes only the account of u0: it keeps no claim it lacked.
LEMMA AccountStepKeeps ==
  ASSUME OwnershipInv,
         NEW p \in Procs, NEW s \in ShapedRequest, Becomes(p, s),
         UNCHANGED <<workspaces, memberships, invitations>>,
         NEW u0 \in Users, NEW a \in Account, users' = [users EXCEPT ![u0] = a],
         \/ a.company \in {None, users[u0].company}
         \/ a.company \in Workspaces /\ workspaces[a.company] # "absent",
         \/ ~ a.system
         \/ a.company = None
         \/ HasMembership(u0, a.company)
         \/ a.company = users[u0].company /\ users[u0].system
               /\ (a.account = "live" => Live(u0)),
         s.workspace = None,
         s.step \in {"idle", "company_create", "oauth_create"}
  PROVE  Kept
<1>1. users \in [Users -> Account]
  BY DEF OwnershipInv, Shape
<1>2. \A u \in Users : users'[u] = IF u = u0 THEN a ELSE users[u]
  BY <1>1
<1>3. Shape'
  BY <1>1 DEF OwnershipInv, Shape, Becomes
<1>4. /\ \A u, w : HasMembership(u, w)' <=> HasMembership(u, w)
      /\ \A u, w : IsOwner(u, w)' <=> IsOwner(u, w)
  BY DEF HasMembership, IsOwner
<1>5. \A u \in Users, w \in Workspaces :
         \/ IsOwner(u, w)
         \/ Live(u) /\ users[u].system /\ users[u].company = w /\ ~ HasMembership(u, w)
         => ClaimsOwnership(u, w)
  BY DEF ClaimsOwnership
<1>6. \A w \in Workspaces : workspaces[w] = "absent" =>
         /\ \A u \in Users : ~ HasMembership(u, w) /\ users[u].company # w
         /\ \A i \in Invitations : invitations'[i].workspace # w
  BY DEF OwnershipInv, FreshUntouched
<1>7. \A w \in Workspaces : workspaces[w] = "absent" =>
         \A u \in Users : users'[u].company # w
  BY <1>2, <1>6, WorkspacesAssumption
<1>8. ASSUME NEW u \in Users, NEW w \in Workspaces,
             Live(u)', users'[u].system, users'[u].company = w, ~ HasMembership(u, w)
      PROVE  ClaimsOwnership(u, w)
  <2>1. CASE u = u0
    BY <1>2, <1>5, <1>8, <2>1, WorkspacesAssumption DEF Live
  <2>2. CASE u # u0
    BY <1>2, <1>5, <1>8, <2>2 DEF Live
  <2>3. QED
    BY <2>1, <2>2
<1>9. QED
  BY <1>3, <1>4, <1>5, <1>6, <1>7, <1>8, StepKeeps

LEMMA SignUpKeeps ==
  ASSUME OwnershipInv, NEW p \in Procs, NEW u \in Users,
         NEW operation, NEW step \in {"company_create", "oauth_create"},
         SignUp(p, u, operation, step)
  PROVE  Kept
<1>1. PICK s \in ShapedRequest : s = [Idle EXCEPT !.step = step, !.user = u]
  BY DEF Idle, ShapedRequest, Request, Steps, Roles
<1>2. s.step \in {"company_create", "oauth_create"} /\ s.workspace = None
  BY <1>1 DEF Idle
<1>3. PICK a \in Account : a = [account |-> "live", system |-> TRUE, company |-> None]
  BY DEF Account
<1>4. /\ users' = [users EXCEPT ![u] = a]
      /\ Becomes(p, s)
      /\ UNCHANGED <<workspaces, memberships, invitations>>
  BY <1>1, <1>3 DEF SignUp, Becomes
<1>5. a.company = None
  BY <1>3
<1>6. QED
  BY <1>2, <1>4, <1>5, AccountStepKeeps

LEMMA LinkCompanyKeeps ==
  ASSUME OwnershipInv, NEW p \in Procs, LinkCompany(p)
  PROVE  Kept
<1>1. PICK r \in ShapedRequest : r = requests[p]
  BY RequestFacts
<1>2. /\ r.user \in Users /\ r.workspace \in Workspaces
      /\ workspaces[r.workspace] # "absent"
      /\ HasMembership(r.user, r.workspace)
  BY <1>1, RequestFacts DEF LinkCompany, At, ShapedRequest
<1>3. CASE ~ Live(r.user)
  <2>1. Refuse(p)
    BY <1>1, <1>3 DEF LinkCompany, Refuse
  <2>2. QED
    BY <2>1, RefuseKeeps
<1>4. CASE Live(r.user)
  <2>1. users[r.user] \in Account
    BY <1>2 DEF OwnershipInv, Shape
  <2>2. PICK a \in Account : a = [users[r.user] EXCEPT !.company = r.workspace]
    BY <1>2, <2>1 DEF Account
  <2>3. a.company = r.workspace
    BY <2>1, <2>2 DEF Account
  <2>4. /\ users' = [users EXCEPT ![r.user] = a]
        /\ Becomes(p, Idle)
        /\ UNCHANGED <<workspaces, memberships, invitations>>
    BY <1>1, <1>4, <2>2 DEF LinkCompany, Finish, Becomes
  <2>5. Idle \in ShapedRequest /\ Idle.step = "idle" /\ Idle.workspace = None
    BY IdleShape DEF Idle
  <2>6. QED
    BY <1>2, <2>3, <2>4, <2>5, AccountStepKeeps
<1>5. QED
  BY <1>3, <1>4

LEMMA CreateInvitedUserKeeps ==
  ASSUME OwnershipInv, NEW p \in Procs, CreateInvitedUser(p)
  PROVE  Kept
<1>1. PICK r \in ShapedRequest : r = requests[p]
  BY RequestFacts
<1>2. /\ r.target \in Users /\ r.workspace \in Workspaces
      /\ workspaces[r.workspace] # "absent"
  BY <1>1, RequestFacts DEF CreateInvitedUser, At, ShapedRequest
<1> DEFINE New == users[r.target].account = "absent" /\ ~ EmailTaken(EmailOf[r.target])
<1>3. CASE ~ New
  <2>1. Refuse(p)
    BY <1>1, <1>3 DEF CreateInvitedUser, Refuse
  <2>2. QED
    BY <2>1, RefuseKeeps
<1>4. CASE New
  <2>1. PICK a \in Account :
           a = [account |-> "live", system |-> FALSE, company |-> r.workspace]
    BY <1>2 DEF Account
  <2>2. a.company = r.workspace /\ ~ a.system
    BY <2>1
  <2>3. /\ users' = [users EXCEPT ![r.target] = a]
        /\ Becomes(p, Idle)
        /\ UNCHANGED <<workspaces, memberships, invitations>>
    BY <1>1, <1>4, <2>1 DEF CreateInvitedUser, Finish, Becomes
  <2>4. Idle \in ShapedRequest /\ Idle.step = "idle" /\ Idle.workspace = None
    BY IdleShape DEF Idle
  <2>5. QED
    BY <1>2, <2>2, <2>3, <2>4, AccountStepKeeps
<1>5. QED
  BY <1>3, <1>4

LEMMA DeleteUserByIdKeeps ==
  ASSUME OwnershipInv, NEW p \in Procs, DeleteUserById(p)
  PROVE  Kept
<1>1. PICK r \in ShapedRequest : r = requests[p]
  BY RequestFacts
<1>2. r.target \in Users
  BY <1>1 DEF DeleteUserById, At, ShapedRequest
<1> DEFINE Found == Live(r.target) /\ users[r.target].company = r.workspace
<1>3. CASE ~ Found
  <2>1. Refuse(p)
    BY <1>1, <1>3 DEF DeleteUserById, Refuse
  <2>2. QED
    BY <2>1, RefuseKeeps
<1>4. CASE Found
  <2>1. users[r.target] \in Account
    BY <1>2 DEF OwnershipInv, Shape
  <2>2. PICK a \in Account : a = [users[r.target] EXCEPT !.account = "deleted"]
    BY <2>1 DEF Account
  <2>3. /\ a.company = users[r.target].company /\ a.system = users[r.target].system
        /\ a.account = "deleted" /\ a.system \in BOOLEAN
    BY <2>1, <2>2 DEF Account
  <2>4. /\ users' = [users EXCEPT ![r.target] = a]
        /\ Becomes(p, Idle)
        /\ UNCHANGED <<workspaces, memberships, invitations>>
    BY <1>1, <1>4, <2>2 DEF DeleteUserById, Finish, Becomes
  <2>5. Idle \in ShapedRequest /\ Idle.step = "idle" /\ Idle.workspace = None
    BY IdleShape DEF Idle
  <2>6. a.company \in {None, users[r.target].company}
    BY <2>3
  <2>7. ~ a.system \/ (a.company = users[r.target].company /\ users[r.target].system
                        /\ (a.account = "live" => Live(r.target)))
    BY <2>3
  <2>8. QED
    BY <1>2, <2>4, <2>5, <2>6, <2>7, AccountStepKeeps
<1>5. QED
  BY <1>3, <1>4

\* Remembering the role that was read does not change the shape of a request.
LEMMA SeenShape ==
  ASSUME NEW r \in ShapedRequest, NEW role \in Roles \union {"none"}
  PROVE  [r EXCEPT !.seen = role] \in ShapedRequest
<1> DEFINE n == [r EXCEPT !.seen = role]
<1>1. n \in Request
  BY DEF ShapedRequest, Request
<1>2. /\ n.step = r.step /\ n.user = r.user /\ n.workspace = r.workspace
      /\ n.target = r.target /\ n.role = r.role /\ n.email = r.email
      /\ n.inv = r.inv
  BY DEF ShapedRequest, Request
<1> HIDE DEF n
<1>3. n \in ShapedRequest
  BY <1>1, <1>2 DEF ShapedRequest
<1>4. QED
  BY <1>3 DEF n

\* The handlers that read again before they write.
LEMMA FindKeeps ==
  ASSUME OwnershipInv, NEW p \in Procs,
         \/ FindRoleTarget(p)
         \/ FindRemoveTarget(p)
         \/ CheckExistingMember(p)
         \/ FindRevocable(p)
  PROVE  Kept
<1>1. PICK r \in ShapedRequest : r = requests[p]
  BY RequestFacts
<1>2. r.workspace \in Workspaces /\ workspaces[r.workspace] # "absent"
  BY <1>1, RequestFacts
  DEF FindRoleTarget, FindRemoveTarget, CheckExistingMember, FindRevocable, At,
      ShapedRequest
<1>3. ASSUME NEW s \in ShapedRequest, Begin(p, s), s.workspace = r.workspace,
             s.step \in {"role_save", "remove_save", "invite_revoke", "revoke_save"}
      PROVE  Kept
  <2>1. Sound(s)
    BY <1>2, <1>3 DEF Sound
  <2>2. QED
    BY <1>3, <2>1, BeginKeeps
<1>4. CASE Refuse(p)
  BY <1>4, RefuseKeeps
<1>5. CASE FindRoleTarget(p) /\ ~ Refuse(p)
  <2>1. r.step = "role_find" /\ r.target \in Users
    BY <1>1, <1>5 DEF FindRoleTarget, At, ShapedRequest
  <2>2. PICK role \in Roles \union {"none"} : role = memberships[r.workspace][r.target].role
    BY <1>2, <2>1 DEF OwnershipInv, Shape, Membership
  <2>3. PICK t \in ShapedRequest : t = [r EXCEPT !.step = "role_save"]
    BY <2>1, ContinueShape DEF Steps
  <2>4. t.step = "role_save" /\ t.workspace = r.workspace
    BY <2>3 DEF ShapedRequest, Request
  <2>5. PICK s \in ShapedRequest : s = [t EXCEPT !.seen = role]
    BY <2>2, SeenShape
  <2>6. s.step = "role_save" /\ s.workspace = r.workspace
    BY <2>4, <2>5 DEF ShapedRequest, Request
  <2>7. s = [r EXCEPT !.step = "role_save", !.seen = role]
    BY <2>3, <2>5
  <2>8. Begin(p, s)
    BY <1>1, <1>5, <2>2, <2>7 DEF FindRoleTarget
  <2>9. QED
    BY <1>3, <2>6, <2>8
<1>6. CASE FindRemoveTarget(p) /\ ~ Refuse(p)
  <2>1. r.step = "remove_find"
    BY <1>1, <1>6 DEF FindRemoveTarget, At
  <2>2. PICK s \in ShapedRequest : s = [r EXCEPT !.step = "remove_save"]
    BY <2>1, ContinueShape DEF Steps
  <2>3. s.step = "remove_save" /\ s.workspace = r.workspace
    BY <2>2 DEF ShapedRequest, Request
  <2>4. Begin(p, s)
    BY <1>1, <1>6, <2>2 DEF FindRemoveTarget
  <2>5. QED
    BY <1>3, <2>3, <2>4
<1>7. CASE CheckExistingMember(p) /\ ~ Refuse(p)
  <2>1. r.step = "invite_check"
    BY <1>1, <1>7 DEF CheckExistingMember, At
  <2>2. PICK s \in ShapedRequest : s = [r EXCEPT !.step = "invite_revoke"]
    BY <2>1, ContinueShape DEF Steps
  <2>3. s.step = "invite_revoke" /\ s.workspace = r.workspace
    BY <2>2 DEF ShapedRequest, Request
  <2>4. Begin(p, s)
    BY <1>1, <1>7, <2>2 DEF CheckExistingMember
  <2>5. QED
    BY <1>3, <2>3, <2>4
<1>8. CASE FindRevocable(p) /\ ~ Refuse(p)
  <2>1. r.step = "revoke_find"
    BY <1>1, <1>8 DEF FindRevocable, At
  <2>2. PICK s \in ShapedRequest : s = [r EXCEPT !.step = "revoke_save"]
    BY <2>1, ContinueShape DEF Steps
  <2>3. s.step = "revoke_save" /\ s.workspace = r.workspace
    BY <2>2 DEF ShapedRequest, Request
  <2>4. Begin(p, s)
    BY <1>1, <1>8, <2>2 DEF FindRevocable
  <2>5. QED
    BY <1>3, <2>3, <2>4
<1>9. QED
  BY <1>4, <1>5, <1>6, <1>7, <1>8

\* The one step that makes a new claim: nobody can refer to the workspace yet,
\* so the account that registers it is the only one to claim it.
LEMMA CreateCompanyKeeps ==
  ASSUME OwnershipInv, NEW p \in Procs, NEW w0 \in Workspaces, CreateCompany(p, w0)
  PROVE  OwnershipInv'
<1>1. PICK r \in ShapedRequest : r = requests[p]
  BY RequestFacts
<1>2. /\ r.step \in {"company_create", "oauth_create"}
      /\ r.user \in Users /\ workspaces[w0] = "absent"
  BY <1>1 DEF CreateCompany, At, ShapedRequest
<1>. PICK next \in {"owner_upsert", "oauth_point"} :
        next = IF At(p, "oauth_create") THEN "oauth_point" ELSE "owner_upsert"
  OBVIOUS
<1>3. PICK s \in Request : s = [r EXCEPT !.step = next, !.workspace = w0]
  <2>1. r \in Request /\ next \in Steps
    BY DEF ShapedRequest, Steps
  <2>2. QED
    BY <2>1 DEF Request
<1>4. s.step \in {"owner_upsert", "oauth_point"} /\ s.workspace = w0 /\ s.user = r.user
  BY <1>3 DEF ShapedRequest, Request
<1>5. s \in ShapedRequest
  BY <1>2, <1>4 DEF ShapedRequest
<1>6. /\ Becomes(p, s)
      /\ workspaces' = [workspaces EXCEPT ![w0] = "active"]
      /\ UNCHANGED <<users, memberships, invitations>>
  BY <1>1, <1>3 DEF CreateCompany, Becomes
<1>7. \A q \in Procs : requests'[q] = IF q = p THEN s ELSE requests[q]
  BY <1>6 DEF OwnershipInv, Shape, Becomes
<1>8. Shape'
  BY <1>5, <1>6 DEF OwnershipInv, Shape, Becomes
<1>9. \A w \in Workspaces : workspaces'[w] = "absent" => workspaces[w] = "absent" /\ w # w0
  BY <1>6 DEF OwnershipInv, Shape
<1>10. FreshUntouched'
  BY <1>4, <1>6, <1>7, <1>9 DEF OwnershipInv, FreshUntouched, HasMembership
<1>11. PointerBacked'
  BY <1>4, <1>6, <1>7 DEF OwnershipInv, PointerBacked, HasMembership
<1>12. ASSUME NEW u \in Users, NEW w \in Workspaces, w # w0, ClaimsOwnership(u, w)'
       PROVE  ClaimsOwnership(u, w)
  BY <1>4, <1>6, <1>7, <1>12 DEF ClaimsOwnership, IsOwner, Live, HasMembership, At
<1>13. ASSUME NEW u \in Users, ClaimsOwnership(u, w0)'
       PROVE  u = r.user
  <2>1. /\ ~ HasMembership(u, w0)
        /\ users[u].company # w0
        /\ \A q \in Procs : requests[q].workspace # w0
    BY <1>2 DEF OwnershipInv, FreshUntouched
  <2>2. ~ IsOwner(u, w0)
    BY <2>1 DEF HasMembership, IsOwner, NoMembership
  <2>3. PICK q \in Procs : requests'[q].user = u /\ requests'[q].workspace = w0
    BY <1>6, <1>13, <2>1, <2>2 DEF ClaimsOwnership, IsOwner
  <2>4. QED
    BY <1>4, <1>7, <2>1, <2>3
<1>14. UniqueClaim'
  BY <1>12, <1>13 DEF OwnershipInv, UniqueClaim
<1>15. QED
  BY <1>8, <1>10, <1>11, <1>14 DEF OwnershipInv

\* The pointer makes an owner of whoever created the company: a claim the
\* request made for its user already.
LEMMA PointAtCompanyKeeps ==
  ASSUME OwnershipInv, NEW p \in Procs, PointAtCompany(p)
  PROVE  Kept
<1>1. PICK r \in ShapedRequest : r = requests[p]
  BY RequestFacts
<1>2. /\ r.step = "oauth_point" /\ r.user \in Users /\ r.workspace \in Workspaces
      /\ workspaces[r.workspace] # "absent"
  BY <1>1, RequestFacts DEF PointAtCompany, At, ShapedRequest
<1>3. CASE ~ Live(r.user)
  BY <1>1, <1>3, RefuseKeeps DEF PointAtCompany
<1>4. CASE Live(r.user)
  <2>1. users \in [Users -> Account]
    BY DEF OwnershipInv, Shape
  <2>2. PICK a \in Account : a = [users[r.user] EXCEPT !.company = r.workspace]
    BY <1>2, <2>1 DEF Account
  <2>3. a.company = r.workspace
    BY <1>2, <2>1, <2>2 DEF Account
  <2>4. PICK s \in ShapedRequest : s = [r EXCEPT !.step = "owner_upsert"]
    BY <1>2, ContinueShape DEF Steps
  <2>5. s.step = "owner_upsert" /\ s.user = r.user /\ s.workspace = r.workspace
    BY <2>4 DEF ShapedRequest, Request
  <2>6. /\ users' = [users EXCEPT ![r.user] = a]
        /\ Becomes(p, s)
        /\ UNCHANGED <<workspaces, memberships, invitations>>
    BY <1>1, <1>4, <2>2, <2>4 DEF PointAtCompany, Continue, Becomes
  <2>7. \A u \in Users : users'[u] = IF u = r.user THEN a ELSE users[u]
    BY <2>1, <2>6
  <2>8. Shape'
    BY <2>1, <2>6 DEF OwnershipInv, Shape, Becomes
  <2>9. ClaimsOwnership(r.user, r.workspace)
    BY <1>1, <1>2 DEF ClaimsOwnership, At
  <2>10. /\ \A u, w : HasMembership(u, w)' <=> HasMembership(u, w)
         /\ \A u, w : IsOwner(u, w)' <=> IsOwner(u, w)
    BY <2>6 DEF HasMembership, IsOwner
  <2>11. \A u \in Users, w \in Workspaces :
            \/ IsOwner(u, w)
            \/ Live(u) /\ users[u].system /\ users[u].company = w /\ ~ HasMembership(u, w)
            => ClaimsOwnership(u, w)
    BY DEF ClaimsOwnership
  <2>12. \A w \in Workspaces : workspaces[w] = "absent" =>
            /\ \A u \in Users : ~ HasMembership(u, w) /\ users'[u].company # w
            /\ \A i \in Invitations : invitations'[i].workspace # w
    BY <1>2, <2>3, <2>6, <2>7 DEF OwnershipInv, FreshUntouched
  <2>13. ASSUME NEW u \in Users, NEW w \in Workspaces,
                Live(u)', users'[u].system, users'[u].company = w, ~ HasMembership(u, w)
         PROVE  ClaimsOwnership(u, w)
    <3>1. CASE u = r.user
      BY <2>3, <2>7, <2>9, <2>13, <3>1
    <3>2. CASE u # r.user
      BY <2>7, <2>11, <2>13, <3>2 DEF Live
    <3>3. QED
      BY <3>1, <3>2
  <2>14. QED
    BY <1>2, <2>5, <2>6, <2>8, <2>9, <2>10, <2>11, <2>12, <2>13, StepKeeps
<1>5. QED
  BY <1>3, <1>4

LEMMA MarkDeletedKeeps ==
  ASSUME OwnershipInv, NEW p \in Procs, MarkDeleted(p)
  PROVE  Kept
<1>1. /\ workspaces' = [workspaces EXCEPT ![requests[p].workspace] = "deleted"]
      /\ Becomes(p, Idle)
      /\ UNCHANGED <<users, memberships, invitations>>
  BY DEF MarkDeleted, Finish, Becomes
<1>2. \A q \in Procs : requests'[q] = IF q = p THEN Idle ELSE requests[q]
  BY <1>1 DEF OwnershipInv, Shape, Becomes
<1>3. Idle \in ShapedRequest /\ Idle.step = "idle" /\ Idle.workspace = None
  BY IdleShape DEF Idle
<1>4. Shape'
  BY <1>1, <1>3 DEF OwnershipInv, Shape, Becomes
<1>5. \A w \in Workspaces : workspaces'[w] = "absent" => workspaces[w] = "absent"
  BY <1>1 DEF OwnershipInv, Shape
<1>6. FreshUntouched'
  BY <1>1, <1>2, <1>3, <1>5, WorkspacesAssumption
  DEF OwnershipInv, FreshUntouched, HasMembership
<1>7. PointerBacked'
  BY <1>1, <1>2, <1>3 DEF OwnershipInv, PointerBacked, HasMembership
<1>8. ASSUME NEW u \in Users, NEW w \in Workspaces, ClaimsOwnership(u, w)'
      PROVE  ClaimsOwnership(u, w)
  BY <1>1, <1>2, <1>3, <1>8 DEF ClaimsOwnership, IsOwner, Live, HasMembership, At
<1>9. UniqueClaim'
  BY <1>8 DEF OwnershipInv, UniqueClaim
<1>10. \A u \in Users, w \in Workspaces : HasMembership(u, w) => HasMembership(u, w)'
  BY <1>1 DEF HasMembership
<1>11. QED
  BY <1>4, <1>6, <1>7, <1>8, <1>9, <1>10 DEF Kept, OwnershipInv

\* Every step keeps the invariant and the memberships, and only the creation
\* of a company gives a claim of ownership that was not there.
LEMMA NextKeeps ==
  ASSUME OwnershipInv, [Next]_vars
  PROVE  \/ Kept
         \/ \E p \in Procs, w \in Workspaces : CreateCompany(p, w)
<1>1. CASE UNCHANGED vars
  BY <1>1
  DEF vars, Kept, OwnershipInv, Shape, FreshUntouched, PointerBacked, UniqueClaim,
      ClaimsOwnership, IsOwner, Live, HasMembership, At
<1>2. ASSUME NEW i \in Invitations, Lapse(i)
      PROVE  Kept
  BY <1>2, LapseKeeps
<1>3. ASSUME NEW p \in Procs, Call(p)
      PROVE  Kept
  BY <1>3, CallBegins, SignUpKeeps, BeginKeeps DEF RequestRegister, OauthSignUp
<1>4. ASSUME NEW p \in Procs, Resume(p)
      PROVE  Kept \/ \E w \in Workspaces : CreateCompany(p, w)
  BY <1>4, PointAtCompanyKeeps, StoreInvitationKeeps, UpsertOwnerKeeps,
     LinkCompanyKeeps, CreateLegacyMembershipKeeps, CreateInvitedUserKeeps,
     DeleteUserByIdKeeps, FindKeeps, SaveRoleKeeps, SaveRemovalKeeps,
     RevokeEarlierInvitationsKeeps, SaveStatusKeeps, UpsertMemberKeeps,
     SaveAcceptedKeeps, SuspendMembershipsKeeps, RevokePendingInvitationsKeeps,
     MarkDeletedKeeps
  DEF Resume
<1>5. ASSUME NEW p \in Procs, Crash(p)
      PROVE  Kept
  BY <1>5, RefuseKeeps DEF Crash
<1>6. QED
  BY <1>1, <1>2, <1>3, <1>4, <1>5 DEF Next

LEMMA NextOwnership == OwnershipInv /\ [Next]_vars => OwnershipInv'
  BY NextKeeps, CreateCompanyKeeps DEF Kept

\* The inductive invariant holds for any number of requests in flight.
THEOREM OwnershipInvariant == Spec => []OwnershipInv
  BY InitOwnership, NextOwnership, PTL DEF Spec

\* Every variable keeps its type: what each handler writes is a document the
\* schemas allow, and what it keeps in memory is what its next step needs.
THEOREM TypeCorrect == Spec => []TypeOK
<1>1. OwnershipInv => TypeOK
  BY ShapeImpliesType DEF OwnershipInv
<1>2. QED
  BY <1>1, OwnershipInvariant, PTL

\* No workspace ever has two owners, for any accounts, workspaces and
\* invitations, any number of requests in flight and wherever they die.
THEOREM OneOwner == Spec => []AtMostOneOwner
<1>1. OwnershipInv => AtMostOneOwner
  BY DEF OwnershipInv, UniqueClaim, ClaimsOwnership, AtMostOneOwner
<1>2. QED
  BY <1>1, OwnershipInvariant, PTL

-----------------------------------------------------------------------------
(* Who writes what: the only steps behind a change of each variable.       *)

LEMMA CallWrites ==
  ASSUME NEW p \in Procs, Call(p)
  PROVE  /\ UNCHANGED <<workspaces, memberships, invitations>>
         /\ \/ UNCHANGED users
            \/ \E u \in Users : RequestRegister(p, u) \/ OauthSignUp(p, u)
<1>1. ASSUME NEW u \in Users, RequestRegister(p, u) \/ OauthSignUp(p, u)
      PROVE  UNCHANGED <<workspaces, memberships, invitations>>
  BY <1>1 DEF RequestRegister, OauthSignUp, SignUp
<1>2. ASSUME NEW r, Begin(p, r)
      PROVE  UNCHANGED <<users, workspaces, memberships, invitations>>
  BY <1>2 DEF Begin
<1>3. \/ \E u \in Users : RequestRegister(p, u) \/ OauthSignUp(p, u)
      \/ \E r : Begin(p, r)
  BY DEF Call, CreateWorkspaceForUser, EnsureLegacyMembership, FindLapsed,
     AcceptInvitation, SwitchWorkspace, DeleteWorkspace, InviteUser, DeleteUser,
     RemoveMember, UpdateMemberRole, CreateInvitation, RevokeInvitation
<1>4. QED
  BY <1>1, <1>2, <1>3

LEMMA MembershipWriters ==
  ASSUME [Next]_vars
  PROVE  \/ UNCHANGED memberships
         \/ \E p \in Procs :
               \/ UpsertOwner(p) \/ CreateLegacyMembership(p) \/ SaveRole(p)
               \/ SaveRemoval(p) \/ UpsertMember(p) \/ SuspendMemberships(p)
<1>1. ASSUME NEW p \in Procs, Resume(p)
      PROVE  \/ UNCHANGED memberships
             \/ UpsertOwner(p) \/ CreateLegacyMembership(p) \/ SaveRole(p)
             \/ SaveRemoval(p) \/ UpsertMember(p) \/ SuspendMemberships(p)
  BY <1>1
  DEF Resume, CreateCompany, StoreInvitation, PointAtCompany, LinkCompany,
      CreateInvitedUser, DeleteUserById, FindRoleTarget, FindRemoveTarget,
      CheckExistingMember, RevokeEarlierInvitations, SaveExpired, SaveAccepted,
      FindRevocable, SaveRevoked, RevokePendingInvitations, MarkDeleted, Refuse, Begin
<1>2. QED
  BY <1>1, CallWrites DEF Next, Crash, Refuse, Lapse, vars

LEMMA InvitationWriters ==
  ASSUME [Next]_vars
  PROVE  \/ UNCHANGED invitations
         \/ \E i \in Invitations : Lapse(i)
         \/ \E p \in Procs :
               \/ \E i \in Invitations : StoreInvitation(p, i)
               \/ RevokeEarlierInvitations(p) \/ SaveExpired(p) \/ SaveAccepted(p)
               \/ SaveRevoked(p) \/ RevokePendingInvitations(p)
<1>1. ASSUME NEW p \in Procs, Resume(p)
      PROVE  \/ UNCHANGED invitations
             \/ \E i \in Invitations : StoreInvitation(p, i)
             \/ RevokeEarlierInvitations(p) \/ SaveExpired(p) \/ SaveAccepted(p)
             \/ SaveRevoked(p) \/ RevokePendingInvitations(p)
  BY <1>1
  DEF Resume, CreateCompany, PointAtCompany, UpsertOwner, LinkCompany,
      CreateLegacyMembership, CreateInvitedUser, DeleteUserById, FindRoleTarget,
      SaveRole, FindRemoveTarget, SaveRemoval, CheckExistingMember, UpsertMember,
      FindRevocable, SuspendMemberships, MarkDeleted, Refuse, Begin
<1>2. QED
  BY <1>1, CallWrites DEF Next, Crash, Refuse, vars

LEMMA WorkspaceWriters ==
  ASSUME [Next]_vars
  PROVE  \/ UNCHANGED workspaces
         \/ \E p \in Procs : MarkDeleted(p) \/ \E w \in Workspaces : CreateCompany(p, w)
<1>1. ASSUME NEW p \in Procs, Resume(p)
      PROVE  \/ UNCHANGED workspaces
             \/ MarkDeleted(p) \/ \E w \in Workspaces : CreateCompany(p, w)
  BY <1>1
  DEF Resume, StoreInvitation, PointAtCompany, UpsertOwner, LinkCompany,
      CreateLegacyMembership, CreateInvitedUser, DeleteUserById, FindRoleTarget,
      SaveRole, FindRemoveTarget, SaveRemoval, CheckExistingMember,
      RevokeEarlierInvitations, SaveExpired, UpsertMember, SaveAccepted,
      FindRevocable, SaveRevoked, SuspendMemberships, RevokePendingInvitations,
      Refuse, Begin
<1>2. QED
  BY <1>1, CallWrites DEF Next, Crash, Refuse, Lapse, vars

LEMMA AccountWriters ==
  ASSUME [Next]_vars
  PROVE  \/ UNCHANGED users
         \/ \E p \in Procs :
               \/ \E u \in Users : RequestRegister(p, u) \/ OauthSignUp(p, u)
               \/ PointAtCompany(p) \/ LinkCompany(p)
               \/ CreateInvitedUser(p) \/ DeleteUserById(p)
<1>1. ASSUME NEW p \in Procs, Resume(p)
      PROVE  \/ UNCHANGED users
             \/ PointAtCompany(p) \/ LinkCompany(p)
             \/ CreateInvitedUser(p) \/ DeleteUserById(p)
  BY <1>1
  DEF Resume, CreateCompany, StoreInvitation, UpsertOwner,
      CreateLegacyMembership, FindRoleTarget, MarkDeleted,
      SaveRole, FindRemoveTarget, SaveRemoval, CheckExistingMember,
      RevokeEarlierInvitations, SaveExpired, UpsertMember, SaveAccepted,
      FindRevocable, SaveRevoked, SuspendMemberships, RevokePendingInvitations,
      Refuse, Begin
<1>2. QED
  BY <1>1, CallWrites DEF Next, Crash, Refuse, Lapse, vars

-----------------------------------------------------------------------------
(* How a request comes to each of its steps.                               *)

Enters(p) ==
  LET s == requests'[p].step IN
  \/ s = "company_create" /\ \E u \in Users : \/ RequestRegister(p, u)
                                              \/ CreateWorkspaceForUser(p, u)
  \/ s = "oauth_create" /\ \E u \in Users : OauthSignUp(p, u)
  \/ s = "oauth_point" /\ \E w \in Workspaces : CreateCompany(p, w)
  \/ s = "owner_upsert" /\ \/ PointAtCompany(p) /\ Live(requests[p].user)
                           \/ \E w \in Workspaces : CreateCompany(p, w)
  \/ s = "link" /\ \/ UpsertOwner(p) \/ SaveAccepted(p)
                   \/ \E u \in Users, w \in Workspaces : SwitchWorkspace(p, u, w)
  \/ s = "legacy_create" /\ \E u \in Users : EnsureLegacyMembership(p, u)
  \/ s = "add_create" /\ \E u, t \in Users, w \in Workspaces : InviteUser(p, u, w, t)
  \/ s = "deluser_delete" /\ \E u, t \in Users, w \in Workspaces : DeleteUser(p, u, w, t)
  \/ s = "role_find" /\ \E u, t \in Users, w \in Workspaces, role \in OfferedRoles :
                           UpdateMemberRole(p, u, w, t, role)
  \/ s = "role_save" /\ FindRoleTarget(p)
  \/ s = "remove_find" /\ \E u, t \in Users, w \in Workspaces : RemoveMember(p, u, w, t)
  \/ s = "remove_save" /\ FindRemoveTarget(p)
  \/ s = "invite_check" /\ \E u \in Users, w \in Workspaces, e \in Emails,
                              role \in OfferedRoles : CreateInvitation(p, u, w, e, role)
  \/ s = "invite_revoke" /\ CheckExistingMember(p)
  \/ s = "invite_create" /\ RevokeEarlierInvitations(p)
  \/ s = "expire_save" /\ \E i \in Invitations : FindLapsed(p, i)
  \/ s = "accept_upsert" /\ \E u \in Users, i \in Invitations : AcceptInvitation(p, u, i)
  \/ s = "accept_save" /\ UpsertMember(p)
  \/ s = "revoke_find" /\ \E u \in Users, w \in Workspaces, i \in Invitations :
                             RevokeInvitation(p, u, w, i)
  \/ s = "revoke_save" /\ FindRevocable(p)
  \/ s = "delete_suspend" /\ \E u \in Users, w \in Workspaces : DeleteWorkspace(p, u, w)
  \/ s = "delete_revoke" /\ SuspendMemberships(p)
  \/ s = "delete_mark" /\ RevokePendingInvitations(p)

LEMMA CallEnters ==
  ASSUME Shape, NEW p \in Procs, Call(p)
  PROVE  Enters(p)
<1> USE DEF Shape, Begin, Idle
<1>1. ASSUME NEW u \in Users, RequestRegister(p, u)
      PROVE  Enters(p)
  <2>1. requests'[p].step = "company_create"
    BY <1>1 DEF RequestRegister, SignUp
  <2>2. QED
    BY <1>1, <2>1 DEF Enters
<1>2. ASSUME NEW u \in Users, OauthSignUp(p, u)
      PROVE  Enters(p)
  <2>1. requests'[p].step = "oauth_create"
    BY <1>2 DEF OauthSignUp, SignUp
  <2>2. QED
    BY <1>2, <2>1 DEF Enters
<1>3. ASSUME NEW u \in Users, CreateWorkspaceForUser(p, u)
      PROVE  Enters(p)
  <2>1. requests'[p].step = "company_create"
    BY <1>3 DEF CreateWorkspaceForUser
  <2>2. QED
    BY <1>3, <2>1 DEF Enters
<1>4. ASSUME NEW u \in Users, EnsureLegacyMembership(p, u)
      PROVE  Enters(p)
  <2>1. requests'[p].step = "legacy_create"
    BY <1>4 DEF EnsureLegacyMembership
  <2>2. QED
    BY <1>4, <2>1 DEF Enters
<1>5. ASSUME NEW i \in Invitations, FindLapsed(p, i)
      PROVE  Enters(p)
  <2>1. requests'[p].step = "expire_save"
    BY <1>5 DEF FindLapsed
  <2>2. QED
    BY <1>5, <2>1 DEF Enters
<1>6. ASSUME NEW u \in Users, NEW i \in Invitations, AcceptInvitation(p, u, i)
      PROVE  Enters(p)
  <2>1. requests'[p].step = "accept_upsert"
    BY <1>6 DEF AcceptInvitation
  <2>2. QED
    BY <1>6, <2>1 DEF Enters
<1>7. ASSUME NEW u \in Users, NEW w \in Workspaces, SwitchWorkspace(p, u, w)
      PROVE  Enters(p)
  <2>1. requests'[p].step = "link"
    BY <1>7 DEF SwitchWorkspace
  <2>2. QED
    BY <1>7, <2>1 DEF Enters
<1>8. ASSUME NEW u \in Users, NEW w \in Workspaces, DeleteWorkspace(p, u, w)
      PROVE  Enters(p)
  <2>1. requests'[p].step = "delete_suspend"
    BY <1>8 DEF DeleteWorkspace
  <2>2. QED
    BY <1>8, <2>1 DEF Enters
<1>9. ASSUME NEW u \in Users, NEW w \in Workspaces, NEW t \in Users, InviteUser(p, u, w, t)
      PROVE  Enters(p)
  <2>1. requests'[p].step = "add_create"
    BY <1>9 DEF InviteUser
  <2>2. QED
    BY <1>9, <2>1 DEF Enters
<1>10. ASSUME NEW u \in Users, NEW w \in Workspaces, NEW t \in Users, DeleteUser(p, u, w, t)
      PROVE  Enters(p)
  <2>1. requests'[p].step = "deluser_delete"
    BY <1>10 DEF DeleteUser
  <2>2. QED
    BY <1>10, <2>1 DEF Enters
<1>11. ASSUME NEW u \in Users, NEW w \in Workspaces, NEW t \in Users, RemoveMember(p, u, w, t)
      PROVE  Enters(p)
  <2>1. requests'[p].step = "remove_find"
    BY <1>11 DEF RemoveMember
  <2>2. QED
    BY <1>11, <2>1 DEF Enters
<1>12. ASSUME NEW u \in Users, NEW w \in Workspaces, NEW t \in Users, NEW role \in OfferedRoles, UpdateMemberRole(p, u, w, t, role)
      PROVE  Enters(p)
  <2>1. requests'[p].step = "role_find"
    BY <1>12 DEF UpdateMemberRole
  <2>2. QED
    BY <1>12, <2>1 DEF Enters
<1>13. ASSUME NEW u \in Users, NEW w \in Workspaces, NEW e \in Emails, NEW role \in OfferedRoles, CreateInvitation(p, u, w, e, role)
      PROVE  Enters(p)
  <2>1. requests'[p].step = "invite_check"
    BY <1>13 DEF CreateInvitation
  <2>2. QED
    BY <1>13, <2>1 DEF Enters
<1>14. ASSUME NEW u \in Users, NEW w \in Workspaces, NEW i \in Invitations, RevokeInvitation(p, u, w, i)
      PROVE  Enters(p)
  <2>1. requests'[p].step = "revoke_find"
    BY <1>14 DEF RevokeInvitation
  <2>2. QED
    BY <1>14, <2>1 DEF Enters
<1>15. QED
  BY <1>1, <1>2, <1>3, <1>4, <1>5, <1>6, <1>7, <1>8, <1>9, <1>10, <1>11, <1>12, <1>13, <1>14 DEF Call

LEMMA ResumeEnters ==
  ASSUME Shape, NEW p \in Procs, Resume(p)
  PROVE  requests'[p] = Idle \/ Enters(p)
<1> USE DEF Shape
<1>1. \A q \in Procs : requests[q] \in Request
  BY DEF ShapedRequest
<1>2. ASSUME NEW w \in Workspaces, CreateCompany(p, w)
      PROVE  Enters(p)
  <2>1. requests'[p].step \in {"oauth_point", "owner_upsert"}
    <3>1. \E step \in {"oauth_point", "owner_upsert"} :
             requests'[p] = [requests[p] EXCEPT !.step = step, !.workspace = w]
      BY <1>2 DEF CreateCompany
    <3>2. QED
      BY <1>1, <3>1 DEF Request
  <2>2. QED
    BY <1>2, <2>1 DEF Enters
<1>3. \/ \E i \in Invitations : StoreInvitation(p, i)
      \/ LinkCompany(p) \/ CreateLegacyMembership(p) \/ CreateInvitedUser(p)
      \/ DeleteUserById(p) \/ SaveRole(p) \/ SaveRemoval(p)
      \/ SaveExpired(p) \/ SaveRevoked(p) \/ MarkDeleted(p)
      => requests'[p] = Idle
  BY DEF StoreInvitation, LinkCompany, CreateLegacyMembership, CreateInvitedUser,
         DeleteUserById, SaveRole, SaveRemoval, SaveExpired, SaveRevoked,
         MarkDeleted, Finish
<1>4. ASSUME PointAtCompany(p)
      PROVE  requests'[p] = Idle \/ Enters(p)
  <2>1. \/ requests'[p] = Idle
        \/ requests'[p].step = "owner_upsert" /\ Live(requests[p].user)
    BY <1>1, <1>4 DEF PointAtCompany, Continue, Refuse, Finish, Request
  <2>2. QED
    BY <1>4, <2>1 DEF Enters
<1>5. ASSUME UpsertOwner(p)
      PROVE  Enters(p)
  <2>1. requests'[p].step = "link"
    BY <1>1, <1>5 DEF UpsertOwner, Continue, Request
  <2>2. QED
    BY <1>5, <2>1 DEF Enters
<1>6. ASSUME FindRoleTarget(p)
      PROVE  requests'[p] = Idle \/ Enters(p)
  <2>1. \/ requests'[p] = Idle
        \/ requests'[p].step = "role_save"
    <3>1. PICK m \in Request : m = [requests[p] EXCEPT !.step = "role_save"]
      BY <1>1 DEF Request, Steps
    <3>2. m.step = "role_save"
      BY <1>1, <3>1 DEF Request
    <3>3. \A role : [m EXCEPT !.seen = role].step = "role_save"
      BY <3>2 DEF Request
    <3>4. PICK role : role = memberships[requests[p].workspace][requests[p].target].role
      OBVIOUS
    <3>5. requests'[p] \in {Idle, [m EXCEPT !.seen = role]}
      <4>1. CASE Manageable(requests[p].target, requests[p].workspace)
        <5>1. requests' = [requests EXCEPT ![p] = [m EXCEPT !.seen = role]]
          BY <1>6, <3>1, <3>4, <4>1 DEF FindRoleTarget, Begin
        <5>2. QED
          BY <5>1
      <4>2. CASE ~ Manageable(requests[p].target, requests[p].workspace)
        BY <1>6, <4>2 DEF FindRoleTarget, Refuse, Finish
      <4>3. QED
        BY <4>1, <4>2
    <3>6. QED
      BY <3>3, <3>5
  <2>2. QED
    BY <1>6, <2>1 DEF Enters
<1>7. ASSUME FindRemoveTarget(p)
      PROVE  requests'[p] = Idle \/ Enters(p)
  <2>1. \/ requests'[p] = Idle
        \/ requests'[p].step = "remove_save"
    BY <1>1, <1>7 DEF FindRemoveTarget, Begin, Refuse, Finish, Request
  <2>2. QED
    BY <1>7, <2>1 DEF Enters
<1>8. ASSUME CheckExistingMember(p)
      PROVE  requests'[p] = Idle \/ Enters(p)
  <2>1. \/ requests'[p] = Idle
        \/ requests'[p].step = "invite_revoke"
    BY <1>1, <1>8 DEF CheckExistingMember, Begin, Refuse, Finish, Request
  <2>2. QED
    BY <1>8, <2>1 DEF Enters
<1>9. ASSUME RevokeEarlierInvitations(p)
      PROVE  Enters(p)
  <2>1. requests'[p].step = "invite_create"
    BY <1>1, <1>9 DEF RevokeEarlierInvitations, Continue, Request
  <2>2. QED
    BY <1>9, <2>1 DEF Enters
<1>10. ASSUME UpsertMember(p)
      PROVE  Enters(p)
  <2>1. requests'[p].step = "accept_save"
    BY <1>1, <1>10 DEF UpsertMember, Continue, Request
  <2>2. QED
    BY <1>10, <2>1 DEF Enters
<1>11. ASSUME SaveAccepted(p)
      PROVE  Enters(p)
  <2>1. requests'[p].step = "link"
    BY <1>1, <1>11 DEF SaveAccepted, Continue, Request
  <2>2. QED
    BY <1>11, <2>1 DEF Enters
<1>12. ASSUME FindRevocable(p)
      PROVE  requests'[p] = Idle \/ Enters(p)
  <2>1. \/ requests'[p] = Idle
        \/ requests'[p].step = "revoke_save"
    BY <1>1, <1>12 DEF FindRevocable, Begin, Refuse, Finish, Request
  <2>2. QED
    BY <1>12, <2>1 DEF Enters
<1>13. ASSUME SuspendMemberships(p)
      PROVE  Enters(p)
  <2>1. requests'[p].step = "delete_revoke"
    BY <1>1, <1>13 DEF SuspendMemberships, Continue, Request
  <2>2. QED
    BY <1>13, <2>1 DEF Enters
<1>14. ASSUME RevokePendingInvitations(p)
      PROVE  Enters(p)
  <2>1. requests'[p].step = "delete_mark"
    BY <1>1, <1>14 DEF RevokePendingInvitations, Continue, Request
  <2>2. QED
    BY <1>14, <2>1 DEF Enters
<1>15. QED
  BY <1>2, <1>3, <1>4, <1>5, <1>6, <1>7, <1>8, <1>9, <1>10, <1>11, <1>12,
     <1>13, <1>14 DEF Resume

LEMMA OthersStay ==
  ASSUME Shape, NEW p \in Procs, Call(p) \/ Resume(p) \/ Crash(p),
         NEW o \in Procs \ {p}
  PROVE  requests'[o] = requests[o]
<1> USE DEF Shape
<1>1. /\ Finish(p) \/ (\E r : Begin(p, r)) \/ (\E step : Continue(p, step))
            => requests'[o] = requests[o]
  BY DEF Finish, Begin, Continue
<1>2. CASE Call(p)
  <2>1. \/ \E u \in Users : RequestRegister(p, u) \/ OauthSignUp(p, u)
        \/ \E r : Begin(p, r)
    BY <1>2
    DEF Call, CreateWorkspaceForUser, EnsureLegacyMembership, FindLapsed,
        AcceptInvitation, SwitchWorkspace, DeleteWorkspace, InviteUser, DeleteUser,
        RemoveMember, UpdateMemberRole, CreateInvitation, RevokeInvitation
  <2>2. QED
    BY <1>1, <2>1 DEF RequestRegister, OauthSignUp, SignUp
<1>3. CASE Resume(p)
  <2>1. \/ \E w \in Workspaces : CreateCompany(p, w)
        \/ Finish(p) \/ (\E r : Begin(p, r)) \/ (\E step : Continue(p, step))
    BY <1>3
    DEF Resume, StoreInvitation, PointAtCompany, UpsertOwner,
        LinkCompany, CreateLegacyMembership, CreateInvitedUser, DeleteUserById,
        FindRoleTarget, SaveRole, FindRemoveTarget, SaveRemoval,
        CheckExistingMember, RevokeEarlierInvitations, SaveExpired, UpsertMember,
        SaveAccepted, FindRevocable, SaveRevoked, SuspendMemberships,
        RevokePendingInvitations, MarkDeleted, Refuse
  <2>2. QED
    BY <1>1, <2>1 DEF CreateCompany
<1>4. CASE Crash(p)
  BY <1>1, <1>4 DEF Crash, Refuse
<1>5. QED
  BY <1>2, <1>3, <1>4

\* A step moves one request at most, and one that moves ends or enters a step.
LEMMA StepEnters ==
  ASSUME Shape, [Next]_vars, NEW p \in Procs, requests'[p] # requests[p]
  PROVE  /\ requests'[p] = Idle \/ Enters(p)
         /\ \A q \in Procs \ {p} : requests'[q] = requests[q]
<1>1. ASSUME NEW q \in Procs, Call(q) \/ Resume(q) \/ Crash(q)
      PROVE  /\ requests'[q] = Idle \/ Enters(q)
             /\ \A o \in Procs \ {q} : requests'[o] = requests[o]
  <2>1. requests'[q] = Idle \/ Enters(q)
    BY <1>1, CallEnters, ResumeEnters DEF Crash, Refuse, Finish, Shape
  <2>2. \A o \in Procs \ {q} : requests'[o] = requests[o]
    BY <1>1, OthersStay
  <2>3. QED
    BY <2>1, <2>2
<1>2. \E q \in Procs : Call(q) \/ Resume(q) \/ Crash(q)
  BY DEF Next, vars, Lapse
<1>3. QED
  BY <1>1, <1>2

-----------------------------------------------------------------------------
(* What a step does to one invitation.                                     *)

Stored(i) ==
  \E p \in Procs :
     /\ At(p, "invite_create") /\ invitations[i].status = "none"
     /\ requests'[p] = Idle
     /\ \A j \in Invitations \ {i} : invitations'[j] = invitations[j]
     /\ invitations'[i].status = "pending"
     /\ invitations'[i].email = requests[p].email
     /\ invitations'[i].workspace = requests[p].workspace

Accepted(i) ==
  \E p \in Procs :
     /\ At(p, "accept_save") /\ requests[p].inv = i
     /\ requests'[p].step = "link"
     /\ invitations'[i].status = "accepted"
     /\ invitations'[i].acceptedBy = requests[p].user

Closed(i) ==
  /\ invitations'[i].status \in {"revoked", "expired"}
  /\ invitations'[i].acceptedBy = invitations[i].acceptedBy
  /\ \/ \E p \in Procs : /\ requests[p].step \in {"expire_save", "revoke_save"}
                          /\ requests[p].inv = i
                          /\ requests'[p] = Idle
     \/ /\ invitations[i].status = "pending"
        /\ \E p \in Procs : requests[p].step \in {"invite_revoke", "delete_revoke"}

InvitationTo(i) == <<invitations[i].email, invitations[i].workspace>>

LEMMA InvitationStep ==
  ASSUME Shape, [Next]_vars, NEW i \in Invitations
  PROVE  \/ Stored(i)
         \/ /\ InvitationTo(i)' = InvitationTo(i)
            /\ \/ /\ invitations'[i].status = invitations[i].status
                  /\ invitations'[i].acceptedBy = invitations[i].acceptedBy
               \/ Accepted(i)
               \/ Closed(i)
<1> DEFINE Goal == \/ Stored(i)
                   \/ /\ InvitationTo(i)' = InvitationTo(i)
                      /\ \/ /\ invitations'[i].status = invitations[i].status
                            /\ invitations'[i].acceptedBy = invitations[i].acceptedBy
                         \/ Accepted(i)
                         \/ Closed(i)
<1>1. /\ invitations \in [Invitations -> Invitation]
      /\ requests \in [Procs -> Request]
  BY DEF Shape, ShapedInvitation, ShapedRequest
<1>2. CASE invitations'[i] = invitations[i]
  BY <1>2 DEF InvitationTo
<1>3. ASSUME NEW j \in Invitations, Lapse(j)  PROVE Goal
  BY <1>1, <1>3 DEF Lapse, InvitationTo, Invitation
<1>4. ASSUME NEW p \in Procs, NEW j \in Invitations, StoreInvitation(p, j)  PROVE Goal
  <2>1. CASE j = i
    BY <1>1, <1>4, <2>1 DEF StoreInvitation, Stored, NoInvitation, Finish
  <2>2. CASE j # i
    BY <1>1, <1>4, <2>2 DEF StoreInvitation, InvitationTo
  <2>3. QED
    BY <2>1, <2>2
<1>5. ASSUME NEW p \in Procs, RevokeEarlierInvitations(p)  PROVE Goal
  BY <1>1, <1>5
  DEF RevokeEarlierInvitations, InvitationTo, Invitation, PendingFor, Closed, At
<1>6. ASSUME NEW p \in Procs, RevokePendingInvitations(p)  PROVE Goal
  BY <1>1, <1>6 DEF RevokePendingInvitations, InvitationTo, Invitation, Closed, At
<1>7. ASSUME NEW p \in Procs, SaveExpired(p)  PROVE Goal
  BY <1>1, <1>7 DEF SaveExpired, InvitationTo, Invitation, Closed, At, Finish
<1>8. ASSUME NEW p \in Procs, SaveRevoked(p)  PROVE Goal
  BY <1>1, <1>8 DEF SaveRevoked, InvitationTo, Invitation, Closed, At, Finish
<1>9. ASSUME NEW p \in Procs, SaveAccepted(p)  PROVE Goal
  <2>1. CASE requests[p].inv = i
    BY <1>1, <1>9, <2>1 DEF SaveAccepted, InvitationTo, Invitation, Accepted, At,
                                Continue, Request
  <2>2. CASE requests[p].inv # i
    BY <1>1, <1>9, <2>2 DEF SaveAccepted, InvitationTo, Invitation
  <2>3. QED
    BY <2>1, <2>2
<1> HIDE DEF Goal
<1>10. Goal
  BY <1>2, <1>3, <1>4, <1>5, <1>6, <1>7, <1>8, <1>9, InvitationWriters
  DEF Goal
<1>11. QED
  BY <1>10 DEF Goal

-----------------------------------------------------------------------------
(* What a step does to one membership.                                     *)

Wrote(p, u, w) ==
  LET r == requests[p]
      m == memberships'[w][u]
  IN
  /\ r.workspace = w /\ requests'[p].step # r.step
  /\ \/ At(p, "owner_upsert") /\ r.user = u /\ m.role = "owner" /\ m.status = "active"
     \/ /\ At(p, "legacy_create") /\ r.user = u /\ ~ HasMembership(u, w)
        /\ m.role = r.role /\ m.status = "active"
     \/ /\ At(p, "role_save") /\ r.target = u
        /\ m.role = r.role /\ m.status = memberships[w][u].status
     \/ /\ At(p, "remove_save") /\ r.target = u
        /\ m.role = memberships[w][u].role /\ m.status = "suspended"
     \/ At(p, "accept_upsert") /\ r.user = u /\ m.role = r.role /\ m.status = "active"
     \/ /\ At(p, "delete_suspend") /\ requests'[p].step = "delete_revoke"
        /\ HasMembership(u, w)
        /\ m.role = memberships[w][u].role /\ m.status = "suspended"
        /\ \A v \in Users : memberships'[w][v].status # "active"

LEMMA Suspension ==
  ASSUME NEW m \in Membership
  PROVE  /\ [m EXCEPT !.status = "suspended"].status = "suspended"
         /\ [m EXCEPT !.status = "suspended"].role = m.role
  BY DEF Membership

LEMMA SuspendsAll ==
  ASSUME Shape, NEW p \in Procs, SuspendMemberships(p),
         NEW w \in Workspaces, requests[p].workspace = w, NEW v \in Users
  PROVE  memberships'[w][v].status # "active"
<1>1. memberships[w][v] \in Membership
  BY DEF Shape
<1>2. memberships'[w][v] =
         IF HasMembership(v, w) THEN [memberships[w][v] EXCEPT !.status = "suspended"]
         ELSE NoMembership
  BY DEF SuspendMemberships, Shape
<1>3. CASE HasMembership(v, w)
  BY <1>1, <1>2, <1>3, Suspension
<1>4. CASE ~ HasMembership(v, w)
  <2>1. memberships'[w][v] = NoMembership
    BY <1>2, <1>4
  <2>2. QED
    BY <2>1 DEF NoMembership
<1>5. QED
  BY <1>3, <1>4

LEMMA MembershipStep ==
  ASSUME Shape, [Next]_vars, NEW u \in Users, NEW w \in Workspaces,
         memberships'[w][u] # memberships[w][u]
  PROVE  \E p \in Procs : Wrote(p, u, w)
<1>1. /\ memberships \in [Workspaces -> [Users -> Membership]]
      /\ requests \in [Procs -> Request]
  BY DEF Shape, ShapedRequest
<1>2. ASSUME NEW p \in Procs, UpsertOwner(p)  PROVE Wrote(p, u, w)
  BY <1>1, <1>2 DEF UpsertOwner, Wrote, At, Continue, Request
<1>3. ASSUME NEW p \in Procs, CreateLegacyMembership(p)  PROVE Wrote(p, u, w)
  BY <1>1, <1>3 DEF CreateLegacyMembership, Wrote, At, Finish, Idle
<1>4. ASSUME NEW p \in Procs, SaveRole(p)  PROVE Wrote(p, u, w)
  BY <1>1, <1>4 DEF SaveRole, Wrote, Membership, At, Finish, Idle
<1>5. ASSUME NEW p \in Procs, SaveRemoval(p)  PROVE Wrote(p, u, w)
  BY <1>1, <1>5 DEF SaveRemoval, Wrote, Membership, At, Finish, Idle
<1>6. ASSUME NEW p \in Procs, UpsertMember(p)  PROVE Wrote(p, u, w)
  BY <1>1, <1>6 DEF UpsertMember, Wrote, At, Continue, Request
<1>7. ASSUME NEW p \in Procs, SuspendMemberships(p)  PROVE Wrote(p, u, w)
  <2>1. /\ requests[p].workspace = w /\ At(p, "delete_suspend")
        /\ requests'[p].step = "delete_revoke"
    BY <1>1, <1>7 DEF SuspendMemberships, Continue, Request
  <2>2. memberships'[w][u] =
           IF HasMembership(u, w) THEN [memberships[w][u] EXCEPT !.status = "suspended"]
           ELSE NoMembership
    BY <1>1, <1>7, <2>1 DEF SuspendMemberships
  <2>3. \A v \in Users : memberships'[w][v].status # "active"
    BY <1>7, <2>1, SuspendsAll
  <2>4. /\ HasMembership(u, w)
        /\ memberships'[w][u].role = memberships[w][u].role
        /\ memberships'[w][u].status = "suspended"
    <3>1. memberships[w][u] \in Membership
      BY <1>1
    <3>2. HasMembership(u, w)
      BY <2>2 DEF HasMembership
    <3>3. memberships'[w][u] = [memberships[w][u] EXCEPT !.status = "suspended"]
      BY <2>2, <3>2
    <3>4. QED
      BY <3>1, <3>2, <3>3, Suspension
  <2>5. QED
    BY <2>1, <2>3, <2>4 DEF Wrote, At
<1>8. QED
  BY <1>2, <1>3, <1>4, <1>5, <1>6, <1>7, MembershipWriters

-----------------------------------------------------------------------------
(* What a step does to one account.                                        *)

Opened(u) ==
  /\ users[u].account = "absent" /\ users'[u].account = "live"
  /\ \/ users'[u].company = None /\ users'[u].system
     \/ /\ ~ users'[u].system
        /\ \E p \in Procs : /\ At(p, "add_create") /\ requests'[p].step # "add_create"
                           /\ users'[u].company = requests[p].workspace

Pointed(u) ==
  /\ Live(u) /\ users'[u].account = "live" /\ users'[u].system = users[u].system
  /\ \E p \in Procs :
        /\ requests[p].step \in {"oauth_point", "link"}
        /\ requests'[p].step # requests[p].step
        /\ requests[p].user = u /\ users'[u].company = requests[p].workspace

Removed(u) ==
  /\ users'[u].account = "deleted"
  /\ users'[u].system = users[u].system /\ users'[u].company = users[u].company
  /\ Live(u)
  /\ \E p \in Procs :
        At(p, "deluser_delete") /\ requests[p].workspace = users[u].company

LEMMA AccountStep ==
  ASSUME Shape, [Next]_vars, NEW u \in Users, users'[u] # users[u]
  PROVE  Opened(u) \/ Pointed(u) \/ Removed(u)
<1>1. /\ users \in [Users -> Account]
      /\ requests \in [Procs -> Request]
  BY DEF Shape, ShapedRequest
<1>2. ASSUME NEW p \in Procs, NEW v \in Users, RequestRegister(p, v) \/ OauthSignUp(p, v)
      PROVE  Opened(u)
  BY <1>1, <1>2 DEF RequestRegister, OauthSignUp, SignUp, Opened
<1>3. ASSUME NEW p \in Procs, PointAtCompany(p)
      PROVE  Pointed(u)
  <2>1. /\ users' = [users EXCEPT ![requests[p].user].company = requests[p].workspace]
        /\ Live(requests[p].user)
        /\ Continue(p, "owner_upsert") /\ At(p, "oauth_point")
    BY <1>3 DEF PointAtCompany, Refuse
  <2>2. requests[p].user = u /\ requests'[p].step = "owner_upsert"
    BY <1>1, <2>1 DEF Continue, Request
  <2>3. /\ users'[u].account = users[u].account /\ users'[u].system = users[u].system
        /\ users'[u].company = requests[p].workspace
    BY <1>1, <2>1, <2>2 DEF Account
  <2>4. QED
    BY <2>1, <2>2, <2>3 DEF Pointed, At, Live
<1>4. ASSUME NEW p \in Procs, LinkCompany(p)
      PROVE  Pointed(u)
  <2>1. /\ users' = [users EXCEPT ![requests[p].user].company = requests[p].workspace]
        /\ Live(requests[p].user)
        /\ Finish(p) /\ At(p, "link")
    BY <1>4 DEF LinkCompany
  <2>2. requests[p].user = u /\ requests'[p].step = "idle"
    BY <1>1, <2>1 DEF Finish, Idle
  <2>3. /\ users'[u].account = users[u].account /\ users'[u].system = users[u].system
        /\ users'[u].company = requests[p].workspace
    BY <1>1, <2>1, <2>2 DEF Account
  <2>4. QED
    BY <2>1, <2>2, <2>3 DEF Pointed, At, Live
<1>5. ASSUME NEW p \in Procs, CreateInvitedUser(p)
      PROVE  Opened(u)
  BY <1>1, <1>5 DEF CreateInvitedUser, Finish, Idle, Opened, At
<1>6. ASSUME NEW p \in Procs, DeleteUserById(p)
      PROVE  Removed(u)
  <2>1. /\ users' = [users EXCEPT ![requests[p].target].account = "deleted"]
        /\ Live(requests[p].target) /\ At(p, "deluser_delete")
        /\ users[requests[p].target].company = requests[p].workspace
    BY <1>6 DEF DeleteUserById
  <2>2. requests[p].target = u
    BY <1>1, <2>1
  <2>3. /\ users'[u].account = "deleted" /\ users'[u].system = users[u].system
        /\ users'[u].company = users[u].company
    BY <1>1, <2>1, <2>2 DEF Account
  <2>4. QED
    BY <2>1, <2>2, <2>3 DEF Removed
<1>7. QED
  BY <1>2, <1>3, <1>4, <1>5, <1>6, AccountWriters

-----------------------------------------------------------------------------
(* An accepted invitation means a membership, with any number of requests   *)
(* in flight.                                                               *)

LEMMA MembershipsStay ==
  ASSUME OwnershipInv, [Next]_vars, NEW u \in Users, NEW w \in Workspaces,
         HasMembership(u, w)
  PROVE  HasMembership(u, w)'
<1>1. CASE Kept
  BY <1>1 DEF Kept
<1>2. CASE \E p \in Procs, v \in Workspaces : CreateCompany(p, v)
  BY <1>2 DEF CreateCompany, HasMembership
<1>3. QED
  BY <1>1, <1>2, NextKeeps

LEMMA AcceptShape ==
  ASSUME Shape, NEW p \in Procs
  PROVE  requests[p].step \in {"accept_upsert", "accept_save"} =>
            /\ requests[p].inv \in Invitations
            /\ requests[p].user \in Users
            /\ requests[p].workspace \in Workspaces
  BY DEF Shape, ShapedRequest

LEMMA AddresseesStep ==
  ASSUME Shape, AddresseesMatch, [Next]_vars
  PROVE  AddresseesMatch'
<1> DEFINE Matches(r) == /\ invitations[r.inv].status # "none"
                         /\ invitations[r.inv].email = EmailOf[r.user]
                         /\ invitations[r.inv].workspace = r.workspace
<1> SUFFICES ASSUME NEW p \in Procs, NEW s, s = requests'[p],
                    s.step \in {"accept_upsert", "accept_save"}
             PROVE  /\ invitations'[s.inv].status # "none"
                    /\ invitations'[s.inv].email = EmailOf[s.user]
                    /\ invitations'[s.inv].workspace = s.workspace
  BY DEF AddresseesMatch
<1>1. ASSUME NEW r \in Request, Matches(r), r.inv \in Invitations,
             s.inv = r.inv, s.user = r.user, s.workspace = r.workspace
      PROVE  /\ invitations'[s.inv].status # "none"
             /\ invitations'[s.inv].email = EmailOf[s.user]
             /\ invitations'[s.inv].workspace = s.workspace
  BY <1>1, InvitationStep DEF Stored, Accepted, Closed, InvitationTo
<1>2. requests[p] \in Request /\ requests \in [Procs -> Request]
  BY DEF Shape, ShapedRequest
<1>3. CASE s = requests[p]
  BY <1>1, <1>2, <1>3, AcceptShape DEF AddresseesMatch
<1>4. CASE s # requests[p]
  <2>1. Enters(p) /\ s.step # "idle"
    BY <1>4, StepEnters DEF Idle
  <2>2. CASE s.step = "accept_upsert"
    <3>1. PICK u \in Users, i \in Invitations : AcceptInvitation(p, u, i)
      BY <2>1, <2>2 DEF Enters
    <3>2. /\ s.inv = i /\ s.user = u /\ s.workspace = invitations[i].workspace
          /\ invitations[i].status = "pending" /\ invitations[i].email = EmailOf[u]
          /\ UNCHANGED invitations
      BY <1>2, <3>1 DEF AcceptInvitation, Begin, Idle
    <3>3. QED
      BY <3>2
  <2>3. CASE s.step = "accept_save"
    <3>1. UpsertMember(p)
      BY <2>1, <2>3 DEF Enters
    <3>2. /\ At(p, "accept_upsert") /\ s = [requests[p] EXCEPT !.step = "accept_save"]
      BY <1>2, <3>1 DEF UpsertMember, Continue
    <3>3. /\ s.inv = requests[p].inv /\ s.user = requests[p].user
          /\ s.workspace = requests[p].workspace
      BY <1>2, <3>2 DEF Request
    <3>4. QED
      BY <1>1, <1>2, <3>2, <3>3, AcceptShape DEF AddresseesMatch, At
  <2>4. QED
    BY <2>2, <2>3
<1>5. QED
  BY <1>3, <1>4

LEMMA JoinStep == JoinInv /\ [Next]_vars => JoinInv'
<1> SUFFICES ASSUME JoinInv, [Next]_vars
             PROVE  JoinInv'
  OBVIOUS
<1> USE DEF JoinInv
<1>1. OwnershipInv' /\ AddresseesMatch'
  BY NextOwnership, AddresseesStep DEF OwnershipInv
<1>2. ASSUME NEW i \in Invitations, invitations'[i].status = "accepted"
      PROVE  /\ invitations'[i].acceptedBy \in Users
             /\ EmailOf[invitations'[i].acceptedBy] = invitations'[i].email
             /\ \A u \in Users, w \in Workspaces :
                   u = invitations'[i].acceptedBy /\ w = invitations'[i].workspace
                      => HasMembership(u, w)'
             /\ invitations'[i].workspace \in Workspaces
  <2>1. ~ Stored(i) /\ ~ Closed(i) /\ InvitationTo(i)' = InvitationTo(i)
    BY <1>2, InvitationStep DEF Stored, Closed, OwnershipInv
  <2>2. CASE Accepted(i)
    <3>1. PICK p \in Procs : /\ At(p, "accept_save") /\ requests[p].inv = i
                             /\ invitations'[i].acceptedBy = requests[p].user
      BY <2>2 DEF Accepted
    <3>2. /\ requests[p].user \in Users /\ requests[p].workspace \in Workspaces
          /\ invitations[i].email = EmailOf[requests[p].user]
          /\ invitations[i].workspace = requests[p].workspace
          /\ HasMembership(requests[p].user, requests[p].workspace)
      BY <3>1, AcceptShape DEF OwnershipInv, AddresseesMatch, PointerBacked, At
    <3>3. QED
      BY <2>1, <3>1, <3>2, MembershipsStay DEF InvitationTo
  <2>3. CASE ~ Accepted(i)
    <3>1. /\ invitations[i].status = "accepted"
          /\ invitations'[i].acceptedBy = invitations[i].acceptedBy
      BY <1>2, <2>1, <2>3, InvitationStep DEF OwnershipInv
    <3>2. /\ invitations[i].acceptedBy \in Users
          /\ EmailOf[invitations[i].acceptedBy] = invitations[i].email
          /\ HasMembership(invitations[i].acceptedBy, invitations[i].workspace)
      BY <3>1 DEF AcceptedMeansJoined
    <3>3. invitations[i].workspace \in Workspaces
      BY <3>1 DEF AcceptedSomewhere
    <3>4. QED
      BY <2>1, <3>1, <3>2, <3>3, MembershipsStay DEF InvitationTo
  <2>4. QED
    BY <2>2, <2>3
<1>3. AcceptedMeansJoined' /\ AcceptedSomewhere'
  BY <1>2 DEF AcceptedMeansJoined, AcceptedSomewhere, HasMembership
<1>4. QED
  BY <1>1, <1>3

\* An invitation that is marked accepted gave its addressee a membership of
\* its workspace: acceptInvitation writes the membership first, and nothing
\* takes a membership document away.
THEOREM AcceptanceJoins == Spec => []AcceptedMeansJoined
<1>1. Init => JoinInv
  BY InitOwnership DEF JoinInv, Init, AddresseesMatch, AcceptedMeansJoined,
                       AcceptedSomewhere, Idle, NoInvitation
<1>2. JoinInv => AcceptedMeansJoined
  BY DEF JoinInv
<1>3. QED
  BY <1>1, <1>2, JoinStep, PTL DEF Spec

-----------------------------------------------------------------------------
(* What a request holds when it enters a step.                             *)

\* The steps that a handler goes on to, each with the one before it.
LaterSteps == {"role_save", "remove_save", "invite_revoke", "invite_create",
               "accept_save", "revoke_save", "delete_revoke", "delete_mark"}

Follows(old, new) ==
  \/ old = "role_find" /\ new = "role_save"
  \/ old = "remove_find" /\ new = "remove_save"
  \/ old = "invite_check" /\ new = "invite_revoke"
  \/ old = "invite_revoke" /\ new = "invite_create"
  \/ old = "accept_upsert" /\ new = "accept_save"
  \/ old = "revoke_find" /\ new = "revoke_save"
  \/ old = "delete_suspend" /\ new = "delete_revoke"
  \/ old = "delete_revoke" /\ new = "delete_mark"

\* s is r further on: the references have not changed.
SameReferences(r, s) ==
  /\ s.user = r.user /\ s.workspace = r.workspace /\ s.target = r.target
  /\ s.email = r.email /\ s.role = r.role /\ s.inv = r.inv

LEMMA NextStepReferences ==
  ASSUME NEW r \in Request, NEW step
  PROVE  SameReferences(r, [r EXCEPT !.step = step])
  BY DEF SameReferences, Request

LEMMA SeenReferences ==
  ASSUME NEW r, NEW t \in Request, NEW role, SameReferences(r, t)
  PROVE  SameReferences(r, [t EXCEPT !.seen = role])
  BY DEF SameReferences, Request

LEMMA Continues ==
  ASSUME Shape, NEW p \in Procs, Enters(p), requests'[p].step \in LaterSteps
  PROVE  /\ Follows(requests[p].step, requests'[p].step)
         /\ SameReferences(requests[p], requests'[p])
<1>1. requests[p] \in Request /\ requests \in [Procs -> Request]
  BY DEF Shape, ShapedRequest
<1>2. requests'[p] # Idle
  BY DEF Idle, LaterSteps
<1>3. CASE FindRemoveTarget(p) /\ requests'[p].step = "remove_save"
  <2>1. /\ At(p, "remove_find")
        /\ requests'[p] = [requests[p] EXCEPT !.step = "remove_save"]
    BY <1>1, <1>2, <1>3 DEF FindRemoveTarget, Begin, Refuse, Finish
  <2>2. QED
    BY <1>1, <1>3, <2>1, NextStepReferences DEF At, Follows
<1>4. CASE CheckExistingMember(p) /\ requests'[p].step = "invite_revoke"
  <2>1. /\ At(p, "invite_check")
        /\ requests'[p] = [requests[p] EXCEPT !.step = "invite_revoke"]
    BY <1>1, <1>2, <1>4 DEF CheckExistingMember, Begin, Refuse, Finish
  <2>2. QED
    BY <1>1, <1>4, <2>1, NextStepReferences DEF At, Follows
<1>5. CASE RevokeEarlierInvitations(p) /\ requests'[p].step = "invite_create"
  <2>1. /\ At(p, "invite_revoke")
        /\ requests'[p] = [requests[p] EXCEPT !.step = "invite_create"]
    BY <1>1, <1>2, <1>5 DEF RevokeEarlierInvitations, Continue
  <2>2. QED
    BY <1>1, <1>5, <2>1, NextStepReferences DEF At, Follows
<1>6. CASE UpsertMember(p) /\ requests'[p].step = "accept_save"
  <2>1. /\ At(p, "accept_upsert")
        /\ requests'[p] = [requests[p] EXCEPT !.step = "accept_save"]
    BY <1>1, <1>2, <1>6 DEF UpsertMember, Continue
  <2>2. QED
    BY <1>1, <1>6, <2>1, NextStepReferences DEF At, Follows
<1>7. CASE FindRevocable(p) /\ requests'[p].step = "revoke_save"
  <2>1. /\ At(p, "revoke_find")
        /\ requests'[p] = [requests[p] EXCEPT !.step = "revoke_save"]
    BY <1>1, <1>2, <1>7 DEF FindRevocable, Begin, Refuse, Finish
  <2>2. QED
    BY <1>1, <1>7, <2>1, NextStepReferences DEF At, Follows
<1>8. CASE SuspendMemberships(p) /\ requests'[p].step = "delete_revoke"
  <2>1. /\ At(p, "delete_suspend")
        /\ requests'[p] = [requests[p] EXCEPT !.step = "delete_revoke"]
    BY <1>1, <1>2, <1>8 DEF SuspendMemberships, Continue
  <2>2. QED
    BY <1>1, <1>8, <2>1, NextStepReferences DEF At, Follows
<1>9. CASE RevokePendingInvitations(p) /\ requests'[p].step = "delete_mark"
  <2>1. /\ At(p, "delete_revoke")
        /\ requests'[p] = [requests[p] EXCEPT !.step = "delete_mark"]
    BY <1>1, <1>2, <1>9 DEF RevokePendingInvitations, Continue
  <2>2. QED
    BY <1>1, <1>9, <2>1, NextStepReferences DEF At, Follows
<1>10. CASE FindRoleTarget(p) /\ requests'[p].step = "role_save"
  <2>1. At(p, "role_find")
    BY <1>10 DEF FindRoleTarget
  <2>2. PICK t \in Request : t = [requests[p] EXCEPT !.step = "role_save"]
    BY <1>1 DEF Request, Steps
  <2>3. SameReferences(requests[p], requests'[p])
    <3> DEFINE role == memberships[requests[p].workspace][requests[p].target].role
    <3>1. requests'[p] = [t EXCEPT !.seen = role]
      BY <1>1, <1>2, <1>10, <2>2 DEF FindRoleTarget, Begin, Refuse, Finish
    <3>2. SameReferences(requests[p], t)
      BY <1>1, <2>2, NextStepReferences
    <3> HIDE DEF role
    <3>3. QED
      BY <3>1, <3>2, SeenReferences
  <2>4. QED
    BY <1>10, <2>1, <2>3 DEF At, Follows
<1>11. \/ FindRoleTarget(p) /\ requests'[p].step = "role_save"
       \/ FindRemoveTarget(p) /\ requests'[p].step = "remove_save"
       \/ CheckExistingMember(p) /\ requests'[p].step = "invite_revoke"
       \/ RevokeEarlierInvitations(p) /\ requests'[p].step = "invite_create"
       \/ UpsertMember(p) /\ requests'[p].step = "accept_save"
       \/ FindRevocable(p) /\ requests'[p].step = "revoke_save"
       \/ SuspendMemberships(p) /\ requests'[p].step = "delete_revoke"
       \/ RevokePendingInvitations(p) /\ requests'[p].step = "delete_mark"
  BY DEF Enters, LaterSteps
<1>12. QED
  BY <1>3, <1>4, <1>5, <1>6, <1>7, <1>8, <1>9, <1>10, <1>11

LEMMA RankFacts ==
  \A role \in Roles : CanManageMembers(role) <=> role \in {"owner", "admin"}
  BY DEF Roles, CanManageMembers, HasMinimumRole, RoleRank

\* What only a manager of the workspace begins.
LEMMA ManagersBegin ==
  ASSUME Shape, NEW p \in Procs, Enters(p),
         requests'[p].step \in {"role_find", "remove_find", "invite_check",
                               "revoke_find", "delete_suspend"}
  PROVE  \E u \in Users, w \in Workspaces :
            /\ requests'[p].workspace = w /\ requests'[p].user = None
            /\ IsActive(u, w) /\ CanManageMembers(memberships[w][u].role)
            /\ requests'[p].step = "delete_suspend" => IsOwner(u, w)
<1> DEFINE Goal == \E u \in Users, w \in Workspaces :
                      /\ requests'[p].workspace = w /\ requests'[p].user = None
                      /\ IsActive(u, w) /\ CanManageMembers(memberships[w][u].role)
                      /\ requests'[p].step = "delete_suspend" => IsOwner(u, w)
<1> USE DEF Shape, Begin, Idle, RequireMembership
<1>1. ASSUME NEW u \in Users, NEW w \in Workspaces, NEW t \in Users,
             NEW role \in OfferedRoles, UpdateMemberRole(p, u, w, t, role)
      PROVE  Goal
  BY <1>1 DEF UpdateMemberRole
<1>2. ASSUME NEW u \in Users, NEW w \in Workspaces, NEW t \in Users,
             RemoveMember(p, u, w, t)
      PROVE  Goal
  BY <1>2 DEF RemoveMember
<1>3. ASSUME NEW u \in Users, NEW w \in Workspaces, NEW e \in Emails,
             NEW role \in OfferedRoles, CreateInvitation(p, u, w, e, role)
      PROVE  Goal
  BY <1>3 DEF CreateInvitation
<1>4. ASSUME NEW u \in Users, NEW w \in Workspaces, NEW i \in Invitations,
             RevokeInvitation(p, u, w, i)
      PROVE  Goal
  BY <1>4 DEF RevokeInvitation
<1>5. ASSUME NEW u \in Users, NEW w \in Workspaces, DeleteWorkspace(p, u, w)
      PROVE  Goal
  BY <1>5, RankFacts DEF DeleteWorkspace, CanDeleteWorkspace, IsOwner, Roles
<1> HIDE DEF Goal
<1>6. Goal
  BY <1>1, <1>2, <1>3, <1>4, <1>5 DEF Enters
<1>7. QED
  BY <1>6 DEF Goal

\* What a request that enters another of its steps is about.
LEMMA EntryFacts ==
  ASSUME Shape, NEW p \in Procs, Enters(p), NEW s, s = requests'[p]
  PROVE  /\ s.step \in {"company_create", "oauth_create", "expire_save"}
               => s.workspace = None
         /\ s.step = "oauth_point"
               => /\ s.user = requests[p].user /\ At(p, "oauth_create")
                  /\ \E w \in Workspaces : CreateCompany(p, w) /\ s.workspace = w
         /\ s.step = "owner_upsert"
               => \/ /\ s.user = requests[p].user /\ At(p, "company_create")
                     /\ \E w \in Workspaces : CreateCompany(p, w) /\ s.workspace = w
                  \/ /\ At(p, "oauth_point") /\ PointAtCompany(p)
                     /\ SameReferences(requests[p], s)
         /\ s.step = "accept_upsert"
               => /\ s.user \in Users /\ s.inv \in Invitations
                  /\ Authenticated(s.user)
                  /\ invitations[s.inv].status = "pending"
                  /\ invitations[s.inv].email = EmailOf[s.user]
                  /\ invitations[s.inv].workspace = s.workspace
                  /\ UNCHANGED invitations
         /\ s.step = "expire_save"
               => /\ s.user = None /\ invitations[s.inv].status = "pending"
                  /\ UNCHANGED invitations
         /\ s.step = "legacy_create"
               => /\ s.user \in Users /\ Live(s.user)
                  /\ s.workspace = users[s.user].company
                  /\ ~ HasMembership(s.user, s.workspace)
                  /\ s.role = IF users[s.user].system THEN "owner" ELSE "member"
<1>1. requests \in [Procs -> Request]
  BY DEF Shape, ShapedRequest
<1>2. ASSUME s.step \in {"company_create", "oauth_create"}
      PROVE  s.workspace = None
  <2>1. ASSUME NEW u \in Users,
               \/ RequestRegister(p, u) \/ OauthSignUp(p, u)
               \/ CreateWorkspaceForUser(p, u)
        PROVE  s.workspace = None
    BY <1>1, <2>1
    DEF RequestRegister, OauthSignUp, SignUp, CreateWorkspaceForUser, Begin, Idle
  <2>2. QED
    BY <1>2, <2>1 DEF Enters
<1>8. ASSUME s.step = "expire_save"
      PROVE  /\ s.user = None /\ s.workspace = None
             /\ invitations[s.inv].status = "pending" /\ UNCHANGED invitations
  <2>1. PICK i \in Invitations : FindLapsed(p, i)
    BY <1>8 DEF Enters
  <2>2. /\ s.user = None /\ s.workspace = None /\ s.inv = i
        /\ UNCHANGED invitations
        /\ invitations[i].status = "pending"
    BY <1>1, <2>1 DEF FindLapsed, Begin, Idle
  <2>3. QED
    BY <2>2
<1>3. ASSUME NEW w \in Workspaces, CreateCompany(p, w)
      PROVE  /\ s.workspace = w /\ s.user = requests[p].user
             /\ \/ s.step = "oauth_point" /\ At(p, "oauth_create")
                \/ s.step = "owner_upsert" /\ At(p, "company_create")
  <2>1. \/ /\ At(p, "oauth_create")
           /\ s = [requests[p] EXCEPT !.step = "oauth_point", !.workspace = w]
        \/ /\ At(p, "company_create")
           /\ s = [requests[p] EXCEPT !.step = "owner_upsert", !.workspace = w]
    BY <1>1, <1>3 DEF CreateCompany, At
  <2>2. QED
    BY <1>1, <2>1 DEF Request
<1>4. ASSUME s.step = "oauth_point"
      PROVE  /\ s.user = requests[p].user /\ At(p, "oauth_create")
             /\ \E w \in Workspaces : CreateCompany(p, w) /\ s.workspace = w
  BY <1>3, <1>4 DEF Enters
<1>5. ASSUME s.step = "owner_upsert"
      PROVE  \/ /\ s.user = requests[p].user /\ At(p, "company_create")
                /\ \E w \in Workspaces : CreateCompany(p, w) /\ s.workspace = w
             \/ /\ At(p, "oauth_point") /\ PointAtCompany(p)
                /\ SameReferences(requests[p], s)
  <2>1. CASE PointAtCompany(p) /\ Live(requests[p].user)
    <3>1. At(p, "oauth_point") /\ s = [requests[p] EXCEPT !.step = "owner_upsert"]
      BY <1>1, <2>1 DEF PointAtCompany, Continue
    <3>2. QED
      BY <1>1, <1>5, <2>1, <3>1, NextStepReferences
  <2>2. QED
    BY <1>3, <1>5, <2>1 DEF Enters
<1>6. CASE s.step = "accept_upsert"
  <2>1. PICK u \in Users, i \in Invitations : AcceptInvitation(p, u, i)
    BY <1>6 DEF Enters
  <2>2. /\ s.user = u /\ s.inv = i /\ s.workspace = invitations[i].workspace
        /\ UNCHANGED invitations
    BY <1>1, <2>1 DEF AcceptInvitation, Begin, Idle
  <2>3. /\ Authenticated(u) /\ invitations[i].status = "pending"
        /\ invitations[i].email = EmailOf[u]
    BY <2>1 DEF AcceptInvitation
  <2>4. QED
    BY <1>6, <2>2, <2>3
<1>7. CASE s.step = "legacy_create"
  <2>1. PICK u \in Users : EnsureLegacyMembership(p, u)
    BY <1>7 DEF Enters
  <2>2. /\ s.user = u /\ s.workspace = users[u].company
        /\ s.role = IF users[u].system THEN "owner" ELSE "member"
    BY <1>1, <2>1 DEF EnsureLegacyMembership, Begin, Idle
  <2>3. Live(u) /\ ~ HasMembership(u, users[u].company)
    BY <2>1 DEF EnsureLegacyMembership, NeedsLegacyMembership
  <2>4. QED
    BY <1>7, <2>2, <2>3
<1>9. QED
  BY <1>2, <1>4, <1>5, <1>6, <1>7, <1>8

LEMMA SignUpFacts ==
  ASSUME Shape, NEW p \in Procs, NEW u \in Users,
         RequestRegister(p, u) \/ OauthSignUp(p, u)
  PROVE  /\ requests'[p].user = u /\ requests'[p].workspace = None
         /\ users'[u].account = "live" /\ users'[u].system
         /\ OauthSignUp(p, u) => "oauth" \in Operations
<1>1. /\ users \in [Users -> Account]
      /\ requests \in [Procs -> Request]
  BY DEF Shape, ShapedRequest
<1>2. \E step \in Steps :
         /\ requests'[p] = [Idle EXCEPT !.step = step, !.user = u]
         /\ users'[u] = [account |-> "live", system |-> TRUE, company |-> None]
  BY <1>1 DEF RequestRegister, OauthSignUp, SignUp, Steps
<1>3. OauthSignUp(p, u) => "oauth" \in Operations
  BY DEF OauthSignUp, SignUp, Free
<1>4. QED
  BY <1>2, <1>3 DEF Idle

\* What the members of a workspace begin, and the users without one.
LEMMA OpeningFacts ==
  ASSUME Shape, NEW p \in Procs, Enters(p), NEW s, s = requests'[p]
  PROVE  /\ s.step = "company_create"
               => s.user \in Users /\ users'[s.user].account # "absent"
         /\ s.step = "oauth_create"
               => /\ s.user \in Users /\ users'[s.user].account # "absent"
                  /\ users'[s.user].system /\ "oauth" \in Operations
         /\ s.step = "link"
               => \/ \E u \in Users, w \in Workspaces :
                        /\ s.user = u /\ s.workspace = w
                        /\ Authenticated(u) /\ IsActive(u, w)
                  \/ /\ requests[p].step \in {"owner_upsert", "accept_save"}
                     /\ SameReferences(requests[p], s)
         /\ s.step = "add_create"
               => /\ s.user = None
                  /\ \E u \in Users, w \in Workspaces : s.workspace = w /\ IsActive(u, w)
         /\ s.step = "deluser_delete"
               => /\ s.user = None
                  /\ \E u \in Users, w \in Workspaces :
                        /\ s.workspace = w /\ IsActive(u, w)
                        /\ RoleCanPerform(memberships[w][u].role, "delete")
         /\ s.step = "delete_suspend" => "deleteWorkspace" \in Operations
<1>1. requests \in [Procs -> Request]
  BY DEF Shape, ShapedRequest
<1>2. ASSUME s.step = "company_create"
      PROVE  s.user \in Users /\ users'[s.user].account # "absent"
  <2>1. ASSUME NEW u \in Users, CreateWorkspaceForUser(p, u)
        PROVE  s.user = u /\ users'[u].account = "live"
    BY <1>1, <2>1 DEF CreateWorkspaceForUser, Begin, Authenticated, Live, Idle
  <2>2. QED
    BY <1>2, <2>1, SignUpFacts DEF Enters
<1>3. ASSUME s.step = "oauth_create"
      PROVE  /\ s.user \in Users /\ users'[s.user].account # "absent"
             /\ users'[s.user].system /\ "oauth" \in Operations
  <2>1. PICK u \in Users : OauthSignUp(p, u)
    BY <1>3 DEF Enters
  <2>2. QED
    BY <2>1, SignUpFacts
<1>4. CASE s.step = "link"
  <2>1. ASSUME NEW u \in Users, NEW w \in Workspaces, SwitchWorkspace(p, u, w)
        PROVE  s.user = u /\ s.workspace = w /\ Authenticated(u) /\ IsActive(u, w)
    BY <1>1, <2>1 DEF SwitchWorkspace, RequireMembership, Begin, Idle
  <2>2. ASSUME UpsertOwner(p) \/ SaveAccepted(p)
        PROVE  /\ requests[p].step \in {"owner_upsert", "accept_save"}
               /\ SameReferences(requests[p], s)
    <3>1. /\ requests[p].step \in {"owner_upsert", "accept_save"}
          /\ s = [requests[p] EXCEPT !.step = "link"]
      BY <1>1, <2>2 DEF UpsertOwner, SaveAccepted, Continue, At
    <3>2. QED
      BY <1>1, <3>1, NextStepReferences
  <2>3. \/ \E u \in Users, w \in Workspaces :
              s.user = u /\ s.workspace = w /\ Authenticated(u) /\ IsActive(u, w)
        \/ /\ requests[p].step \in {"owner_upsert", "accept_save"}
           /\ SameReferences(requests[p], s)
    BY <1>4, <2>1, <2>2 DEF Enters
  <2>4. QED
    BY <1>4, <2>3
<1>5. CASE s.step = "add_create"
  <2>1. PICK u, t \in Users, w \in Workspaces : InviteUser(p, u, w, t)
    BY <1>5 DEF Enters
  <2>2. s.user = None /\ s.workspace = w /\ IsActive(u, w)
    BY <1>1, <2>1 DEF InviteUser, RequireMembership, Begin, Idle
  <2>3. QED
    BY <1>5, <2>2
<1>6. CASE s.step = "deluser_delete"
  <2>1. PICK u, t \in Users, w \in Workspaces : DeleteUser(p, u, w, t)
    BY <1>6 DEF Enters
  <2>2. /\ s.user = None /\ s.workspace = w /\ IsActive(u, w)
        /\ RoleCanPerform(memberships[w][u].role, "delete")
    BY <1>1, <2>1 DEF DeleteUser, RequireMembership, Begin, Idle
  <2>3. QED
    BY <1>6, <2>2
<1>7. ASSUME s.step = "delete_suspend"
      PROVE  "deleteWorkspace" \in Operations
  <2>1. PICK u \in Users, w \in Workspaces : DeleteWorkspace(p, u, w)
    BY <1>7 DEF Enters
  <2>2. QED
    BY <2>1 DEF DeleteWorkspace, Free
<1>8. QED
  BY <1>2, <1>3, <1>4, <1>5, <1>6, <1>7

-----------------------------------------------------------------------------
(* What holds when requests do not overlap.                                *)

\* A step of a system that serves one request at a time.
AloneStep == OwnershipInv /\ AloneInv /\ [Next]_vars /\ OneAtATime'

\* Nobody else is served while p is, before and after the step.
LEMMA NobodyElse ==
  ASSUME AloneStep, NEW p \in Procs, NEW q \in Procs
  PROVE  /\ requests[p].step # "idle" /\ requests[q].step # "idle" => p = q
         /\ requests'[p].step # "idle" /\ requests'[q].step # "idle" => p = q
  BY DEF AloneStep, AloneInv, OneAtATime

LEMMA NewestPendingStep == AloneStep => NewestPending'
<1> SUFFICES ASSUME AloneStep
             PROVE  NewestPending'
  OBVIOUS
<1>1. OwnershipInv /\ Shape /\ NewestPending /\ [Next]_vars
  BY DEF AloneStep, AloneInv, OwnershipInv
<1>2. ASSUME NEW i \in Invitations, NEW j \in Invitations, i # j,
             invitations'[i].status = "pending", invitations'[j].status = "pending",
             InvitationTo(i)' = InvitationTo(j)'
      PROVE  FALSE
  <2>1. ASSUME NEW k \in Invitations, NEW l \in Invitations, k # l, Stored(k),
               invitations'[l].status = "pending",
               InvitationTo(k)' = InvitationTo(l)'
        PROVE  FALSE
    <3>1. PICK p \in Procs :
             /\ At(p, "invite_create")
             /\ invitations'[l] = invitations[l]
             /\ invitations'[k].email = requests[p].email
             /\ invitations'[k].workspace = requests[p].workspace
      BY <2>1 DEF Stored
    <3>2. l \in PendingFor(requests[p].email, requests[p].workspace)
      BY <2>1, <3>1 DEF PendingFor, InvitationTo
    <3>3. QED
      BY <1>1, <3>1, <3>2 DEF NewestPending, At
  <2>2. ~ Stored(i) /\ ~ Stored(j)
    BY <1>2, <2>1
  <2>3. /\ invitations[i].status = "pending" /\ invitations[j].status = "pending"
        /\ InvitationTo(i) = InvitationTo(j)
    BY <1>1, <1>2, <2>2, InvitationStep DEF Accepted, Closed
  <2>4. j \in PendingFor(invitations[i].email, invitations[i].workspace)
    BY <2>3 DEF PendingFor, InvitationTo
  <2>5. QED
    BY <1>1, <1>2, <2>3, <2>4 DEF NewestPending
<1>3. ASSUME NEW p \in Procs, NEW i \in Invitations,
             requests'[p].step = "invite_create",
             invitations'[i].status = "pending",
             InvitationTo(i)' = <<requests'[p].email, requests'[p].workspace>>
      PROVE  FALSE
  <2>1. CASE requests'[p] = requests[p]
    <3>1. ~ Stored(i)
      BY <1>3, <2>1, NobodyElse DEF Stored, At, Idle
    <3>2. invitations[i].status = "pending" /\ InvitationTo(i)' = InvitationTo(i)
      BY <1>1, <1>3, <3>1, InvitationStep DEF Accepted, Closed
    <3>3. i \in PendingFor(requests[p].email, requests[p].workspace)
      BY <1>3, <2>1, <3>2 DEF PendingFor, InvitationTo
    <3>4. QED
      BY <1>1, <1>3, <2>1, <3>3 DEF NewestPending
  <2>2. CASE requests'[p] # requests[p]
    <3>1. Enters(p)
      BY <1>1, <1>3, <2>2, StepEnters DEF Idle
    <3>2. RevokeEarlierInvitations(p)
      BY <1>3, <3>1 DEF Enters
    <3>3. SameReferences(requests[p], requests'[p])
      BY <1>1, <1>3, <3>1, Continues DEF LaterSteps
    <3>4. invitations'[i] = IF i \in PendingFor(requests[p].email, requests[p].workspace)
                            THEN [invitations[i] EXCEPT !.status = "revoked"]
                            ELSE invitations[i]
      BY <3>2 DEF RevokeEarlierInvitations
    <3>5. invitations[i] \in Invitation
      BY <1>1 DEF Shape, ShapedInvitation
    <3>6. i \notin PendingFor(requests[p].email, requests[p].workspace)
      BY <1>3, <3>4, <3>5 DEF Invitation
    <3>7. QED
      BY <1>3, <3>3, <3>4, <3>6 DEF PendingFor, InvitationTo, SameReferences
  <2>3. QED
    BY <2>1, <2>2
<1>4. QED
  BY <1>2, <1>3 DEF NewestPending, PendingFor, InvitationTo

LEMMA SettlesPendingStep == AloneStep => SettlesPending'
<1> DEFINE Settling == {"expire_save", "accept_upsert", "accept_save", "revoke_save"}
<1> SUFFICES ASSUME AloneStep, NEW p \in Procs, NEW s, s = requests'[p],
                    s.step \in Settling
             PROVE  invitations'[s.inv].status = "pending"
  BY DEF SettlesPending
<1>1. /\ OwnershipInv /\ Shape /\ SettlesPending /\ [Next]_vars
      /\ requests \in [Procs -> ShapedRequest]
  BY DEF AloneStep, AloneInv, OwnershipInv, Shape
<1>2. CASE s = requests[p]
  <2>1. s.inv \in Invitations /\ invitations[s.inv].status = "pending"
    BY <1>1, <1>2 DEF SettlesPending, ShapedRequest
  <2>2. \A q \in Procs : requests[q].step # "idle" => q = p
    BY <1>2, NobodyElse
  <2>3. ~ Stored(s.inv) /\ ~ Accepted(s.inv) /\ ~ Closed(s.inv)
    <3>1. ~ Stored(s.inv)
      BY <1>2, <2>2 DEF Stored, At, Idle
    <3>2. ~ Accepted(s.inv)
      BY <1>2, <2>2 DEF Accepted, At
    <3>3. ~ Closed(s.inv)
      <4>1. ASSUME NEW q \in Procs, requests[q].step # "idle"
            PROVE  requests[q].step \in Settling /\ requests'[q] # Idle
        <5>1. requests[q] = s /\ requests'[q] = s
          BY <1>2, <2>2, <4>1
        <5>2. s.step # Idle.step
          BY DEF Idle
        <5>3. QED
          BY <5>1, <5>2
      <4>2. QED
        BY <4>1 DEF Closed
    <3>4. QED
      BY <3>1, <3>2, <3>3
  <2>4. QED
    BY <1>1, <2>1, <2>3, InvitationStep
<1>3. CASE s # requests[p]
  <2>1. Enters(p)
    BY <1>1, <1>3, StepEnters DEF Idle
  <2>2. CASE s.step \in {"expire_save", "accept_upsert"}
    BY <1>1, <2>1, <2>2, EntryFacts
  <2>3. CASE s.step = "accept_save"
    <3>1. UpsertMember(p) /\ SameReferences(requests[p], s)
      BY <1>1, <2>1, <2>3, Continues DEF Enters, LaterSteps
    <3>2. QED
      BY <1>1, <3>1 DEF UpsertMember, At, SettlesPending, SameReferences
  <2>4. CASE s.step = "revoke_save"
    <3>1. FindRevocable(p) /\ SameReferences(requests[p], s)
      BY <1>1, <2>1, <2>4, Continues DEF Enters, LaterSteps
    <3>2. QED
      BY <1>1, <2>4, <3>1
      DEF FindRevocable, Begin, Refuse, Finish, Idle, SameReferences
  <2>5. QED
    BY <2>2, <2>3, <2>4
<1>4. QED
  BY <1>2, <1>3

LEMMA LegacyRolesStep == AloneStep => LegacyRoles'
<1> SUFFICES ASSUME AloneStep, NEW p \in Procs, NEW s, s = requests'[p],
                    s.step = "legacy_create"
             PROVE  s.role \in {"owner", "member"}
  BY DEF LegacyRoles
<1>1. Shape /\ LegacyRoles /\ [Next]_vars
  BY DEF AloneStep, AloneInv, OwnershipInv
<1>2. CASE s = requests[p]
  BY <1>1, <1>2 DEF LegacyRoles
<1>3. CASE s # requests[p]
  <2>1. Enters(p)
    BY <1>1, <1>3, StepEnters DEF Idle
  <2>2. QED
    BY <1>1, <2>1, EntryFacts
<1>4. QED
  BY <1>2, <1>3

LEMMA DeletionInOrderStep == AloneStep => DeletionInOrder'
<1> SUFFICES ASSUME AloneStep, NEW p \in Procs, NEW s, s = requests'[p],
                    s.step \in {"delete_revoke", "delete_mark"}
             PROVE  /\ \A u \in Users : memberships'[s.workspace][u].status # "active"
                    /\ s.step = "delete_mark" =>
                          \A i \in Invitations :
                             invitations'[i].status = "pending"
                                => invitations'[i].workspace # s.workspace
  BY DEF DeletionInOrder, IsActive
<1>1. /\ OwnershipInv /\ Shape /\ DeletionInOrder /\ [Next]_vars
      /\ requests \in [Procs -> ShapedRequest]
  BY DEF AloneStep, AloneInv, OwnershipInv, Shape
<1>2. CASE s = requests[p]
  <2>1. s.workspace \in Workspaces
    BY <1>1, <1>2 DEF ShapedRequest
  <2>2. \A q \in Procs : requests[q].step # "idle" => q = p
    BY <1>2, NobodyElse
  <2>3. ASSUME NEW u \in Users
        PROVE  memberships'[s.workspace][u] = memberships[s.workspace][u]
    <3>1. ASSUME NEW q \in Procs, Wrote(q, u, s.workspace)
          PROVE  FALSE
      <4>1. requests[q].step \notin {"idle", "delete_revoke", "delete_mark"}
                \/ requests[q].step = "delete_suspend"
        BY <3>1 DEF Wrote, At
      <4>2. QED
        BY <1>2, <2>2, <4>1
    <3>2. QED
      BY <1>1, <2>1, <3>1, MembershipStep
  <2>4. ASSUME NEW i \in Invitations, invitations'[i].status = "pending"
        PROVE  /\ invitations[i].status = "pending"
               /\ invitations'[i].workspace = invitations[i].workspace
    <3>1. ~ Stored(i)
      BY <1>2, <2>2 DEF Stored, At
    <3>2. QED
      BY <1>1, <2>4, <3>1, InvitationStep DEF Accepted, Closed, InvitationTo
  <2>5. QED
    BY <1>1, <1>2, <2>3, <2>4 DEF DeletionInOrder, IsActive
<1>3. CASE s # requests[p]
  <2>1. Enters(p)
    BY <1>1, <1>3, StepEnters DEF Idle
  <2>2. SameReferences(requests[p], s) /\ requests[p] \in ShapedRequest
    BY <1>1, <2>1, Continues DEF LaterSteps
  <2>3. CASE s.step = "delete_revoke"
    <3>1. SuspendMemberships(p)
      BY <2>1, <2>3 DEF Enters
    <3>2. s.workspace \in Workspaces /\ At(p, "delete_suspend")
      BY <2>2, <3>1 DEF SuspendMemberships, At, SameReferences, ShapedRequest
    <3>3. \A u \in Users : memberships'[s.workspace][u].status # "active"
      BY <1>1, <2>2, <3>1, <3>2, SuspendsAll DEF SameReferences
    <3>4. QED
      BY <2>3, <3>3
  <2>4. CASE s.step = "delete_mark"
    <3>1. RevokePendingInvitations(p) /\ requests[p].workspace = s.workspace
      BY <2>1, <2>2, <2>4 DEF Enters, SameReferences
    <3>2. \A u \in Users : memberships'[s.workspace][u].status # "active"
      BY <1>1, <3>1 DEF RevokePendingInvitations, DeletionInOrder, IsActive, At
    <3>3. ASSUME NEW i \in Invitations, invitations'[i].status = "pending",
                 invitations'[i].workspace = s.workspace
          PROVE  FALSE
      <4>1. invitations[i] \in Invitation
        BY <1>1 DEF Shape, ShapedInvitation
      <4>2. QED
        BY <3>1, <3>3, <4>1 DEF RevokePendingInvitations, Invitation
    <3>4. QED
      BY <3>2, <3>3
  <2>5. QED
    BY <2>3, <2>4
<1>4. QED
  BY <1>2, <1>3

\* A company that is being created was unknown, so only its claims are new.
LEMMA CreationClaims ==
  ASSUME OwnershipInv, NEW p \in Procs, NEW c \in Workspaces, CreateCompany(p, c),
         NEW u \in Users, NEW w \in Workspaces, w # c, ClaimsOwnership(u, w)'
  PROVE  ClaimsOwnership(u, w)
<1>1. /\ UNCHANGED <<users, memberships>>
      /\ \A q \in Procs \ {p} : requests'[q] = requests[q]
  BY DEF CreateCompany, OwnershipInv, Shape
<1>2. requests'[p].workspace = c
  <2>1. requests[p] \in Request
    BY DEF OwnershipInv, Shape, ShapedRequest
  <2>2. \E step \in Steps :
           requests'[p] = [requests[p] EXCEPT !.step = step, !.workspace = c]
    BY DEF CreateCompany, OwnershipInv, Shape, Steps
  <2>3. QED
    BY <2>1, <2>2 DEF Request
<1>3. ASSUME NEW q \in Procs,
             requests'[q].user = u, requests'[q].workspace = w,
             \/ At(q, "owner_upsert")' \/ At(q, "oauth_point")'
             \/ /\ At(q, "legacy_create")' /\ requests'[q].role = "owner"
                /\ ~ HasMembership(u, w)'
      PROVE  ClaimsOwnership(u, w)
  BY <1>1, <1>2, <1>3 DEF ClaimsOwnership, At, HasMembership
<1>4. CASE IsOwner(u, w)'
  BY <1>1, <1>4 DEF ClaimsOwnership, IsOwner
<1>5. CASE Live(u)' /\ users'[u].system /\ users'[u].company = w /\ ~ HasMembership(u, w)'
  BY <1>1, <1>5 DEF ClaimsOwnership, Live, HasMembership
<1>6. QED
  BY <1>3, <1>4, <1>5 DEF ClaimsOwnership

Deleting(w) ==
  \/ workspaces[w] = "deleted"
  \/ \E p \in Procs :
        /\ requests[p].workspace = w
        /\ requests[p].step \in {"delete_suspend", "delete_revoke", "delete_mark"}

LEMMA ClaimsBackedStep == AloneStep => ClaimsBacked'
<1> SUFFICES ASSUME AloneStep, NEW w \in Workspaces, Deleting(w)',
                    NEW u \in Users, ClaimsOwnership(u, w)'
             PROVE  HasMembership(u, w)'
  BY DEF ClaimsBacked, Deleting
<1>1. /\ OwnershipInv /\ Shape /\ ClaimsBacked /\ FreshUntouched /\ [Next]_vars
      /\ requests \in [Procs -> ShapedRequest]
  BY DEF AloneStep, AloneInv, OwnershipInv, Shape
<1>2. workspaces[w] # "absent"
  <2>1. ASSUME NEW q \in Procs, NEW c \in Workspaces, CreateCompany(q, c),
               workspaces[w] = "absent"
        PROVE  FALSE
    <3>1. workspaces'[w] # "deleted"
      BY <1>1, <2>1 DEF CreateCompany, Shape
    <3>2. \A o \in Procs \ {q} : requests'[o] = requests[o]
      BY <1>1, <2>1 DEF CreateCompany
    <3>3. requests'[q].step \in {"oauth_point", "owner_upsert"}
      <4>1. requests[q] \in Request
        BY <1>1 DEF ShapedRequest
      <4>2. \E step \in {"oauth_point", "owner_upsert"} :
               requests'[q] = [requests[q] EXCEPT !.step = step, !.workspace = c]
        BY <1>1, <2>1 DEF CreateCompany
      <4>3. QED
        BY <4>1, <4>2 DEF Request
    <3>4. QED
      BY <1>1, <2>1, <3>1, <3>2, <3>3 DEF Deleting, FreshUntouched
  <2>2. CASE Kept
    <3>1. workspaces'[w] # "absent"
      BY <2>2 DEF Deleting, Kept, OwnershipInv, FreshUntouched
    <3>2. QED
      BY <1>1, <2>1, <3>1, WorkspaceWriters DEF MarkDeleted, FreshUntouched, Shape
  <2>3. QED
    BY <1>1, <2>1, <2>2, NextKeeps
<1>3. ClaimsOwnership(u, w)
  BY <1>1, <1>2, NextKeeps, CreationClaims DEF Kept, CreateCompany
<1>4. CASE Deleting(w)
  BY <1>1, <1>3, <1>4, MembershipsStay DEF ClaimsBacked, Deleting
<1>5. CASE ~ Deleting(w)
  <2>1. workspaces'[w] # "deleted"
    BY <1>1, <1>5, WorkspaceWriters DEF MarkDeleted, CreateCompany, Deleting, At, Shape
  <2>2. PICK p \in Procs :
           /\ requests'[p].workspace = w
           /\ requests'[p].step \in {"delete_suspend", "delete_revoke", "delete_mark"}
    BY <2>1 DEF Deleting
  <2>3. Enters(p)
    BY <1>1, <1>5, <2>2, StepEnters DEF Deleting, Idle
  <2>4. requests'[p].step = "delete_suspend"
    BY <1>1, <1>5, <2>2, <2>3, Continues
    DEF Deleting, LaterSteps, Follows, SameReferences
  <2>5. PICK v \in Users : IsActive(v, w) /\ IsOwner(v, w)
    BY <1>1, <2>2, <2>3, <2>4, ManagersBegin
  <2>6. HasMembership(v, w) /\ ClaimsOwnership(v, w)
    BY <2>5 DEF IsActive, HasMembership, NoMembership, ClaimsOwnership
  <2>7. v = u
    BY <1>1, <1>3, <2>6 DEF OwnershipInv, UniqueClaim
  <2>8. QED
    BY <1>1, <2>6, <2>7, MembershipsStay
<1>6. QED
  BY <1>4, <1>5

\* The step that deletes a workspace finds it closed.
LEMMA DeletionCloses ==
  ASSUME AloneStep, NEW w \in Workspaces,
         workspaces'[w] = "deleted", workspaces[w] # "deleted"
  PROVE  \E p \in Procs :
            MarkDeleted(p) /\ At(p, "delete_mark") /\ requests[p].workspace = w
<1>1. Shape /\ [Next]_vars
  BY DEF AloneStep, OwnershipInv
<1>2. \A p \in Procs, c \in Workspaces : ~ CreateCompany(p, c)
  BY <1>1 DEF CreateCompany, Shape
<1>3. PICK p \in Procs : MarkDeleted(p)
  BY <1>1, <1>2, WorkspaceWriters
<1>4. requests[p].workspace = w /\ At(p, "delete_mark")
  BY <1>1, <1>3 DEF MarkDeleted, Shape
<1>5. QED
  BY <1>3, <1>4

LEMMA DeletedMembersStep ==
  ASSUME AloneStep, NEW w \in Workspaces, workspaces'[w] = "deleted",
         NEW u \in Users, memberships'[w][u].status = "active"
  PROVE  ~ CanManageMembers(memberships'[w][u].role)
<1>1. /\ OwnershipInv /\ Shape /\ [Next]_vars
      /\ DeletedClosed /\ DeletionInOrder /\ ClaimsBacked /\ LegacyRoles
  BY DEF AloneStep, AloneInv, OwnershipInv
<1>2. CASE workspaces[w] # "deleted"
  <2>1. PICK p \in Procs : /\ MarkDeleted(p) /\ At(p, "delete_mark")
                           /\ requests[p].workspace = w
    BY <1>2, DeletionCloses
  <2>2. ~ IsActive(u, w) /\ UNCHANGED memberships
    BY <1>1, <2>1 DEF DeletionInOrder, At, MarkDeleted
  <2>3. QED
    BY <2>2 DEF IsActive
<1>3. CASE workspaces[w] = "deleted" /\ memberships'[w][u] = memberships[w][u]
  BY <1>1, <1>3 DEF DeletedClosed, IsActive
<1>4. CASE workspaces[w] = "deleted" /\ memberships'[w][u] # memberships[w][u]
  <2>1. PICK p \in Procs : Wrote(p, u, w)
    BY <1>1, <1>4, MembershipStep
  <2>2. requests[p].step \in PlainSteps
    BY <1>1, <1>4, <2>1 DEF DeletedClosed, Wrote
  <2>3. /\ At(p, "legacy_create") /\ requests[p].user = u /\ requests[p].workspace = w
        /\ ~ HasMembership(u, w) /\ memberships'[w][u].role = requests[p].role
    BY <2>1, <2>2 DEF Wrote, At, PlainSteps
  <2>4. requests[p].role # "owner"
    <3>1. requests[p].role = "owner" => ClaimsOwnership(u, w)
      BY <2>3 DEF ClaimsOwnership
    <3>2. QED
      BY <1>1, <1>4, <2>3, <3>1 DEF ClaimsBacked
  <2>5. memberships'[w][u].role = "member"
    BY <1>1, <2>3, <2>4 DEF LegacyRoles, At
  <2>6. QED
    BY <2>5, RankFacts DEF Roles
<1>5. QED
  BY <1>2, <1>3, <1>4

LEMMA DeletedRequestsStep ==
  ASSUME AloneStep, NEW w \in Workspaces, workspaces'[w] = "deleted",
         NEW p \in Procs, NEW s, s = requests'[p], s.workspace = w
  PROVE  s.step \in PlainSteps
<1>1. /\ OwnershipInv /\ Shape /\ [Next]_vars /\ DeletedClosed
      /\ requests \in [Procs -> ShapedRequest]
  BY DEF AloneStep, AloneInv, OwnershipInv, Shape
<1>2. w # None
  BY WorkspacesAssumption
<1>3. CASE workspaces[w] # "deleted"
  <2>1. PICK q \in Procs : MarkDeleted(q) /\ At(q, "delete_mark")
    BY <1>3, DeletionCloses
  <2>2. requests' = [requests EXCEPT ![q] = Idle]
    BY <2>1 DEF MarkDeleted, Finish
  <2>3. p # q
    BY <1>1, <1>2, <2>2 DEF Idle
  <2>4. s = requests[p] /\ requests[p].step = "idle"
    BY <1>1, <2>1, <2>2, <2>3, NobodyElse DEF At
  <2>5. QED
    BY <2>4 DEF PlainSteps
<1>4. CASE workspaces[w] = "deleted" /\ s = requests[p]
  BY <1>1, <1>4 DEF DeletedClosed
<1>5. CASE workspaces[w] = "deleted" /\ s # requests[p]
  <2>1. Enters(p)
    BY <1>1, <1>2, <1>5, StepEnters DEF Idle
  <2>2. \A v \in Users : IsActive(v, w) => ~ CanManageMembers(memberships[w][v].role)
    BY <1>1, <1>5 DEF DeletedClosed
  <2>3. s.step \notin {"role_find", "remove_find", "invite_check", "revoke_find",
                      "delete_suspend"}
    BY <1>1, <2>1, <2>2, ManagersBegin
  <2>4. s.step \notin LaterSteps
    <3>1. requests[p].workspace = w => requests[p].step \in PlainSteps
      BY <1>1, <1>5 DEF DeletedClosed
    <3>2. QED
      BY <1>1, <2>1, <3>1, Continues DEF Follows, SameReferences, PlainSteps
  <2>5. s.step \notin {"company_create", "oauth_create", "expire_save"}
    BY <1>1, <1>2, <2>1, EntryFacts
  <2>6. ~ CreateCompany(p, w)
    BY <1>5 DEF CreateCompany
  <2>7. s.step \notin {"oauth_point", "owner_upsert"}
    <3>1. requests[p].workspace = w => ~ At(p, "oauth_point")
      BY <1>1, <1>5 DEF DeletedClosed, PlainSteps, At
    <3>2. QED
      BY <1>1, <2>1, <2>6, <3>1, EntryFacts DEF SameReferences
  <2>8. s.step # "accept_upsert"
    BY <1>1, <1>5, <2>1, EntryFacts DEF DeletedClosed
  <2>9. QED
    BY <2>1, <2>3, <2>4, <2>5, <2>7, <2>8 DEF Enters, LaterSteps, PlainSteps
<1>6. QED
  BY <1>3, <1>4, <1>5

LEMMA DeletedInvitationsStep ==
  ASSUME AloneStep, NEW w \in Workspaces, workspaces'[w] = "deleted",
         NEW i \in Invitations, invitations'[i].status = "pending"
  PROVE  invitations'[i].workspace # w
<1>1. /\ Shape /\ [Next]_vars /\ DeletedClosed /\ DeletionInOrder
  BY DEF AloneStep, AloneInv, OwnershipInv
<1>2. CASE workspaces[w] # "deleted"
  <2>1. PICK p \in Procs : /\ MarkDeleted(p) /\ At(p, "delete_mark")
                           /\ requests[p].workspace = w
    BY <1>2, DeletionCloses
  <2>2. UNCHANGED invitations
    BY <2>1 DEF MarkDeleted
  <2>3. QED
    BY <1>1, <2>1, <2>2 DEF DeletionInOrder, At
<1>3. CASE workspaces[w] = "deleted"
  <2>1. CASE Stored(i)
    BY <1>1, <1>3, <2>1 DEF Stored, DeletedClosed, PlainSteps, At
  <2>2. CASE ~ Stored(i)
    BY <1>1, <1>3, <2>2, InvitationStep DEF DeletedClosed, Accepted, Closed, InvitationTo
  <2>3. QED
    BY <2>1, <2>2
<1>4. QED
  BY <1>2, <1>3

LEMMA DeletedClosedStep == AloneStep => DeletedClosed'
<1> SUFFICES ASSUME AloneStep
             PROVE  DeletedClosed'
  OBVIOUS
<1>1. \A w \in Workspaces : workspaces'[w] = "deleted" =>
         /\ \A u \in Users : memberships'[w][u].status = "active" =>
               ~ CanManageMembers(memberships'[w][u].role)
         /\ \A p \in Procs : requests'[p].workspace = w =>
               requests'[p].step \in PlainSteps
         /\ \A i \in Invitations : invitations'[i].status = "pending" =>
               invitations'[i].workspace # w
  BY DeletedMembersStep, DeletedRequestsStep, DeletedInvitationsStep
<1>2. QED
  BY <1>1 DEF DeletedClosed, IsActive

\* The invariant of the instances of MCWorkspaces.
MCInv == OwnershipInv /\ AloneHolds

LEMMA MCInvInit == MCInit => MCInv
<1> SUFFICES ASSUME Init
             PROVE  OwnershipInv /\ AloneInv
  BY DEF MCInit, MCInv, AloneHolds
<1>1. /\ \A p \in Procs : requests[p] = Idle
      /\ \A i \in Invitations : invitations[i] = NoInvitation
      /\ \A w \in Workspaces : workspaces[w] # "deleted"
  BY DEF Init
<1>2. Idle.step = "idle" /\ NoInvitation.status = "none"
  BY DEF Idle, NoInvitation
<1>3. OneAtATime /\ NewestPending /\ SettlesPending /\ DeletionInOrder /\ LegacyRoles
  BY <1>1, <1>2
  DEF OneAtATime, NewestPending, SettlesPending, DeletionInOrder, LegacyRoles, PendingFor
<1>4. DeletedClosed /\ ClaimsBacked
  BY <1>1, <1>2 DEF DeletedClosed, ClaimsBacked
<1>5. QED
  BY <1>3, <1>4, InitOwnership DEF AloneInv

LEMMA AloneInvStep == AloneStep => AloneInv'
  BY NewestPendingStep, SettlesPendingStep, LegacyRolesStep, DeletionInOrderStep,
     ClaimsBackedStep, DeletedClosedStep
  DEF AloneStep, AloneInv

LEMMA MCSteps ==
  ASSUME MCInv, [MCNext]_<<vars, alone>>
  PROVE  [Next]_vars /\ alone' = alone /\ (alone => AloneStep)
<1>1. [Next]_vars /\ alone' = alone
  BY DEF MCNext
<1>2. ASSUME alone
      PROVE  OneAtATime'
  <2>1. CASE MCNext
    BY <1>2, <2>1 DEF MCNext, MCStep
  <2>2. CASE UNCHANGED vars
    BY <1>2, <2>2 DEF vars, OneAtATime, MCInv, AloneHolds, AloneInv
  <2>3. QED
    BY <2>1, <2>2
<1>3. QED
  BY <1>1, <1>2 DEF AloneStep, MCInv, AloneHolds

LEMMA MCInvStep == MCInv /\ [MCNext]_<<vars, alone>> => MCInv'
  BY MCSteps, AloneInvStep, NextOwnership DEF MCInv, AloneHolds

\* The inductive invariant holds when one request is served at a time.
THEOREM AloneInvariant == MCSpec => []MCInv
  BY MCInvInit, MCInvStep, PTL DEF MCSpec

\* With one request at a time, an address has at most one pending invitation
\* to a workspace: createInvitation revokes the others before it stores one.
THEOREM OnePending == MCSpec => []OnePendingAlone
<1>1. MCInv => OnePendingAlone
  <2> SUFFICES ASSUME NewestPending, NEW e \in Emails, NEW w \in Workspaces
               PROVE  Cardinality(PendingFor(e, w)) <= 1
    BY DEF MCInv, AloneHolds, AloneInv, OnePendingAlone, OnePendingPerAddress
  <2>1. CASE PendingFor(e, w) = {}
    BY <2>1, FS_EmptySet
  <2>2. CASE PendingFor(e, w) # {}
    <3>1. PICK i \in PendingFor(e, w) : TRUE
      BY <2>2
    <3>2. \A j \in PendingFor(e, w) : j = i
      BY <3>1 DEF NewestPending, PendingFor
    <3>3. PendingFor(e, w) = {i}
      BY <3>1, <3>2
    <3>4. QED
      BY <3>3, FS_Singleton
  <2>3. QED
    BY <2>1, <2>2
<1>2. QED
  BY <1>1, AloneInvariant, PTL

\* With one request at a time, nobody manages a deleted workspace: deletion
\* suspends its members and revokes its invitations, and whoever joins later
\* joins as a plain member.
THEOREM NoManager == MCSpec => []NoManagerAlone
<1>1. MCInv => NoManagerAlone
  BY DEF MCInv, AloneHolds, AloneInv, NoManagerAlone, NoManagerOfDeleted, DeletedClosed
<1>2. QED
  BY <1>1, AloneInvariant, PTL

\* With one request at a time, an invitation that was accepted, revoked or
\* expired never changes its status again.
THEOREM SettledOnce == MCSpec => SettledOnceAlone
<1>1. MCInv /\ [MCNext]_<<vars, alone>> =>
         [alone => \A i \in Invitations :
             invitations[i].status \in {"accepted", "revoked", "expired"} =>
                invitations'[i].status = invitations[i].status]_vars
  <2> SUFFICES ASSUME MCInv, AloneStep, NEW i \in Invitations,
                      invitations[i].status \in {"accepted", "revoked", "expired"}
               PROVE  invitations'[i].status = invitations[i].status
    BY MCSteps
  <2>1. Shape /\ [Next]_vars /\ SettlesPending
    BY DEF AloneStep, AloneInv, OwnershipInv
  <2>2. ~ Stored(i) /\ ~ Accepted(i) /\ ~ Closed(i)
    BY <2>1 DEF Stored, Accepted, Closed, SettlesPending, At
  <2>3. QED
    BY <2>1, <2>2, InvitationStep
<1>2. QED
  BY <1>1, AloneInvariant, PTL DEF MCSpec, SettledOnceAlone

-----------------------------------------------------------------------------
(* Why an owner stays the owner, with any number of requests in flight.     *)

\* How a request comes to be about w.
LEMMA Entrances ==
  ASSUME Shape, NEW p \in Procs, Enters(p), NEW s, s = requests'[p],
         NEW w \in Workspaces, s.workspace = w
  PROVE  \/ /\ s.step \in LaterSteps /\ Follows(requests[p].step, s.step)
            /\ requests[p].workspace = w
         \/ /\ s.step = "owner_upsert" /\ At(p, "oauth_point")
            /\ requests[p].workspace = w
         \/ /\ s.step = "link" /\ requests[p].step \in {"owner_upsert", "accept_save"}
            /\ requests[p].workspace = w
         \/ s.step \in {"oauth_point", "owner_upsert"} /\ CreateCompany(p, w)
         \/ /\ s.step = "accept_upsert" /\ s.inv \in Invitations
            /\ invitations[s.inv].workspace = w
         \/ /\ s.step = "legacy_create" /\ s.user \in Users
            /\ users[s.user].company = w
         \/ \E u \in Users :
               /\ IsActive(u, w)
               /\ \/ s.step \in {"link", "add_create"}
                  \/ CanManageMembers(memberships[w][u].role)
                  \/ RoleCanPerform(memberships[w][u].role, "delete")
<1> DEFINE Member == \E u \in Users :
                        /\ IsActive(u, w)
                        /\ \/ s.step \in {"link", "add_create"}
                           \/ CanManageMembers(memberships[w][u].role)
                           \/ RoleCanPerform(memberships[w][u].role, "delete")
<1>1. s.step \in LaterSteps => Follows(requests[p].step, s.step) /\ requests[p].workspace = w
  BY Continues DEF SameReferences
<1>2. s.step \in {"role_find", "remove_find", "invite_check", "revoke_find",
                 "delete_suspend"} => Member
  BY ManagersBegin
<1>3. s.step \in {"add_create", "deluser_delete"} => Member
  BY OpeningFacts
<1>4. s.step = "link" => \/ Member
                         \/ /\ requests[p].step \in {"owner_upsert", "accept_save"}
                            /\ requests[p].workspace = w
  BY OpeningFacts DEF SameReferences
<1>5. s.step \notin {"company_create", "oauth_create", "expire_save"}
  BY EntryFacts, WorkspacesAssumption
<1>6. s.step = "oauth_point" => CreateCompany(p, w)
  BY EntryFacts
<1>7. s.step = "owner_upsert" => \/ CreateCompany(p, w)
                                 \/ At(p, "oauth_point") /\ requests[p].workspace = w
  BY EntryFacts DEF SameReferences
<1>8. s.step = "accept_upsert" => /\ s.inv \in Invitations
                                  /\ invitations[s.inv].workspace = w
  BY EntryFacts
<1>9. s.step = "legacy_create" => s.user \in Users /\ users[s.user].company = w
  BY EntryFacts
<1> HIDE DEF Member
<1>10. s.step \in LaterSteps \union
          {"role_find", "remove_find", "invite_check", "revoke_find", "delete_suspend",
           "add_create", "deluser_delete", "link", "oauth_point", "owner_upsert",
           "accept_upsert", "legacy_create"}
  BY <1>5 DEF Enters, LaterSteps
<1>11. QED
  BY <1>1, <1>2, <1>3, <1>4, <1>6, <1>7, <1>8, <1>9, <1>10 DEF Member

LEMMA AccountStays ==
  ASSUME Shape, [Next]_vars, NEW u \in Users, users[u].account # "absent"
  PROVE  /\ users'[u].account # "absent"
         /\ users'[u].system = users[u].system
         /\ users'[u].account = "live" => Live(u)
  BY AccountStep DEF Opened, Pointed, Removed, Live

LEMMA ActiveMember ==
  ASSUME NEW u \in Users, NEW w \in Workspaces, IsActive(u, w) \/ IsOwner(u, w)
  PROVE  HasMembership(u, w)
  BY DEF IsActive, IsOwner, HasMembership, NoMembership

\* The users, targets and invitations that requests hold.
LEMMA HeldReferences ==
  ASSUME Shape, NEW p \in Procs
  PROVE  LET r == requests[p] IN
         /\ r \in Request
         /\ r.step \in {"company_create", "oauth_create", "oauth_point", "owner_upsert",
                        "link", "legacy_create", "accept_upsert", "accept_save"}
               => r.user \in Users
         /\ r.step \in {"role_find", "role_save", "remove_find", "remove_save"}
               => r.target \in Users
         /\ r.step \notin {"idle", "company_create", "oauth_create", "expire_save"}
               => r.workspace \in Workspaces
  BY DEF Shape, ShapedRequest

LEMMA UnownedReferences ==
  ASSUME ReignInv, [Next]_vars, NEW w \in Workspaces, Unowned(w)
  PROVE  /\ \A i \in Invitations : invitations'[i].workspace # w
         /\ \A p \in Procs : requests'[p].workspace = w =>
               requests'[p].step \in {"idle", "oauth_point", "owner_upsert", "legacy_create",
                                     "add_create", "link"}
<1>1. /\ OwnershipInv /\ Shape /\ FreshUntouched
      /\ w # None
  BY WorkspacesAssumption DEF ReignInv, OwnershipInv
<1>2. ASSUME NEW i \in Invitations
      PROVE  invitations'[i].workspace # w
  <2>1. ~ Stored(i) \/ invitations'[i].workspace # w
    BY DEF Stored, Unowned, At
  <2>2. QED
    BY <1>1, <2>1, InvitationStep DEF Unowned, InvitationTo
<1>3. ASSUME NEW p \in Procs, requests'[p].workspace = w
      PROVE  requests'[p].step \in {"idle", "oauth_point", "owner_upsert", "legacy_create",
                                   "add_create", "link"}
  <2>1. CASE requests'[p] = requests[p]
    BY <1>3, <2>1 DEF Unowned
  <2>2. CASE requests'[p] # requests[p]
    <3>1. Enters(p)
      BY <1>1, <1>3, <2>2, StepEnters DEF Idle
    <3>2. ASSUME NEW u \in Users, IsActive(u, w)
          PROVE  /\ ~ CanManageMembers(memberships[w][u].role)
                 /\ ~ RoleCanPerform(memberships[w][u].role, "delete")
      <4>1. memberships[w][u].role = "member"
        BY <3>2, ActiveMember DEF Unowned
      <4>2. QED
        BY <4>1, RankFacts DEF Roles, RoleCanPerform
    <3>3. requests[p].workspace = w => ~ Follows(requests[p].step, requests'[p].step)
      BY DEF Unowned, Follows
    <3>4. QED
      BY <1>1, <1>3, <3>1, <3>2, <3>3, Entrances DEF Unowned
  <2>3. QED
    BY <2>1, <2>2
<1>4. QED
  BY <1>2, <1>3

LEMMA UnownedStep ==
  ASSUME ReignInv, [Next]_vars, NEW w \in Workspaces, Unowned(w)
  PROVE  Unowned(w)' \/ \E u \in Users : memberships'[w][u].role = "owner"
<1>1. Shape /\ LegacyRoleOfAccount
  BY DEF ReignInv, OwnershipInv
<1>2. ASSUME NEW u \in Users, memberships'[w][u] # NoMembership,
             memberships'[w][u].role # "owner"
      PROVE  memberships'[w][u].role = "member"
  <2>1. CASE memberships'[w][u] = memberships[w][u]
    BY <1>2, <2>1 DEF Unowned, HasMembership
  <2>2. CASE memberships'[w][u] # memberships[w][u]
    <3>1. PICK p \in Procs : Wrote(p, u, w)
      BY <1>1, <2>2, MembershipStep
    <3>2. requests[p].step \in {"idle", "oauth_point", "owner_upsert", "legacy_create",
                               "add_create", "link"}
      BY <3>1 DEF Wrote, Unowned
    <3>3. At(p, "legacy_create") /\ memberships'[w][u].role = requests[p].role
      BY <1>2, <3>1, <3>2 DEF Wrote, At
    <3>4. QED
      BY <1>1, <1>2, <3>3 DEF LegacyRoleOfAccount, At
  <2>3. QED
    BY <2>1, <2>2
<1>3. QED
  BY <1>2, UnownedReferences DEF Unowned, HasMembership

LEMMA ClaimsComeFirstStep ==
  ASSUME ReignInv, [Next]_vars
  PROVE  ClaimsComeFirst'
<1>1. /\ OwnershipInv /\ Shape /\ ClaimsComeFirst /\ UniqueClaim' /\ FreshUntouched
  BY NextOwnership DEF ReignInv, OwnershipInv
<1>2. SUFFICES ASSUME NEW w \in Workspaces, NEW u \in Users,
                      ClaimsOwnership(u, w)', ~ HasMembership(u, w)'
               PROVE  Unowned(w)'
  BY DEF ClaimsComeFirst
<1>3. Unowned(w)
  <2>1. CASE Kept
    BY <1>1, <1>2, <2>1, MembershipsStay DEF Kept, ClaimsComeFirst
  <2>2. ASSUME NEW p \in Procs, NEW c \in Workspaces, CreateCompany(p, c)
        PROVE  Unowned(w)
    <3>1. CASE c = w
      <4>1. workspaces[w] = "absent"
        BY <2>2, <3>1 DEF CreateCompany
      <4>2. QED
        BY <1>1, <4>1 DEF FreshUntouched, Unowned
    <3>2. CASE c # w
      BY <1>1, <1>2, <2>2, <3>2, CreationClaims, MembershipsStay DEF ClaimsComeFirst
    <3>3. QED
      BY <3>1, <3>2
  <2>3. QED
    BY <1>1, <2>1, <2>2, NextKeeps
<1>4. ASSUME NEW v \in Users, memberships'[w][v].role = "owner"
      PROVE  FALSE
  <2>1. ClaimsOwnership(v, w)'
    BY <1>4 DEF ClaimsOwnership, IsOwner
  <2>2. v = u
    BY <1>1, <1>2, <2>1 DEF UniqueClaim
  <2>3. QED
    BY <1>2, <1>4, <2>2 DEF HasMembership, NoMembership
<1>5. QED
  BY <1>3, <1>4, UnownedStep

\* Only the deletion of the workspace takes it from its active owner.
LEMMA ActiveOwnerStep ==
  ASSUME ReignInv, [Next]_vars, NEW u \in Users, NEW w \in Workspaces, ActiveOwner(u, w)
  PROVE  \/ ActiveOwner(u, w)'
         \/ \E p \in Procs : /\ At(p, "delete_suspend") /\ requests[p].workspace = w
                            /\ \A v \in Users : memberships'[w][v].status # "active"
<1>1. Shape /\ OwnersUnthreatened /\ HasMembership(u, w)
  BY ActiveMember DEF ReignInv, OwnershipInv, ActiveOwner
<1>2. CASE memberships'[w][u] = memberships[w][u]
  BY <1>2 DEF ActiveOwner, IsActive, IsOwner
<1>3. CASE memberships'[w][u] # memberships[w][u]
  <2>1. PICK p \in Procs : Wrote(p, u, w)
    BY <1>1, <1>3, MembershipStep
  <2>2. /\ At(p, "role_save") \/ At(p, "remove_save") => requests[p].target # u
        /\ At(p, "accept_upsert") => requests[p].user # u
        /\ requests[p].workspace = w
    BY <1>1, <2>1 DEF OwnersUnthreatened, Wrote, At
  <2>3. QED
    BY <1>1, <2>1, <2>2 DEF Wrote, ActiveOwner, IsActive, IsOwner
<1>4. QED
  BY <1>2, <1>3

LEMMA PresentRequests ==
  ASSUME Shape, EverybodyPresent, [Next]_vars, NEW p \in Procs, NEW s, s = requests'[p],
         NEW u \in Users, s.user = u
  PROVE  users'[u].account # "absent"
<1>1. /\ requests[p].user = u => users[u].account # "absent"
      /\ Live(u) => users[u].account # "absent"
      /\ u # None
  BY WorkspacesAssumption DEF EverybodyPresent, Live
<1>2. users[u].account # "absent" => users'[u].account # "absent"
  BY AccountStays
<1>3. CASE s = requests[p]
  BY <1>1, <1>2, <1>3
<1>4. CASE s # requests[p]
  <2>1. Enters(p)
    BY <1>1, <1>4, StepEnters DEF Idle
  <2>2. s.step \notin {"role_find", "remove_find", "invite_check", "revoke_find",
                      "delete_suspend", "add_create", "deluser_delete", "expire_save"}
    BY <1>1, <2>1, ManagersBegin, OpeningFacts, EntryFacts
  <2>3. CASE s.step \in LaterSteps
    BY <1>1, <1>2, <2>1, <2>3, Continues DEF SameReferences
  <2>4. CASE s.step \in {"company_create", "oauth_create"}
    BY <2>1, <2>4, OpeningFacts
  <2>5. CASE s.step \in {"oauth_point", "owner_upsert", "legacy_create", "accept_upsert"}
    BY <1>1, <1>2, <2>1, <2>5, EntryFacts DEF SameReferences, Authenticated
  <2>6. CASE s.step = "link"
    BY <1>1, <1>2, <2>1, <2>6, OpeningFacts DEF SameReferences, Authenticated
  <2>7. QED
    BY <2>1, <2>2, <2>3, <2>4, <2>5, <2>6 DEF Enters, LaterSteps
<1>5. QED
  BY <1>3, <1>4

LEMMA TargetsStay ==
  ASSUME OwnershipInv, EverybodyPresent, [Next]_vars, NEW p \in Procs,
         NEW s, s = requests'[p], s.step \in {"role_save", "remove_save"},
         NEW u \in Users, NEW w \in Workspaces, s.target = u, s.workspace = w
  PROVE  HasMembership(u, w)'
<1>1. Shape
  BY DEF OwnershipInv
<1>2. CASE s = requests[p]
  BY <1>2, MembershipsStay DEF EverybodyPresent
<1>3. CASE s # requests[p]
  <2>1. Enters(p)
    BY <1>1, <1>3, StepEnters DEF Idle
  <2>2. requests[p].target = u /\ requests[p].workspace = w
    BY <1>1, <2>1, Continues DEF LaterSteps, SameReferences
  <2>3. requests'[p] # Idle
    <3>1. s.step # Idle.step
      BY DEF Idle
    <3>2. QED
      BY <3>1
  <2>4. Manageable(u, w)
    BY <1>1, <2>1, <2>2, <2>3
    DEF Enters, FindRoleTarget, FindRemoveTarget, Refuse, Finish, Shape
  <2>5. QED
    BY <2>4, ActiveMember, MembershipsStay DEF Manageable
<1>4. QED
  BY <1>2, <1>3

LEMMA EverybodyPresentStep ==
  ASSUME ReignInv, [Next]_vars
  PROVE  EverybodyPresent'
<1>1. /\ OwnershipInv /\ Shape /\ EverybodyPresent
      /\ requests' \in [Procs -> ShapedRequest]
  BY NextOwnership DEF ReignInv, OwnershipInv, Shape
<1>2. ASSUME NEW w \in Workspaces, NEW u \in Users, memberships'[w][u] # NoMembership
      PROVE  users'[u].account # "absent"
  <2>1. users[u].account # "absent"
    <3>1. CASE HasMembership(u, w)
      BY <1>1, <3>1 DEF EverybodyPresent
    <3>2. CASE ~ HasMembership(u, w)
      <4>1. PICK p \in Procs : Wrote(p, u, w)
        BY <1>1, <1>2, <3>2, MembershipStep DEF HasMembership
      <4>2. requests[p].user = u /\ u # None
        BY <1>1, <3>2, <4>1, WorkspacesAssumption DEF Wrote, EverybodyPresent, At
      <4>3. QED
        BY <1>1, <4>2 DEF EverybodyPresent
    <3>3. QED
      BY <3>1, <3>2
  <2>2. QED
    BY <1>1, <2>1, AccountStays
<1>3. ASSUME NEW p \in Procs, NEW s, s = requests'[p], s.step \in {"role_save", "remove_save"}
      PROVE  memberships'[s.workspace][s.target] # NoMembership
  <2>1. s.target \in Users /\ s.workspace \in Workspaces
    BY <1>1, <1>3 DEF ShapedRequest
  <2>2. \A u \in Users, w \in Workspaces :
           s.target = u /\ s.workspace = w => memberships'[w][u] # NoMembership
    BY <1>1, <1>3, TargetsStay DEF HasMembership
  <2>3. QED
    BY <2>1, <2>2
<1>4. ASSUME NEW p \in Procs, NEW s, s = requests'[p], s.user # None
      PROVE  users'[s.user].account # "absent"
  <2>1. s.user \in Users
    BY <1>1, <1>4 DEF ShapedRequest, Request
  <2>2. QED
    BY <1>1, <1>4, <2>1, PresentRequests
<1>5. QED
  BY <1>2, <1>3, <1>4 DEF EverybodyPresent, HasMembership

LEMMA StepsOfferedStep ==
  ASSUME ReignInv, [Next]_vars
  PROVE  StepsOffered'
<1>1. Shape /\ StepsOffered
  BY DEF ReignInv, OwnershipInv
<1> SUFFICES ASSUME NEW p \in Procs, NEW s, s = requests'[p]
             PROVE  /\ s.step \in {"oauth_create", "oauth_point"} => "oauth" \in Operations
                    /\ s.step \in {"delete_suspend", "delete_revoke", "delete_mark"}
                          => "deleteWorkspace" \in Operations
  BY DEF StepsOffered
<1>3. CASE s = requests[p]
  BY <1>1, <1>3 DEF StepsOffered
<1>4. CASE s # requests[p]
  <2>1. CASE s = Idle
    BY <2>1 DEF Idle
  <2>2. CASE s # Idle
    <3>1. Enters(p)
      BY <1>1, <1>4, <2>2, StepEnters
    <3>2. s.step \in {"oauth_create", "oauth_point"} => "oauth" \in Operations
      BY <1>1, <3>1, OpeningFacts, EntryFacts DEF StepsOffered, At
    <3>3. s.step \in {"delete_suspend", "delete_revoke", "delete_mark"}
             => "deleteWorkspace" \in Operations
      <4>1. s.step \in {"delete_revoke", "delete_mark"}
               => Follows(requests[p].step, s.step)
        BY <1>1, <3>1, Continues DEF LaterSteps
      <4>2. QED
        BY <1>1, <3>1, <4>1, OpeningFacts DEF Follows, StepsOffered
    <3>4. QED
      BY <3>2, <3>3
  <2>3. QED
    BY <2>1, <2>2
<1>5. QED
  BY <1>3, <1>4

LEMMA LegacyRoleStep ==
  ASSUME ReignInv, [Next]_vars
  PROVE  LegacyRoleOfAccount'
<1>1. /\ Shape /\ LegacyRoleOfAccount /\ EverybodyPresent
  BY DEF ReignInv, OwnershipInv
<1> SUFFICES ASSUME NEW p \in Procs, NEW s, s = requests'[p], s.step = "legacy_create"
             PROVE  s.role = IF users'[s.user].system THEN "owner" ELSE "member"
  BY DEF LegacyRoleOfAccount
<1>3. ASSUME NEW u \in Users, s.user = u, users[u].account # "absent",
             s.role = IF users[u].system THEN "owner" ELSE "member"
      PROVE  s.role = IF users'[s.user].system THEN "owner" ELSE "member"
  BY <1>1, <1>3, AccountStays
<1>4. CASE s = requests[p]
  <2>1. s.user \in Users /\ s.user # None
    BY <1>1, <1>4, HeldReferences, WorkspacesAssumption
  <2>2. users[s.user].account # "absent"
    BY <1>1, <1>4, <2>1 DEF EverybodyPresent
  <2>3. QED
    BY <1>1, <1>3, <1>4, <2>1, <2>2 DEF LegacyRoleOfAccount
<1>5. CASE s # requests[p]
  <2>1. Enters(p)
    BY <1>1, <1>5, StepEnters DEF Idle
  <2>2. QED
    BY <1>1, <1>3, <2>1, EntryFacts DEF Live
<1>6. QED
  BY <1>4, <1>5

\* While its founder waits, nobody else learns of the new company.
LEMMA FoundingStays ==
  ASSUME ReignInv, [Next]_vars, NEW p \in Procs, Founding(p), requests'[p] = requests[p],
         NEW w \in Workspaces, requests[p].workspace = w,
         requests[p].step \in {"oauth_point", "owner_upsert"}
  PROVE  Founding(p)'
<1>1. Shape /\ FreshUntouched /\ w # None
  BY WorkspacesAssumption DEF ReignInv, OwnershipInv
<1>2. ASSUME NEW q \in Procs, requests[q].workspace = w
      PROVE  requests'[q] = requests[q] /\ requests[q].step \in {"oauth_point", "owner_upsert"}
  BY <1>2 DEF Founding
<1>3. ASSUME NEW u \in Users
      PROVE  memberships'[w][u] = NoMembership
  <2>1. \A q \in Procs : ~ Wrote(q, u, w)
    BY <1>2 DEF Wrote
  <2>2. QED
    BY <1>1, <2>1, MembershipStep DEF Founding, HasMembership
<1>4. ASSUME NEW u \in Users
      PROVE  users'[u].company # w
  BY <1>1, <1>2, AccountStep DEF Founding, Opened, Pointed, Removed, At
<1>5. ASSUME NEW i \in Invitations
      PROVE  invitations'[i].workspace # w
  <2>1. ~ Stored(i) \/ invitations'[i].workspace # w
    BY <1>2 DEF Stored, At
  <2>2. QED
    BY <1>1, <2>1, InvitationStep DEF Founding, InvitationTo
<1>6. ASSUME NEW q \in Procs, requests'[q].workspace = w, q # p
      PROVE  FALSE
  <2>1. requests[q].workspace # w
    BY <1>6 DEF Founding
  <2>2. Enters(q)
    BY <1>1, <1>6, <2>1, StepEnters DEF Idle
  <2>3. ~ CreateCompany(q, w)
    BY <1>1 DEF CreateCompany, FreshUntouched
  <2>4. \A u \in Users : ~ IsActive(u, w)
    BY ActiveMember DEF Founding
  <2>5. QED
    BY <1>1, <1>6, <2>1, <2>2, <2>3, <2>4, Entrances DEF Founding
<1>7. QED
  BY <1>3, <1>4, <1>5, <1>6 DEF Founding, HasMembership

\* Nobody knows a company that is being created.
LEMMA CreationFounds ==
  ASSUME ReignInv, NEW p \in Procs, NEW w \in Workspaces, CreateCompany(p, w),
         requests'[p].workspace = w
  PROVE  Founding(p)'
<1>1. /\ \A u \in Users : ~ HasMembership(u, w) /\ users[u].company # w
      /\ \A i \in Invitations : invitations[i].workspace # w
      /\ \A q \in Procs : requests[q].workspace # w
  BY DEF ReignInv, OwnershipInv, FreshUntouched, CreateCompany
<1>2. /\ UNCHANGED <<users, memberships, invitations>>
      /\ \A q \in Procs \ {p} : requests'[q] = requests[q]
  BY DEF CreateCompany, ReignInv, OwnershipInv, Shape
<1>3. QED
  BY <1>1, <1>2 DEF Founding, HasMembership

\* An account that claims an unowned workspace becomes its active owner.
LEMMA FirstMembership ==
  ASSUME ReignInv, [Next]_vars, NEW w \in Workspaces, Unowned(w), NEW u \in Users,
         users[u].system, ~ HasMembership(u, w), HasMembership(u, w)'
  PROVE  ActiveOwner(u, w)'
<1>1. Shape /\ LegacyRoleOfAccount
  BY DEF ReignInv, OwnershipInv
<1>2. PICK p \in Procs : Wrote(p, u, w)
  BY <1>1, MembershipStep DEF HasMembership
<1>3. requests[p].step \in {"owner_upsert", "legacy_create"}
  BY <1>2 DEF Wrote, Unowned, At
<1>4. At(p, "legacy_create") /\ requests[p].user = u => requests[p].role = "owner"
  BY <1>1 DEF LegacyRoleOfAccount, At
<1>5. QED
  BY <1>2, <1>3, <1>4 DEF Wrote, At, ActiveOwner, IsActive, IsOwner

LEMMA FoundersComeFirstStep ==
  ASSUME NoLateFounder, ReignInv, [Next]_vars
  PROVE  FoundersComeFirst'
<1> DEFINE Rewrites(p, u, w) ==
             /\ requests'[p].step = "owner_upsert" /\ "deleteWorkspace" \notin Operations
             /\ users'[u].system
             /\ HasMembership(u, w)' => ActiveOwner(u, w)'
<1>1. /\ OwnershipInv /\ Shape /\ FoundersComeFirst /\ ClaimsComeFirst /\ EverybodyPresent
      /\ StepsOffered /\ requests' \in [Procs -> ShapedRequest]
  BY NextOwnership DEF ReignInv, OwnershipInv, Shape
<1>2. ASSUME NEW p \in Procs, NEW s, s = requests'[p],
             s.step \in {"oauth_create", "oauth_point"}
      PROVE  users'[s.user].system
  <2>1. CASE s = requests[p]
    <3>1. s.user \in Users /\ s.user # None
      BY <1>1, <1>2, <2>1, HeldReferences, WorkspacesAssumption
    <3>2. users[s.user].account # "absent" /\ users[s.user].system
      BY <1>1, <1>2, <2>1, <3>1 DEF EverybodyPresent, FoundersComeFirst
    <3>3. QED
      BY <1>1, <3>1, <3>2, AccountStays
  <2>2. CASE s # requests[p]
    <3>1. Enters(p)
      BY <1>1, <1>2, <2>2, StepEnters DEF Idle
    <3>2. CASE s.step = "oauth_create"
      BY <1>1, <1>2, <3>1, <3>2, OpeningFacts
    <3>3. CASE s.step = "oauth_point"
      <4>1. s.user = requests[p].user /\ At(p, "oauth_create")
        BY <1>1, <1>2, <3>1, <3>3, EntryFacts
      <4>2. s.user \in Users /\ s.user # None
        BY <1>1, <4>1, HeldReferences, WorkspacesAssumption DEF At
      <4>3. users[s.user].account # "absent" /\ users[s.user].system
        BY <1>1, <4>1, <4>2 DEF EverybodyPresent, FoundersComeFirst, At
      <4>4. QED
        BY <1>1, <4>2, <4>3, AccountStays
    <3>4. QED
      BY <1>2, <3>2, <3>3
  <2>3. QED
    BY <2>1, <2>2
<1>3. ASSUME NEW p \in Procs, requests'[p] = requests[p],
             requests[p].step \in {"oauth_point", "owner_upsert"}
      PROVE  \/ Founding(p)'
             \/ \E u \in Users, w \in Workspaces :
                   /\ requests'[p].user = u /\ requests'[p].workspace = w
                   /\ Rewrites(p, u, w)
  <2>1. PICK u \in Users, w \in Workspaces :
           requests[p].user = u /\ requests[p].workspace = w
    BY <1>1, <1>3, HeldReferences
  <2>2. CASE Founding(p)
    BY <1>3, <2>1, <2>2, FoundingStays
  <2>3. CASE ~ Founding(p)
    <3>1. /\ At(p, "owner_upsert") /\ "deleteWorkspace" \notin Operations
          /\ users[u].system
          /\ HasMembership(u, w) => ActiveOwner(u, w)
      BY <1>1, <1>3, <2>1, <2>3 DEF FoundersComeFirst, At
    <3>2. users'[u].system
      <4>1. users[u].account # "absent"
        BY <1>1, <2>1, WorkspacesAssumption DEF EverybodyPresent
      <4>2. QED
        BY <1>1, <3>1, <4>1, AccountStays
    <3>3. ASSUME HasMembership(u, w)'
          PROVE  ActiveOwner(u, w)'
      <4>1. CASE HasMembership(u, w)
        <5>1. \A q \in Procs : ~ At(q, "delete_suspend")
          BY <1>1, <3>1 DEF StepsOffered, At
        <5>2. QED
          BY <3>1, <4>1, <5>1, ActiveOwnerStep
      <4>2. CASE ~ HasMembership(u, w)
        <5>1. Unowned(w)
          BY <1>1, <2>1, <3>1, <4>2 DEF ClaimsComeFirst, ClaimsOwnership
        <5>2. QED
          BY <3>1, <3>3, <4>2, <5>1, FirstMembership
      <4>3. QED
        BY <4>1, <4>2
    <3>4. QED
      BY <1>3, <2>1, <3>1, <3>2, <3>3 DEF At
  <2>4. QED
    BY <2>2, <2>3
<1>4. ASSUME NEW p \in Procs, requests'[p] # requests[p],
             requests'[p].step \in {"oauth_point", "owner_upsert"}
      PROVE  \/ Founding(p)'
             \/ \E u \in Users, w \in Workspaces :
                   /\ requests'[p].user = u /\ requests'[p].workspace = w
                   /\ Rewrites(p, u, w)
  <2>1. Enters(p)
    BY <1>1, <1>4, StepEnters DEF Idle
  <2>2. CASE \E w \in Workspaces : CreateCompany(p, w) /\ requests'[p].workspace = w
    BY <2>2, CreationFounds
  <2>3. CASE /\ requests'[p].step = "owner_upsert"
             /\ At(p, "oauth_point") /\ PointAtCompany(p)
             /\ SameReferences(requests[p], requests'[p])
    <3>1. PICK u \in Users, w \in Workspaces :
             requests[p].user = u /\ requests[p].workspace = w
      BY <1>1, <2>3, HeldReferences DEF At
    <3>2. Founding(p) /\ users[u].system
      BY <1>1, <2>3, <3>1 DEF FoundersComeFirst, At
    <3>3. "deleteWorkspace" \notin Operations
      BY <1>1, <2>3 DEF StepsOffered, NoLateFounder, At
    <3>4. users'[u].system
      <4>1. users[u].account # "absent"
        BY <1>1, <3>1, WorkspacesAssumption DEF EverybodyPresent
      <4>2. QED
        BY <1>1, <3>2, <4>1, AccountStays
    <3>5. ~ HasMembership(u, w)'
      <4>1. UNCHANGED memberships
        BY <2>3 DEF PointAtCompany, Refuse
      <4>2. QED
        BY <3>1, <3>2, <4>1 DEF Founding, HasMembership
    <3>6. QED
      BY <2>3, <3>1, <3>3, <3>4, <3>5 DEF SameReferences
  <2>4. QED
    BY <1>1, <1>4, <2>1, <2>2, <2>3, EntryFacts
<1>5. QED
  <2>1. ASSUME NEW p \in Procs, NEW s, s = requests'[p],
               s.step \in {"oauth_point", "owner_upsert"}
        PROVE  \/ Founding(p)'
               \/ /\ s.step = "owner_upsert" /\ "deleteWorkspace" \notin Operations
                  /\ users'[s.user].system
                  /\ memberships'[s.workspace][s.user] # NoMembership =>
                       /\ memberships'[s.workspace][s.user].status = "active"
                       /\ memberships'[s.workspace][s.user].role = "owner"
    BY <1>3, <1>4, <2>1 DEF ActiveOwner, IsActive, IsOwner, HasMembership
  <2>2. QED
    BY <1>2, <2>1 DEF FoundersComeFirst, ActiveOwner, IsActive, IsOwner, HasMembership

\* Only the first to manage a workspace becomes its active owner.
LEMMA NewOwnerIsFirst ==
  ASSUME ReignInv, [Next]_vars, NEW w \in Workspaces, NEW u \in Users,
         ~ ActiveOwner(u, w), ActiveOwner(u, w)'
  PROVE  Unowned(w)
<1>1. Shape /\ FoundersComeFirst /\ ClaimsComeFirst
  BY DEF ReignInv, OwnershipInv
<1>2. /\ memberships'[w][u].role = "owner" /\ memberships'[w][u].status = "active"
      /\ memberships'[w][u] # memberships[w][u]
  BY DEF ActiveOwner, IsActive, IsOwner
<1>3. PICK p \in Procs : Wrote(p, u, w)
  BY <1>1, <1>2, MembershipStep
<1>4. requests[p].step \in {"role_save", "accept_upsert"} => requests[p].role # "owner"
  BY <1>1 DEF Shape, ShapedRequest, GrantedRoles
<1>5. CASE At(p, "role_save")
  <2>1. requests[p].role # "owner"
    BY <1>1, <1>5 DEF At, Shape, ShapedRequest, GrantedRoles
  <2>2. QED
    BY <1>2, <1>3, <1>5, <2>1 DEF Wrote, At
<1>6. CASE At(p, "accept_upsert")
  BY <1>2, <1>3, <1>4, <1>6 DEF Wrote, At
<1>7. CASE At(p, "owner_upsert") /\ requests[p].user = u /\ requests[p].workspace = w
  <2>1. ~ HasMembership(u, w)
    BY <1>1, <1>7 DEF FoundersComeFirst, Founding, At
  <2>2. QED
    BY <1>1, <1>7, <2>1 DEF ClaimsComeFirst, ClaimsOwnership
<1>8. CASE /\ At(p, "legacy_create") /\ requests[p].user = u /\ requests[p].workspace = w
           /\ ~ HasMembership(u, w) /\ requests[p].role = "owner"
  BY <1>1, <1>8 DEF ClaimsComeFirst, ClaimsOwnership
<1>9. QED
  BY <1>2, <1>3, <1>5, <1>6, <1>7, <1>8 DEF Wrote

\* What a request in flight does not threaten.
Threatens(p, u, w) ==
  LET r == requests[p] IN
  /\ r.workspace = w
  /\ \/ r.step \in {"role_save", "remove_save"} /\ r.target = u
     \/ r.step = "accept_upsert" /\ r.user = u
     \/ r.step \in {"invite_revoke", "invite_create"} /\ r.email = EmailOf[u] /\ Live(u)

LEMMA ReigningUnthreatened ==
  ASSUME ReignInv, [Next]_vars, NEW w \in Workspaces, NEW u \in Users, ActiveOwner(u, w)
  PROVE  /\ \A p \in Procs : ~ Threatens(p, u, w)'
         /\ \A i \in Invitations :
               /\ invitations'[i].status = "pending" /\ invitations'[i].email = EmailOf[u]
               /\ invitations'[i].workspace = w
               => users'[u].account # "live"
<1>1. /\ Shape /\ OwnersUnthreatened /\ HasMembership(u, w) /\ EverybodyPresent
      /\ users[u].account # "absent"
  BY ActiveMember DEF ReignInv, OwnershipInv, ActiveOwner, EverybodyPresent
<1>2. users'[u].account = "live" => Live(u)
  BY <1>1, AccountStays
<1>3. \A p \in Procs : ~ Threatens(p, u, w)
  BY <1>1 DEF OwnersUnthreatened, Threatens
<1>4. \A i \in Invitations :
         /\ invitations[i].status = "pending" /\ invitations[i].email = EmailOf[u]
         /\ invitations[i].workspace = w
         => ~ Live(u)
  BY <1>1 DEF OwnersUnthreatened, PendingFor
<1>5. ASSUME NEW p \in Procs, NEW s, s = requests'[p], s.workspace = w
      PROVE  /\ s.step \in {"role_save", "remove_save"} => s.target # u
             /\ s.step = "accept_upsert" => s.user # u
             /\ s.step \in {"invite_revoke", "invite_create"} /\ s.email = EmailOf[u]
                   => users'[u].account # "live"
  <2>1. CASE s = requests[p]
    BY <1>2, <1>3, <1>5, <2>1 DEF Threatens
  <2>2. ASSUME s # requests[p], s.step \in {"role_save", "remove_save"}
        PROVE  s.target # u
    <3>1. Enters(p)
      BY <1>1, <1>5, <2>2, StepEnters DEF Idle
    <3>2. SameReferences(requests[p], s) /\ requests[p].workspace = w
      BY <1>1, <1>5, <2>2, <3>1, Continues DEF LaterSteps, SameReferences
    <3>3. requests'[p] # Idle
      <4>1. s.step # Idle.step
        BY <2>2 DEF Idle
      <4>2. QED
        BY <1>5, <4>1
    <3>4. Manageable(requests[p].target, w)
      BY <1>1, <1>5, <2>2, <3>1, <3>2, <3>3
      DEF Enters, FindRoleTarget, FindRemoveTarget, Refuse, Finish, Shape
    <3>5. QED
      BY <3>2, <3>4 DEF SameReferences, Manageable, ActiveOwner
  <2>3. ASSUME s # requests[p], s.step = "accept_upsert"
        PROVE  s.user # u
    <3>1. Enters(p)
      BY <1>1, <1>5, <2>3, StepEnters DEF Idle
    <3>2. QED
      BY <1>1, <1>4, <1>5, <2>3, <3>1, EntryFacts DEF Authenticated
  <2>4. ASSUME s # requests[p], s.step \in {"invite_revoke", "invite_create"},
               s.email = EmailOf[u]
        PROVE  users'[u].account # "live"
    <3>1. Enters(p)
      BY <1>1, <1>5, <2>4, StepEnters DEF Idle
    <3>2. /\ SameReferences(requests[p], s)
          /\ requests[p].workspace = w /\ requests[p].email = EmailOf[u]
      BY <1>1, <1>5, <2>4, <3>1, Continues DEF LaterSteps, SameReferences
    <3>3. CASE s.step = "invite_create"
      <4>1. requests[p].step = "invite_revoke"
        BY <1>1, <1>5, <3>1, <3>3, Continues DEF LaterSteps, Follows
      <4>2. QED
        BY <1>2, <1>3, <3>2, <4>1 DEF Threatens
    <3>4. CASE s.step = "invite_revoke"
      <4>1. requests'[p] # Idle
        <5>1. s.step # Idle.step
          BY <2>4 DEF Idle
        <5>2. QED
          BY <1>5, <5>1
      <4>2. CheckExistingMember(p)
        BY <1>5, <3>1, <3>4 DEF Enters
      <4>3. ~ Live(u)
        BY <1>1, <3>2, <4>1, <4>2
        DEF CheckExistingMember, Refuse, Finish, Shape, ActiveOwner, IsActive
      <4>4. QED
        BY <1>2, <4>3
    <3>5. QED
      BY <2>4, <3>3, <3>4
  <2>5. QED
    BY <2>1, <2>2, <2>3, <2>4
<1>6. ASSUME NEW i \in Invitations, invitations'[i].status = "pending",
             invitations'[i].email = EmailOf[u], invitations'[i].workspace = w
      PROVE  users'[u].account # "live"
  <2>1. CASE Stored(i)
    <3>1. PICK p \in Procs : /\ At(p, "invite_create") /\ requests[p].workspace = w
                             /\ requests[p].email = EmailOf[u]
      BY <1>6, <2>1 DEF Stored
    <3>2. QED
      BY <1>2, <1>3, <3>1 DEF Threatens, At
  <2>2. CASE ~ Stored(i)
    <3>1. /\ invitations[i].status = "pending" /\ invitations[i].email = EmailOf[u]
          /\ invitations[i].workspace = w
      BY <1>1, <1>6, <2>2, InvitationStep DEF Accepted, Closed, InvitationTo
    <3>2. QED
      BY <1>2, <1>4, <3>1
  <2>3. QED
    BY <2>1, <2>2
<1>7. QED
  BY <1>5, <1>6 DEF Threatens, Live

LEMMA OwnersUnthreatenedStep ==
  ASSUME ReignInv, [Next]_vars
  PROVE  OwnersUnthreatened'
<1>1. ASSUME NEW w \in Workspaces, NEW u \in Users, ActiveOwner(u, w)'
      PROVE  /\ \A p \in Procs : ~ Threatens(p, u, w)'
             /\ \A i \in Invitations :
                   /\ invitations'[i].status = "pending" /\ invitations'[i].email = EmailOf[u]
                   /\ invitations'[i].workspace = w
                   => users'[u].account # "live"
  <2>1. CASE ActiveOwner(u, w)
    BY <2>1, ReigningUnthreatened
  <2>2. CASE ~ ActiveOwner(u, w)
    <3>1. Unowned(w)
      BY <1>1, <2>2, NewOwnerIsFirst
    <3>2. QED
      BY <3>1, UnownedReferences DEF Threatens
  <2>3. QED
    BY <2>1, <2>2
<1>2. QED
  BY <1>1 DEF OwnersUnthreatened, Threatens, PendingFor, Live

LEMMA InitReign == Init => ReignInv
<1> SUFFICES ASSUME Init
             PROVE  ReignInv
  OBVIOUS
<1>1. /\ \A p \in Procs : requests[p] = Idle
      /\ \A i \in Invitations : invitations[i] = NoInvitation
      /\ \A w \in Workspaces, u \in Users : memberships[w][u] = NoMembership
  BY DEF Init
<1>2. /\ \A p \in Procs : /\ requests[p].step = "idle" /\ requests[p].user = None
                          /\ requests[p].workspace = None
      /\ \A i \in Invitations : /\ invitations[i].status = "none"
                                /\ invitations[i].workspace = None
      /\ \A w \in Workspaces, u \in Users :
            ~ HasMembership(u, w) /\ ~ IsActive(u, w) /\ ~ IsOwner(u, w)
  BY <1>1 DEF Idle, NoInvitation, NoMembership, HasMembership, IsActive, IsOwner
<1>3. \A w \in Workspaces : Unowned(w)
  BY <1>2, WorkspacesAssumption DEF Unowned
<1>4. ClaimsComeFirst
  BY <1>3 DEF ClaimsComeFirst
<1>5. OwnersUnthreatened /\ EverybodyPresent
  BY <1>2 DEF OwnersUnthreatened, ActiveOwner, EverybodyPresent
<1>6. AddresseesMatch /\ FoundersComeFirst /\ LegacyRoleOfAccount /\ StepsOffered
  BY <1>2 DEF AddresseesMatch, FoundersComeFirst, LegacyRoleOfAccount, StepsOffered
<1>7. QED
  BY <1>4, <1>5, <1>6, InitOwnership DEF ReignInv

LEMMA ReignStep ==
  ASSUME NoLateFounder, ReignInv, [Next]_vars
  PROVE  ReignInv'
<1>1. OwnershipInv /\ Shape /\ AddresseesMatch
  BY DEF ReignInv, OwnershipInv
<1>2. OwnershipInv' /\ AddresseesMatch'
  BY <1>1, NextOwnership, AddresseesStep
<1>3. ClaimsComeFirst' /\ FoundersComeFirst' /\ OwnersUnthreatened'
  BY ClaimsComeFirstStep, FoundersComeFirstStep, OwnersUnthreatenedStep
<1>4. LegacyRoleOfAccount' /\ EverybodyPresent' /\ StepsOffered'
  BY LegacyRoleStep, EverybodyPresentStep, StepsOfferedStep
<1>5. QED
  BY <1>2, <1>3, <1>4 DEF ReignInv

\* The inductive invariant holds where workspaces are not deleted while
\* somebody signs up by OAuth.
THEOREM ReignInvariant ==
  ASSUME NoLateFounder
  PROVE  Spec => []ReignInv
BY InitReign, ReignStep, PTL DEF Spec

\* The owner's active membership changes only when the workspace is deleted,
\* which suspends every membership of it in the same update: no other handler
\* demotes, suspends or replaces the owner, whatever requests interleave.
THEOREM OwnersReign ==
  ASSUME NoLateFounder
  PROVE  Spec => ActiveOwnerKept
<1>1. ReignInv /\ [Next]_vars =>
         [\A w \in Workspaces, u \in Users :
             IsActive(u, w) /\ IsOwner(u, w) =>
                \/ IsActive(u, w)' /\ IsOwner(u, w)'
                \/ \A v \in Users : ~ IsActive(v, w)']_vars
  BY ActiveOwnerStep DEF ActiveOwner, IsActive
<1>2. QED
  BY <1>1, ReignInvariant, PTL DEF Spec, ActiveOwnerKept

LEMMA Reinstatement ==
  ASSUME OwnershipInv, AddresseesMatch, [Next]_vars, NEW w \in Workspaces, NEW u \in Users,
         memberships[w][u].status = "suspended", IsActive(u, w)'
  PROVE  \E p \in Procs :
            \/ /\ At(p, "accept_upsert")
               /\ requests[p].user = u
               /\ invitations[requests[p].inv].workspace = w
               /\ invitations[requests[p].inv].email = EmailOf[u]
            \/ /\ At(p, "owner_upsert")
               /\ requests[p].user = u /\ requests[p].workspace = w
<1>1. Shape
  BY DEF OwnershipInv
<1>2. HasMembership(u, w)
  BY DEF HasMembership, NoMembership
<1>3. memberships'[w][u].status = "active" /\ memberships'[w][u] # memberships[w][u]
  BY DEF IsActive
<1>4. PICK p \in Procs : Wrote(p, u, w)
  BY <1>1, <1>3, MembershipStep
<1>5. CASE At(p, "accept_upsert") /\ requests[p].user = u /\ requests[p].workspace = w
  BY <1>5 DEF AddresseesMatch, At
<1>6. CASE At(p, "owner_upsert") /\ requests[p].user = u /\ requests[p].workspace = w
  BY <1>6
<1>7. QED
  BY <1>2, <1>3, <1>4, <1>5, <1>6 DEF Wrote

\* A suspended membership becomes active again only through an invitation
\* addressed to that user, or as the end of that user's own sign-up.
THEOREM ReturnsExplained ==
  Spec => [][\A w \in Workspaces, u \in Users :
                memberships[w][u].status = "suspended" /\ IsActive(u, w)' =>
                   \E p \in Procs :
                      \/ /\ At(p, "accept_upsert")
                         /\ requests[p].user = u
                         /\ invitations[requests[p].inv].workspace = w
                         /\ invitations[requests[p].inv].email = EmailOf[u]
                      \/ /\ At(p, "owner_upsert")
                         /\ requests[p].user = u /\ requests[p].workspace = w]_vars
<1> DEFINE I == OwnershipInv /\ AddresseesMatch
<1>1. Init => I
  BY InitReign DEF ReignInv
<1>2. I /\ [Next]_vars => I'
  BY NextOwnership, AddresseesStep DEF OwnershipInv
<1>3. I /\ [Next]_vars =>
         [\A w \in Workspaces, u \in Users :
             memberships[w][u].status = "suspended" /\ IsActive(u, w)' =>
                \E p \in Procs :
                   \/ /\ At(p, "accept_upsert")
                      /\ requests[p].user = u
                      /\ invitations[requests[p].inv].workspace = w
                      /\ invitations[requests[p].inv].email = EmailOf[u]
                   \/ /\ At(p, "owner_upsert")
                      /\ requests[p].user = u /\ requests[p].workspace = w]_vars
  BY Reinstatement
<1>4. QED
  BY <1>1, <1>2, <1>3, PTL DEF Spec

\* That sign-up finds no suspended membership where workspaces are not deleted
\* while somebody signs up by OAuth: neither ensureLegacyMembership, nor a late
\* save of a role, nor a registration revives a membership.
THEOREM NoReturn ==
  ASSUME NoLateFounder
  PROVE  Spec => NoSilentReinstatement
<1>1. ASSUME ReignInv, [Next]_vars, NEW w \in Workspaces, NEW u \in Users,
             memberships[w][u].status = "suspended", IsActive(u, w)'
      PROVE  \E p \in Procs :
                /\ At(p, "accept_upsert")
                /\ requests[p].user = u
                /\ invitations[requests[p].inv].workspace = w
                /\ invitations[requests[p].inv].email = EmailOf[u]
  <2>1. OwnershipInv /\ AddresseesMatch /\ FoundersComeFirst
    BY <1>1 DEF ReignInv
  <2>2. HasMembership(u, w) /\ ~ ActiveOwner(u, w)
    BY <1>1 DEF HasMembership, NoMembership, ActiveOwner, IsActive
  <2>3. \A p \in Procs :
           ~ (At(p, "owner_upsert") /\ requests[p].user = u /\ requests[p].workspace = w)
    BY <2>1, <2>2 DEF FoundersComeFirst, Founding, At
  <2>4. QED
    BY <1>1, <2>1, <2>3, Reinstatement
<1>2. ReignInv /\ [Next]_vars =>
         [\A w \in Workspaces, u \in Users :
             memberships[w][u].status = "suspended" /\ IsActive(u, w)' =>
                \E p \in Procs :
                   /\ At(p, "accept_upsert")
                   /\ requests[p].user = u
                   /\ invitations[requests[p].inv].workspace = w
                   /\ invitations[requests[p].inv].email = EmailOf[u]]_vars
  BY <1>1
<1>3. QED
  BY <1>2, ReignInvariant, PTL DEF Spec, NoSilentReinstatement

-----------------------------------------------------------------------------
(* Why somebody owns a workspace that has members.                         *)

\* No workspace is deleted, and every old company has its system user.
Undisturbed ==
  /\ "deleteWorkspace" \notin Operations
  /\ \A u \in Users : LegacyCompany[u] # None =>
        \E v \in LegacySystem : LegacyCompany[v] = LegacyCompany[u]

\* Who begins a handler had no account yet, or was let through.
LEMMA Beginners ==
  ASSUME Shape, NEW p \in Procs, Enters(p), NEW s, s = requests'[p],
         s.step \in {"company_create", "oauth_create"},
         NEW u \in Users, s.user = u
  PROVE  users[u].account = "absent" \/ Authenticated(u)
<1>1. PICK v \in Users : \/ RequestRegister(p, v) \/ OauthSignUp(p, v)
                         \/ CreateWorkspaceForUser(p, v)
  BY DEF Enters
<1>2. requests'[p].user = v
  BY <1>1 DEF RequestRegister, OauthSignUp, SignUp, CreateWorkspaceForUser, Begin, Idle, Shape
<1>3. users[v].account = "absent" \/ Authenticated(v)
  BY <1>1 DEF RequestRegister, OauthSignUp, SignUp, CreateWorkspaceForUser
<1>4. QED
  BY <1>2, <1>3

LEMMA WaitingStep ==
  ASSUME ReignInv, [Next]_vars, NEW w \in Workspaces, Waiting(w)
  PROVE  Waiting(w)' \/ \E u \in Users : ActiveOwner(u, w)'
<1>1. /\ Shape /\ ClaimsComeFirst /\ w # None
  BY WorkspacesAssumption DEF ReignInv, OwnershipInv
<1>2. PICK u \in Users :
         /\ Live(u) /\ users[u].system /\ users[u].company = w
         /\ ~ HasMembership(u, w)
         /\ \A p \in Procs : requests[p].user = u => requests[p].step = "legacy_create"
  BY DEF Waiting
<1>3. Unowned(w)
  BY <1>1, <1>2 DEF ClaimsComeFirst, ClaimsOwnership
<1>4. CASE HasMembership(u, w)'
  BY <1>2, <1>3, <1>4, FirstMembership
<1>5. CASE ~ HasMembership(u, w)'
  <2>1. users'[u] = users[u]
    <3>1. ~ Opened(u)
      BY <1>2 DEF Opened, Live
    <3>2. ~ Pointed(u)
      BY <1>2 DEF Pointed
    <3>3. ~ Removed(u)
      BY <1>2, <1>3 DEF Removed, Unowned, At
    <3>4. QED
      BY <1>1, <3>1, <3>2, <3>3, AccountStep
  <2>2. ASSUME NEW p \in Procs, NEW s, s = requests'[p], s.user = u
        PROVE  s.step = "legacy_create"
    <3>1. CASE s = requests[p]
      BY <1>2, <2>2, <3>1
    <3>2. CASE s # requests[p]
      <4>1. u # None
        BY WorkspacesAssumption
      <4>2. Enters(p)
        BY <1>1, <2>2, <3>2, <4>1, StepEnters DEF Idle
      <4>3. ~ Authenticated(u) /\ users[u].account # "absent"
        BY <1>1, <1>2 DEF Authenticated, NeedsLegacyMembership, Live
      <4>4. requests[p].user = u => ~ Follows(requests[p].step, s.step)
        BY <1>2 DEF Follows
      <4>5. s.step \notin LaterSteps
        BY <1>1, <2>2, <4>2, <4>4, Continues DEF SameReferences
      <4>6. s.step \notin {"role_find", "remove_find", "invite_check", "revoke_find",
                          "delete_suspend", "add_create", "deluser_delete", "expire_save"}
        BY <1>1, <2>2, <4>1, <4>2, ManagersBegin, OpeningFacts, EntryFacts
      <4>7. s.step \notin {"company_create", "oauth_create"}
        BY <1>1, <2>2, <4>2, <4>3, Beginners
      <4>8. s.step \notin {"oauth_point", "owner_upsert", "accept_upsert"}
        BY <1>1, <1>2, <2>2, <4>2, <4>3, EntryFacts DEF SameReferences, At
      <4>9. s.step # "link"
        BY <1>1, <1>2, <2>2, <4>2, <4>3, OpeningFacts DEF SameReferences
      <4>10. QED
        BY <4>2, <2>2, <4>5, <4>6, <4>7, <4>8, <4>9 DEF Enters, LaterSteps
    <3>3. QED
      BY <3>1, <3>2
  <2>3. QED
    BY <1>2, <1>5, <2>1, <2>2 DEF Waiting, Live
<1>6. QED
  BY <1>4, <1>5

LEMMA UnbornStep ==
  ASSUME ReignInv, [Next]_vars, NEW w \in Workspaces, Unborn(w)
  PROVE  Unborn(w)' \/ \E u \in Users : ActiveOwner(u, w)'
<1>1. /\ Shape /\ LegacyRoleOfAccount /\ FoundersComeFirst /\ EverybodyPresent
      /\ PointerBacked' /\ w # None /\ requests' \in [Procs -> ShapedRequest]
  BY NextOwnership, WorkspacesAssumption DEF ReignInv, OwnershipInv, Shape
<1>2. ASSUME NEW u \in Users, HasMembership(u, w)'
      PROVE  ActiveOwner(u, w)'
  <2>1. ~ HasMembership(u, w)
    BY DEF Unborn
  <2>2. PICK p \in Procs : Wrote(p, u, w)
    BY <1>1, <1>2, <2>1, MembershipStep DEF HasMembership
  <2>3. \/ At(p, "owner_upsert")
        \/ At(p, "legacy_create") /\ users[requests[p].user].system
    BY <2>2 DEF Wrote, Unborn, At
  <2>4. At(p, "legacy_create") => requests[p].role = "owner"
    BY <1>1, <2>3 DEF LegacyRoleOfAccount, At
  <2>5. QED
    BY <2>2, <2>3, <2>4 DEF Wrote, At, ActiveOwner, IsActive, IsOwner
<1>3. ASSUME NEW u \in Users, users'[u].company = w
      PROVE  users'[u].system
  <2>1. CASE users'[u] = users[u]
    BY <1>3, <2>1 DEF Unborn
  <2>2. ~ Opened(u)
    BY <1>1, <1>3 DEF Opened, Unborn, At
  <2>3. CASE Pointed(u)
    <3>1. PICK p \in Procs :
             /\ requests[p].step \in {"oauth_point", "link"}
             /\ requests[p].user = u /\ requests[p].workspace = w
      BY <1>3, <2>3 DEF Pointed
    <3>2. users[u].system
      BY <1>1, <3>1 DEF Unborn, FoundersComeFirst
    <3>3. QED
      BY <2>3, <3>2 DEF Pointed
  <2>4. CASE Removed(u)
    BY <1>3, <2>4 DEF Removed, Unborn
  <2>5. QED
    BY <1>1, <2>1, <2>2, <2>3, <2>4, AccountStep
<1>4. ASSUME NEW i \in Invitations
      PROVE  invitations'[i].workspace # w
  <2>1. ~ Stored(i) \/ invitations'[i].workspace # w
    BY DEF Stored, Unborn, At
  <2>2. QED
    BY <1>1, <2>1, InvitationStep DEF Unborn, InvitationTo
<1>5. ASSUME \A u \in Users : ~ HasMembership(u, w)',
             NEW p \in Procs, NEW s, s = requests'[p], s.workspace = w
      PROVE  \/ s.step \in {"idle", "oauth_point", "owner_upsert"}
             \/ s.step = "legacy_create" /\ users'[s.user].system
  <2>1. ASSUME NEW u \in Users, s.user = u, s.step = "legacy_create",
               users[u].account # "absent", users[u].system
        PROVE  users'[s.user].system
    BY <1>1, <2>1, AccountStays
  <2>2. CASE s = requests[p]
    <3>1. s.step = "legacy_create" => s.user \in Users /\ s.user # None
      BY <1>1, <2>2, HeldReferences, WorkspacesAssumption
    <3>2. s.step = "legacy_create" => users[s.user].account # "absent"
      BY <1>1, <2>2, <3>1 DEF EverybodyPresent
    <3>3. QED
      BY <1>5, <2>1, <2>2, <3>1, <3>2 DEF Unborn
  <2>3. CASE s # requests[p]
    <3>1. Enters(p)
      BY <1>1, <1>5, <2>3, StepEnters DEF Idle
    <3>2. s.step # "link"
      <4>1. s.step = "link" => s.user \in Users
        BY <1>1, <1>5 DEF ShapedRequest
      <4>2. s.step = "link" => memberships'[w][s.user] # NoMembership
        BY <1>1, <1>5 DEF PointerBacked, HasMembership
      <4>3. QED
        BY <1>5, <4>1, <4>2 DEF HasMembership
    <3>3. \A u \in Users : ~ IsActive(u, w)
      BY ActiveMember DEF Unborn
    <3>4. requests[p].workspace = w => ~ Follows(requests[p].step, s.step)
      BY DEF Unborn, Follows
    <3>5. CASE s.step = "legacy_create"
      <4>1. s.user \in Users /\ Live(s.user) /\ users[s.user].company = w
        BY <1>1, <1>5, <3>1, <3>5, EntryFacts
      <4>2. QED
        BY <2>1, <3>5, <4>1 DEF Unborn, Live
    <3>6. CASE s.step # "legacy_create"
      BY <1>1, <1>5, <3>1, <3>2, <3>3, <3>4, <3>6, Entrances DEF Unborn
    <3>7. QED
      BY <3>5, <3>6
  <2>4. QED
    BY <2>2, <2>3
<1>6. CASE \E u \in Users : HasMembership(u, w)'
  BY <1>2, <1>6
<1>7. CASE \A u \in Users : ~ HasMembership(u, w)'
  BY <1>3, <1>4, <1>5, <1>7 DEF Unborn, HasMembership
<1>8. QED
  BY <1>6, <1>7

LEMMA SuccessionsStep ==
  ASSUME Undisturbed, ReignInv, Successions, [Next]_vars
  PROVE  Successions'
<1> SUFFICES ASSUME NEW w \in Workspaces
             PROVE  (\E u \in Users : ActiveOwner(u, w)') \/ Waiting(w)' \/ Unborn(w)'
  BY DEF Successions
<1>1. ASSUME NEW u \in Users, ActiveOwner(u, w)
      PROVE  ActiveOwner(u, w)'
  <2>1. \A p \in Procs : ~ At(p, "delete_suspend")
    BY DEF ReignInv, StepsOffered, Undisturbed, At
  <2>2. QED
    BY <1>1, <2>1, ActiveOwnerStep
<1>2. (\E u \in Users : ActiveOwner(u, w)) \/ Waiting(w) \/ Unborn(w)
  BY DEF Successions
<1>3. QED
  BY <1>1, <1>2, WaitingStep, UnbornStep

LEMMA InitSuccessions ==
  ASSUME Undisturbed, Init
  PROVE  Successions
<1> SUFFICES ASSUME NEW w \in Workspaces
             PROVE  Waiting(w) \/ Unborn(w)
  BY DEF Successions
<1>1. /\ \A p \in Procs : requests[p] = Idle
      /\ \A i \in Invitations : invitations[i] = NoInvitation
      /\ \A u \in Users : memberships[w][u] = NoMembership
      /\ \A u \in Users : /\ users[u].company = LegacyCompany[u]
                          /\ users[u].system <=> u \in LegacySystem
                          /\ LegacyCompany[u] # None => Live(u)
  BY DEF Init, Live
<1>2. /\ \A p \in Procs : requests[p].user = None /\ requests[p].workspace = None
      /\ \A i \in Invitations : invitations[i].workspace = None
      /\ \A u \in Users : ~ HasMembership(u, w)
      /\ w # None /\ None \notin Users /\ LegacySystem \subseteq Users
  BY <1>1, WorkspacesAssumption DEF Idle, NoInvitation, HasMembership
<1>3. CASE \E u \in Users : LegacyCompany[u] = w
  <2>1. PICK v \in LegacySystem : LegacyCompany[v] = w
    BY <1>2, <1>3 DEF Undisturbed
  <2>2. QED
    BY <1>1, <1>2, <2>1 DEF Waiting
<1>4. CASE ~ \E u \in Users : LegacyCompany[u] = w
  BY <1>1, <1>2, <1>4 DEF Unborn
<1>5. QED
  BY <1>3, <1>4

\* A workspace that has any member has an owner as well, or an account that is
\* about to become its owner: no interleaving of removals, role changes,
\* acceptances, old accounts and crashes leaves members alone.
THEOREM NeverOwnerless ==
  ASSUME Undisturbed
  PROVE  Spec => []SomebodyOwns
<1>1. NoLateFounder
  BY DEF Undisturbed, NoLateFounder
<1>2. Init => ReignInv /\ Successions
  BY InitReign, InitSuccessions
<1>3. ReignInv /\ Successions /\ [Next]_vars => ReignInv' /\ Successions'
  BY <1>1, ReignStep, SuccessionsStep
<1>4. Successions => SomebodyOwns
  <2> SUFFICES ASSUME Successions, NEW w \in Workspaces, NEW x \in Users,
                      HasMembership(x, w)
               PROVE  \E u \in Users : ClaimsOwnership(u, w)
    BY DEF SomebodyOwns
  <2>1. ~ Unborn(w)
    BY DEF Unborn
  <2>2. QED
    BY <2>1 DEF Successions, Waiting, ActiveOwner, ClaimsOwnership
<1>5. QED
  BY <1>2, <1>3, <1>4, PTL DEF Spec

=============================================================================
