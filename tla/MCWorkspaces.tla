---------------------------- MODULE MCWorkspaces ----------------------------
(* Instances of Workspaces for TLC.                                        *)
EXTENDS Workspaces, TLC

CONSTANTS
    u1, u2, u3, e1, e2, w1, w2, i1, i2, p1, p2,
    Scenarios       \* TRUE: one request at a time, FALSE: they overlap

VARIABLE alone

MCEmailOf == [u \in Users |-> IF u = u1 THEN e1 ELSE e2]

\* u1 registered w1, and u2 registered w2, before there were memberships.
\* u3 has the address of u2 and can register it once u2 is deleted.
MCTwoCompanies ==
    [u \in Users |-> IF u = u1 THEN w1 ELSE IF u = u2 THEN w2 ELSE None]

\* u1 registered w1 and u2 was added to it, before there were memberships.
MCOneCompany == [u \in Users |-> IF u = u3 THEN None ELSE w1]

\* Nobody has an account yet.
MCNoCompanies == [u \in Users |-> None]

-----------------------------------------------------------------------------
(* Requests that overlap leave out what only settles invitations, and the  *)
(* switch of workspaces: there are enough of the others.                   *)

MCSettling == {"expire_save", "revoke_find", "revoke_save"}

\* One request is in flight at most.
OneAtATime ==
    \A p, q \in Procs :
        requests[p].step # "idle" /\ requests[q].step # "idle" => p = q

MCStep ==
    IF alone THEN OneAtATime'
    ELSE /\ \A i \in Invitations : ~ invitations'[i].lapsed
         /\ \A p \in Procs : requests'[p].step \notin MCSettling
         /\ \A p \in Procs : requests[p].step = "idle" => requests'[p].step # "link"

MCInit == Init /\ alone \in Scenarios

MCNext == Next /\ MCStep /\ UNCHANGED alone

MCSpec == MCInit /\ [][MCNext]_<<vars, alone>>

-----------------------------------------------------------------------------
(* What the invitations and the deletion promise when requests do not      *)
(* overlap; they do not promise it when they do.                           *)

\* Only the newest invitation of an address to a workspace is pending
\* (Workspaces!OnePendingPerAddress, createInvitation).
OnePendingAlone == alone => OnePendingPerAddress

\* Nobody may manage a deleted workspace (Workspaces!NoManagerOfDeleted,
\* deleteWorkspace and what accepts, invites or saves around it).
NoManagerAlone == alone => NoManagerOfDeleted

\* An invitation that was accepted, revoked or expired never changes its status
\* again (Workspaces!InvitationsSettleOnce, the handlers of invitations).
SettledOnceAlone ==
    [][alone => \A i \in Invitations :
          invitations[i].status \in {"accepted", "revoked", "expired"} =>
              invitations'[i].status = invitations[i].status]_vars

-----------------------------------------------------------------------------
(* Why they hold: the inductive invariant.                                 *)

\* An address has at most one pending invitation to a workspace, and none when
\* a new one is about to be stored.
NewestPending ==
    /\ \A i \in Invitations : invitations[i].status = "pending" =>
          \A j \in PendingFor(invitations[i].email, invitations[i].workspace) : j = i
    /\ \A p \in Procs : requests[p].step = "invite_create" =>
          \A i \in Invitations :
             i \notin PendingFor(requests[p].email, requests[p].workspace)

\* An invitation that a request is about to settle is still pending.
SettlesPending ==
    \A p \in Procs :
        requests[p].step \in {"expire_save", "accept_upsert", "accept_save",
                             "revoke_save"}
            => invitations[requests[p].inv].status = "pending"

\* The steps that a plain member, or the user of an old account, can reach.
PlainSteps == {"idle", "link", "legacy_create", "add_create", "deluser_delete"}

\* In a deleted workspace nobody manages, nothing invites, and whoever would
\* be made its owner is a member already.
DeletedClosed ==
    \A w \in Workspaces : workspaces[w] = "deleted" =>
        /\ \A u \in Users : IsActive(u, w) => ~ CanManageMembers(memberships[w][u].role)
        /\ \A p \in Procs : requests[p].workspace = w => requests[p].step \in PlainSteps
        /\ \A i \in Invitations :
              invitations[i].status = "pending" => invitations[i].workspace # w

\* What is left to do of a deletion: the members are suspended first, the
\* invitations revoked next.
DeletionInOrder ==
    \A p \in Procs :
        /\ requests[p].step \in {"delete_revoke", "delete_mark"} =>
              \A u \in Users : ~ IsActive(u, requests[p].workspace)
        /\ requests[p].step = "delete_mark" =>
              \A i \in Invitations :
                 invitations[i].status = "pending"
                    => invitations[i].workspace # requests[p].workspace

\* Whoever claims a workspace that is deleted, or about to be, is its member.
ClaimsBacked ==
    \A w \in Workspaces :
        (\/ workspaces[w] = "deleted"
         \/ \E p \in Procs :
               /\ requests[p].workspace = w
               /\ requests[p].step \in {"delete_suspend", "delete_revoke", "delete_mark"})
        => \A u \in Users : ClaimsOwnership(u, w) => HasMembership(u, w)

\* ensureLegacyMembership makes owners and members.
LegacyRoles ==
    \A p \in Procs : requests[p].step = "legacy_create" =>
        requests[p].role \in {"owner", "member"}

AloneInv ==
    /\ OneAtATime /\ NewestPending /\ SettlesPending
    /\ DeletedClosed /\ DeletionInOrder /\ ClaimsBacked /\ LegacyRoles

AloneHolds == alone => AloneInv

MCInvitationSymmetry == Permutations({i1, i2})

MCRequestSymmetry == Permutations({p1, p2})

MCSymmetry == MCInvitationSymmetry \union MCRequestSymmetry
=============================================================================
