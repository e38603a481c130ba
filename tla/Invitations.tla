----------------------------- MODULE Invitations -----------------------------
(***************************************************************************)
(* Joining a campaign by a link, as the backend promises it: a link is     *)
(* used up in the step that makes its user a member, by one user, once.    *)
(***************************************************************************)
EXTENDS FiniteSets

CONSTANTS
    Users,          \* accounts, the master included
    Master,         \* the account that created the campaign
    InvitationId,   \* ids of invitations, and the links made from them
    GrantedRoles,   \* roles an invitation may grant
    Nobody          \* no account

ASSUME InvitationsAssumption ==
    /\ Master \in Users
    /\ Nobody \notin Users
    /\ GrantedRoles \cap {"NONE", "OWNER"} = {}

Invitation == [role : GrantedRoles, acceptedBy : Users \cup {Nobody}, revoked : BOOLEAN]

VARIABLES
    member,         \* member[u]: the role in u's membership row, or "NONE"
    invitation,     \* the invitation rows, by id
    removed         \* users the master has removed from the campaign

rows == <<member, invitation, removed>>

InvitationsInit ==
    /\ member = [u \in Users |-> IF u = Master THEN "OWNER" ELSE "NONE"]
    /\ invitation = [i \in {} |-> Nobody]
    /\ removed = {}

IsMember(u) == member[u] # "NONE"
Issued(i) == i \in DOMAIN invitation
Open(i) == Issued(i) /\ invitation[i].acceptedBy = Nobody /\ ~invitation[i].revoked

CreateInvitation(i, r) ==
    /\ IsMember(Master)
    /\ ~Issued(i)
    /\ invitation' = [j \in DOMAIN invitation \cup {i} |->
            IF j = i THEN [role |-> r, acceptedBy |-> Nobody, revoked |-> FALSE]
            ELSE invitation[j]]
    /\ UNCHANGED <<member, removed>>

RevokeInvitation(i) ==
    /\ Open(i)
    /\ invitation' = [invitation EXCEPT ![i].revoked = TRUE]
    /\ UNCHANGED <<member, removed>>

\* The membership row, the used link and the role it grants are one change.
AcceptInvitation(u, i) ==
    /\ Open(i)
    /\ ~IsMember(u)
    /\ invitation' = [invitation EXCEPT ![i].acceptedBy = u]
    /\ member' = [member EXCEPT ![u] = invitation[i].role]
    /\ removed' = removed \ {u}

\* The role of a member is the master's to change, whatever the link granted.
ChangeRole(u, r) ==
    /\ IsMember(u) /\ u # Master
    /\ member' = [member EXCEPT ![u] = r]
    /\ UNCHANGED <<invitation, removed>>

RemoveMember(u) ==
    /\ IsMember(u) /\ u # Master
    /\ member' = [member EXCEPT ![u] = "NONE"]
    /\ removed' = removed \cup {u}
    /\ UNCHANGED invitation

\* Everything goes with the campaign.
RemoveCampaign ==
    /\ IsMember(Master)
    /\ member' = [u \in Users |-> "NONE"]
    /\ invitation' = [i \in {} |-> Nobody]
    /\ removed' = {}

InvitationsNext ==
    \/ \E i \in InvitationId, r \in GrantedRoles : CreateInvitation(i, r)
    \/ \E i \in InvitationId : RevokeInvitation(i)
    \/ \E u \in Users, i \in InvitationId : AcceptInvitation(u, i)
    \/ \E u \in Users, r \in GrantedRoles : ChangeRole(u, r)
    \/ \E u \in Users : RemoveMember(u)
    \/ RemoveCampaign

InvitationsSpec == InvitationsInit /\ [][InvitationsNext]_rows

-----------------------------------------------------------------------------
InvitationsTypeOK ==
    /\ member \in [Users -> GrantedRoles \cup {"OWNER", "NONE"}]
    /\ DOMAIN invitation \subseteq InvitationId
    /\ \A i \in DOMAIN invitation : invitation[i] \in Invitation
    /\ removed \subseteq Users

\* A used link made its user a member, and one who is no longer a member was
\* removed since: no failure between the claim of the link and the new membership
\* row burns a link (accept claims the link and creates the row in one transaction).
UsedLinksJoined ==
    \A i \in DOMAIN invitation :
        LET u == invitation[i].acceptedBy
        IN  u # Nobody => ~invitation[i].revoked /\ (IsMember(u) \/ u \in removed)

\* Every member but the master has used a link, and nobody else has used the same: no two
\* users get in by one link, and none by one that was used before.  (The role of the link
\* is the one a user joins with, AcceptInvitation; later it is the master's to change.)
MembersWereInvited ==
    \A u \in Users \ {Master} : IsMember(u) =>
        \E i \in DOMAIN invitation : invitation[i].acceptedBy = u

\* Links that were used and members belong together.
LinksMatchMembers == UsedLinksJoined /\ MembersWereInvited
=============================================================================
