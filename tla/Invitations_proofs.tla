-------------------------- MODULE Invitations_proofs --------------------------
(***************************************************************************)
(* Links are used once and used links are never burnt, for any number of   *)
(* users, links and concurrent requests: first for the atomic              *)
(* specification, then for the handlers, which implement it.               *)
(***************************************************************************)
EXTENDS InvitationRequests, TLAPS

LinksConsistent == InvitationsTypeOK /\ UsedLinksJoined /\ MembersWereInvited

-----------------------------------------------------------------------------
(* The atomic specification.                                                *)

LEMMA InitLinks == InvitationsInit => LinksConsistent
BY InvitationsAssumption
   DEF InvitationsInit, LinksConsistent, InvitationsTypeOK, UsedLinksJoined,
       MembersWereInvited, IsMember

LEMMA CreateKeepsLinks ==
  ASSUME LinksConsistent,
         NEW i \in InvitationId, NEW r \in GrantedRoles, CreateInvitation(i, r)
  PROVE  LinksConsistent'
<1> USE InvitationsAssumption
<1>0. /\ DOMAIN invitation' = DOMAIN invitation \cup {i}
      /\ \A j \in DOMAIN invitation : invitation'[j] = invitation[j]
      /\ invitation'[i] = [role |-> r, acceptedBy |-> Nobody, revoked |-> FALSE]
      /\ i \notin DOMAIN invitation
      /\ member' = member /\ removed' = removed
  BY DEF CreateInvitation, Issued
<1>1. InvitationsTypeOK'
  <2>1. invitation'[i] \in Invitation
    BY <1>0 DEF Invitation
  <2> QED BY <2>1, <1>0 DEF LinksConsistent, InvitationsTypeOK
<1>2. UsedLinksJoined'
  BY <1>0 DEF LinksConsistent, UsedLinksJoined, IsMember
<1>3. MembersWereInvited'
  BY <1>0 DEF LinksConsistent, MembersWereInvited, IsMember
<1> QED BY <1>1, <1>2, <1>3 DEF LinksConsistent

LEMMA RevokeKeepsLinks ==
  ASSUME LinksConsistent, NEW i \in InvitationId, RevokeInvitation(i)
  PROVE  LinksConsistent'
<1> USE InvitationsAssumption
<1>0. /\ DOMAIN invitation' = DOMAIN invitation
      /\ \A j \in DOMAIN invitation : j # i => invitation'[j] = invitation[j]
      /\ i \in DOMAIN invitation /\ invitation[i] \in Invitation
      /\ invitation'[i].acceptedBy = Nobody
      /\ invitation'[i] \in Invitation
      /\ invitation[i].acceptedBy = Nobody
      /\ member' = member /\ removed' = removed
  BY DEF RevokeInvitation, Open, Issued, LinksConsistent, InvitationsTypeOK, Invitation
<1>1. InvitationsTypeOK'
  BY <1>0 DEF LinksConsistent, InvitationsTypeOK
<1>2. UsedLinksJoined'
  BY <1>0 DEF LinksConsistent, UsedLinksJoined, IsMember
<1>3. MembersWereInvited'
  BY <1>0 DEF LinksConsistent, MembersWereInvited, IsMember
<1> QED BY <1>1, <1>2, <1>3 DEF LinksConsistent

LEMMA AcceptKeepsLinks ==
  ASSUME LinksConsistent, NEW u \in Users, NEW i \in InvitationId, AcceptInvitation(u, i)
  PROVE  LinksConsistent'
<1> USE InvitationsAssumption
<1>0. /\ DOMAIN invitation' = DOMAIN invitation
      /\ \A j \in DOMAIN invitation : j # i => invitation'[j] = invitation[j]
      /\ i \in DOMAIN invitation /\ invitation[i] \in Invitation
      /\ invitation'[i] = [invitation[i] EXCEPT !.acceptedBy = u]
      /\ ~invitation[i].revoked
  BY DEF AcceptInvitation, Open, Issued, LinksConsistent, InvitationsTypeOK
<1>1. /\ invitation'[i] \in Invitation
      /\ invitation'[i].acceptedBy = u
      /\ invitation'[i].role = invitation[i].role
      /\ invitation'[i].revoked = invitation[i].revoked
      /\ invitation[i].role \in GrantedRoles
  BY <1>0 DEF Invitation
<1>2. /\ member' = [member EXCEPT ![u] = invitation[i].role]
      /\ removed' = removed \ {u}
      /\ ~IsMember(u)
      /\ invitation[i].acceptedBy = Nobody
      /\ member \in [Users -> GrantedRoles \cup {"OWNER", "NONE"}]
  BY DEF AcceptInvitation, Open, LinksConsistent, InvitationsTypeOK
<1>3. InvitationsTypeOK'
  BY <1>0, <1>1, <1>2 DEF LinksConsistent, InvitationsTypeOK
<1>4. UsedLinksJoined'
  <2> SUFFICES ASSUME NEW j \in DOMAIN invitation, invitation'[j].acceptedBy # Nobody
               PROVE  /\ ~invitation'[j].revoked
                      /\ \/ member'[invitation'[j].acceptedBy] # "NONE"
                         \/ invitation'[j].acceptedBy \in removed'
    BY <1>0 DEF UsedLinksJoined, IsMember
  <2>1. CASE j = i
    BY <2>1, <1>0, <1>1, <1>2
  <2>2. CASE j # i
    <3>1. /\ ~invitation[j].revoked
          /\ \/ member[invitation[j].acceptedBy] # "NONE"
             \/ invitation[j].acceptedBy \in removed
      BY <2>2, <1>0 DEF LinksConsistent, UsedLinksJoined, IsMember
    <3>2. invitation[j].acceptedBy \in Users
      BY <2>2, <1>0 DEF LinksConsistent, InvitationsTypeOK, Invitation
    <3> QED BY <2>2, <1>0, <1>1, <1>2, <3>1, <3>2
  <2> QED BY <2>1, <2>2
<1>5. MembersWereInvited'
  <2> SUFFICES ASSUME NEW w \in Users \ {Master}, IsMember(w)'
               PROVE  \E j \in DOMAIN invitation' : invitation'[j].acceptedBy = w
    BY DEF MembersWereInvited
  <2>1. CASE w = u
    BY <2>1, <1>0, <1>1, <1>2
  <2>2. CASE w # u
    <3>1. IsMember(w)
      BY <2>2, <1>2 DEF IsMember
    <3>2. PICK j \in DOMAIN invitation : invitation[j].acceptedBy = w
      BY <3>1 DEF LinksConsistent, MembersWereInvited
    <3> QED BY <3>1, <3>2, <1>0, <1>2
  <2> QED BY <2>1, <2>2
<1> QED BY <1>3, <1>4, <1>5 DEF LinksConsistent

LEMMA ChangeRoleKeepsLinks ==
  ASSUME LinksConsistent, NEW u \in Users, NEW r \in GrantedRoles, ChangeRole(u, r)
  PROVE  LinksConsistent'
<1> USE InvitationsAssumption
<1>0. /\ invitation' = invitation /\ removed' = removed
      /\ member' \in [Users -> GrantedRoles \cup {"OWNER", "NONE"}]
      /\ \A w \in Users : IsMember(w)' <=> IsMember(w)
  BY DEF ChangeRole, LinksConsistent, InvitationsTypeOK, IsMember
<1>1. InvitationsTypeOK'
  BY <1>0 DEF LinksConsistent, InvitationsTypeOK
<1>2. UsedLinksJoined'
  BY <1>0 DEF LinksConsistent, UsedLinksJoined, InvitationsTypeOK, Invitation
<1>3. MembersWereInvited'
  BY <1>0 DEF LinksConsistent, MembersWereInvited
<1> QED BY <1>1, <1>2, <1>3 DEF LinksConsistent

LEMMA RemoveMemberKeepsLinks ==
  ASSUME LinksConsistent, NEW u \in Users, RemoveMember(u)
  PROVE  LinksConsistent'
<1> USE InvitationsAssumption
<1>1. InvitationsTypeOK'
  BY DEF RemoveMember, LinksConsistent, InvitationsTypeOK
<1>2. UsedLinksJoined'
  BY DEF RemoveMember, LinksConsistent, UsedLinksJoined, InvitationsTypeOK, Invitation,
         IsMember
<1>3. MembersWereInvited'
  BY DEF RemoveMember, LinksConsistent, MembersWereInvited, InvitationsTypeOK, IsMember
<1> QED BY <1>1, <1>2, <1>3 DEF LinksConsistent

LEMMA RemoveCampaignKeepsLinks ==
  ASSUME LinksConsistent, RemoveCampaign
  PROVE  LinksConsistent'
BY InvitationsAssumption
   DEF RemoveCampaign, LinksConsistent, InvitationsTypeOK, UsedLinksJoined,
       MembersWereInvited, IsMember

LEMMA AtomicKeepsLinks ==
  ASSUME LinksConsistent, [InvitationsNext]_rows
  PROVE  LinksConsistent'
<1>1. CASE UNCHANGED rows
  BY <1>1 DEF rows, LinksConsistent, InvitationsTypeOK, UsedLinksJoined,
              MembersWereInvited, IsMember
<1>2. CASE InvitationsNext
  BY <1>2, CreateKeepsLinks, RevokeKeepsLinks, AcceptKeepsLinks,
     ChangeRoleKeepsLinks, RemoveMemberKeepsLinks, RemoveCampaignKeepsLinks DEF InvitationsNext
<1> QED BY <1>1, <1>2

\* Under any history of atomic requests, role changes and removals among them, a used
\* link made its user a member, and every member but the master has used one.
THEOREM LinksAlwaysConsistent == InvitationsSpec => []LinksConsistent
BY InitLinks, AtomicKeepsLinks, PTL DEF InvitationsSpec

-----------------------------------------------------------------------------
(* The handlers.                                                            *)

ClaimInvariant == LinksConsistent /\ RequestsTypeOK /\ ClaimsHold

\* What a request names, by its operation.
LEMMA RequestFields ==
  ASSUME RequestsTypeOK, NEW p \in Handlers
  PROVE  /\ At(p, "revoke", "checked") => request[p].id \in InvitationId
         /\ \A s : At(p, "accept", s) =>
                request[p].user \in Users /\ request[p].id \in InvitationId
         /\ \A op \in {"changeRole", "removeMember"} :
                At(p, op, "checked") => request[p].user \in Users
<1>1. request[p] \in Request \cup {Idle}
  BY DEF RequestsTypeOK
<1> QED BY <1>1 DEF At, Request, Idle

LEMMA InitClaims == RequestsInit => ClaimInvariant
<1> SUFFICES ASSUME RequestsInit PROVE ClaimInvariant
  OBVIOUS
<1>1. LinksConsistent
  BY InitLinks DEF RequestsInit
<1>2. RequestsTypeOK
  BY <1>1 DEF RequestsInit, RequestsTypeOK, LinksConsistent
<1>3. ClaimsHold
  BY DEF RequestsInit, ClaimsHold, At, Idle
<1> QED BY <1>1, <1>2, <1>3 DEF ClaimInvariant

\* Every step of a handler is a step of the atomic specification or changes no row.
LEMMA StepImplements ==
  ASSUME ClaimInvariant, [RequestsNext]_vars
  PROVE  [InvitationsNext]_rows
<1> USE DEF ClaimInvariant
<1>1. CASE UNCHANGED vars
  BY <1>1 DEF vars
<1>2. ASSUME NEW p \in Handlers, Create(p) PROVE InvitationsNext
  BY <1>2, RequestFields DEF Create, InvitationsNext
<1>3. ASSUME NEW p \in Handlers, Revoke(p) PROVE InvitationsNext
  BY <1>3, RequestFields DEF Revoke, InvitationsNext
<1>4. ASSUME NEW p \in Handlers, Join(p) PROVE InvitationsNext
  <2>1. Open(request[p].id)
    BY <1>4 DEF Join, ClaimsHold
  <2>2. AcceptInvitation(request[p].user, request[p].id)
    BY <1>4, <2>1 DEF Join, AcceptInvitation
  <2> QED BY <1>4, <2>2, RequestFields DEF Join, InvitationsNext
<1>5. ASSUME NEW p \in Handlers, Reassign(p) \/ Remove(p) PROVE InvitationsNext
  BY <1>5, RequestFields DEF Reassign, Remove, InvitationsNext
<1>6. ASSUME NEW p \in Handlers, DeleteCampaign(p) PROVE InvitationsNext
  BY <1>6 DEF DeleteCampaign, InvitationsNext
<1>7. ASSUME NEW p \in Handlers,
             \/ Start(p) \/ CheckMember(p) \/ Claim(p) \/ LockCampaign(p)
             \/ Refuse(p) \/ BreakDeadlock(p) \/ Fail(p)
      PROVE  UNCHANGED rows
  BY <1>7 DEF Start, CheckMember, Claim, LockCampaign, Refuse, BreakDeadlock, Fail
<1>8. ASSUME NEW i \in InvitationId, Expire(i) PROVE UNCHANGED rows
  BY <1>8 DEF Expire
<1> QED BY <1>1, <1>2, <1>3, <1>4, <1>5, <1>6, <1>7, <1>8 DEF RequestsNext, Step

\* A request that ends gives its locks back and nobody else's.
LEMMA FinishKeepsClaims ==
  ASSUME ClaimInvariant, NEW p \in Handlers, Finish(p), LinksConsistent',
         \A i \in DOMAIN invitation :
            (Open(i) /\ rowLock[i] \notin {p, NoHandler}) =>
                i \in DOMAIN invitation' /\ invitation'[i] = invitation[i]
  PROVE  ClaimInvariant'
<1> USE RequestsAssumption DEF ClaimInvariant, RequestsTypeOK
<1>1. request' = [request EXCEPT ![p] = Idle] /\ expired' = expired
  BY DEF Finish
<1>2. rowLock' \in [InvitationId -> Handlers \cup {NoHandler}]
      /\ campaignLock' \in Handlers \cup {NoHandler}
  BY DEF Finish
<1>3. ClaimsHold'
  <2> SUFFICES ASSUME NEW q \in Handlers, At(q, "accept", "claimed")'
               PROVE  (rowLock[request[q].id] = q /\ Open(request[q].id))'
    BY DEF ClaimsHold
  <2>1. q # p /\ request'[q] = request[q]
    BY <1>1 DEF At, Idle
  <2>2. rowLock[request[q].id] = q /\ Open(request[q].id)
    BY <2>1 DEF ClaimsHold, At
  <2>3. request[q].id \in InvitationId /\ request[q].id \in DOMAIN invitation
    BY <2>2 DEF Open, Issued, InvitationsTypeOK
  <2> QED BY <2>1, <2>2, <2>3 DEF Finish, Open, Issued
<1> QED BY <1>1, <1>2, <1>3 DEF LinksConsistent

\* A request that goes on touches no row and no claim of another.
LEMMA StepKeepsClaims ==
  ASSUME ClaimInvariant, [RequestsNext]_vars
  PROVE  ClaimInvariant'
<1> USE RequestsAssumption DEF ClaimInvariant
<1>0. LinksConsistent'
  BY StepImplements, AtomicKeepsLinks
<1>1. CASE UNCHANGED vars
  BY <1>0, <1>1 DEF vars, rows, locks, RequestsTypeOK, LinksConsistent, ClaimsHold, At,
                    Open, Issued
<1>2. ASSUME NEW p \in Handlers, Start(p) PROVE ClaimInvariant'
  <2>1. PICK r \in Request :
          /\ r.op = "accept" => r.step = "found"
          /\ request' = [request EXCEPT ![p] = r]
    BY <1>2 DEF Start
  <2>2. RequestsTypeOK'
    BY <1>0, <1>2, <2>1 DEF Start, rows, locks, RequestsTypeOK, LinksConsistent
  <2>3. ClaimsHold'
    BY <1>2, <2>1 DEF Start, rows, locks, RequestsTypeOK, ClaimsHold, At, Open, Issued
  <2> QED BY <1>0, <2>2, <2>3
<1>3. ASSUME NEW p \in Handlers, CheckMember(p) PROVE ClaimInvariant'
  <2>1. RequestsTypeOK'
    BY <1>0, <1>3 DEF CheckMember, Advance, At, rows, locks, RequestsTypeOK,
                      LinksConsistent, Request, Idle
  <2>2. ClaimsHold'
    BY <1>3 DEF CheckMember, Advance, rows, locks, RequestsTypeOK, ClaimsHold, At, Open,
                Issued
  <2> QED BY <1>0, <2>1, <2>2
<1>4. ASSUME NEW p \in Handlers, Claim(p) PROVE ClaimInvariant'
  <2>1. request[p] \in [op : {"accept"}, user : Users, id : InvitationId,
                        step : {"found", "newcomer", "claimed"}]
    BY <1>4 DEF Claim, At, RequestsTypeOK, Request, Idle
  <2>2. request' = [request EXCEPT ![p].step = "claimed"]
        /\ rowLock' = [rowLock EXCEPT ![request[p].id] = p]
    BY <1>4 DEF Claim, Advance
  <2>3. RequestsTypeOK'
    BY <1>0, <1>4, <2>1, <2>2
       DEF Claim, rows, RequestsTypeOK, LinksConsistent, Request
  <2>4. ClaimsHold'
    <3> SUFFICES ASSUME NEW q \in Handlers, At(q, "accept", "claimed")'
                 PROVE  (rowLock[request[q].id] = q /\ Open(request[q].id))'
      BY DEF ClaimsHold
    <3>1. CASE q = p
      BY <1>4, <2>1, <2>2, <3>1
         DEF Claim, Usable, Open, Issued, rows, RequestsTypeOK
    <3>2. CASE q # p
      <4>1. request'[q] = request[q]
        BY <2>2, <3>2 DEF RequestsTypeOK
      <4>2. rowLock[request[q].id] = q /\ Open(request[q].id)
        BY <4>1 DEF ClaimsHold, At
      <4> QED BY <1>4, <2>2, <3>2, <4>1, <4>2
             DEF Claim, Open, Issued, rows, RequestsTypeOK, LinksConsistent,
                 InvitationsTypeOK
    <3> QED BY <3>1, <3>2
  <2> QED BY <1>0, <2>3, <2>4
<1>5. ASSUME NEW p \in Handlers, LockCampaign(p) PROVE ClaimInvariant'
  <2>1. RequestsTypeOK'
    BY <1>0, <1>5 DEF LockCampaign, Advance, At, rows, RequestsTypeOK, LinksConsistent,
                      Request, Idle
  <2>2. ClaimsHold'
    BY <1>5 DEF LockCampaign, Advance, rows, RequestsTypeOK, ClaimsHold, At, Open, Issued
  <2> QED BY <1>0, <2>1, <2>2
<1>6. ASSUME NEW p \in Handlers, Finish(p),
             \/ Create(p) \/ Revoke(p) \/ Join(p) \/ Reassign(p) \/ Remove(p)
             \/ DeleteCampaign(p) \/ Refuse(p) \/ BreakDeadlock(p) \/ Fail(p)
      PROVE  ClaimInvariant'
  <2>1. ASSUME NEW i \in DOMAIN invitation, Open(i), rowLock[i] \notin {p, NoHandler}
        PROVE  i \in DOMAIN invitation' /\ invitation'[i] = invitation[i]
    <3>1. i \in InvitationId
      BY DEF LinksConsistent, InvitationsTypeOK
    <3>2. CASE Create(p)
      BY <3>2 DEF Create, CreateInvitation, Issued
    <3>3. CASE Revoke(p)
      BY <2>1, <3>3 DEF Revoke, RevokeInvitation
    <3>4. CASE Join(p)
      <4>1. rowLock[request[p].id] = p
        BY <3>4 DEF Join, ClaimsHold
      <4> QED BY <2>1, <3>4, <4>1 DEF Join
    <3>5. CASE Reassign(p) \/ Remove(p)
      BY <3>5 DEF Reassign, Remove, ChangeRole, RemoveMember
    <3>6. CASE DeleteCampaign(p)
      BY <2>1, <3>1, <3>6 DEF DeleteCampaign
    <3>7. CASE Refuse(p) \/ BreakDeadlock(p) \/ Fail(p)
      BY <3>7 DEF Refuse, BreakDeadlock, Fail, rows
    <3> QED BY <1>6, <3>2, <3>3, <3>4, <3>5, <3>6, <3>7
  <2> QED BY <1>0, <1>6, <2>1, FinishKeepsClaims
<1>7. ASSUME NEW i \in InvitationId, Expire(i) PROVE ClaimInvariant'
  BY <1>0, <1>7 DEF Expire, rows, locks, RequestsTypeOK, LinksConsistent, ClaimsHold, At,
                    Open, Issued
<1>8. ASSUME NEW p \in Handlers,
             \/ Create(p) \/ Revoke(p) \/ Join(p) \/ Reassign(p) \/ Remove(p)
             \/ DeleteCampaign(p) \/ Refuse(p) \/ BreakDeadlock(p) \/ Fail(p)
      PROVE  Finish(p)
  BY <1>8 DEF Create, Revoke, Join, Reassign, Remove, DeleteCampaign, Refuse, BreakDeadlock, Fail
<1> QED
  BY <1>1, <1>2, <1>3, <1>4, <1>5, <1>6, <1>7, <1>8 DEF RequestsNext, Step

\* An acceptance that has claimed its link keeps it until it ends, whatever runs
\* beside it.
THEOREM ClaimsAlwaysHold == RequestsSpec => []ClaimsHold
<1>1. ClaimInvariant => ClaimsHold
  BY DEF ClaimInvariant
<1> QED BY <1>1, InitClaims, StepKeepsClaims, PTL DEF RequestsSpec

\* Handlers that look up, claim and join in separate steps use links as the atomic
\* specification does.
THEOREM RequestsImplementInvitations == RequestsSpec => InvitationsSpec
<1>1. RequestsInit => InvitationsInit
  BY DEF RequestsInit
<1> QED BY <1>1, InitClaims, StepKeepsClaims, StepImplements, PTL
        DEF RequestsSpec, InvitationsSpec

\* So no failure or interleaving of the running backend burns a link, and every member
\* but the master has used one.
THEOREM RequestsKeepLinks == RequestsSpec => []LinksMatchMembers
<1>1. LinksConsistent => LinksMatchMembers
  BY DEF LinksConsistent, LinksMatchMembers
<1> QED BY <1>1, RequestsImplementInvitations, LinksAlwaysConsistent, PTL
=============================================================================
