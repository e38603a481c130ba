-------------------------- MODULE InvitationRequests --------------------------
(***************************************************************************)
(* How CampaignInvitationService serves links: the link is looked up       *)
(* without a lock, then a transaction checks for a membership, claims the  *)
(* invitation row (a conditional update, which locks the row) and inserts  *)
(* the membership (whose foreign key waits for whoever has the campaign    *)
(* row).  The deletion of the campaign takes these locks the other way     *)
(* round, so the two can wait for each other until the database breaks it. *)
(***************************************************************************)
EXTENDS Invitations

CONSTANTS
    Handlers,       \* requests served at the same time
    NoHandler       \* a lock nobody has

ASSUME RequestsAssumption == NoHandler \notin Handlers

VARIABLES
    expired,        \* invitations past their expiresAt
    request,        \* request[p]: what handler p works on, and how far it is
    rowLock,        \* rowLock[i]: the transaction that holds invitation row i
    campaignLock    \* the transaction that holds the campaign row FOR UPDATE

locks == <<rowLock, campaignLock>>
vars == <<rows, expired, request, locks>>

Idle == [op |-> "idle"]
\* The role that create and changeRole grant is chosen when it is written: no step
\* before depends on it.
Request ==
    [op : {"create"}, step : {"checked"}]
    \cup [op : {"revoke"}, id : InvitationId, step : {"checked"}]
    \cup [op : {"accept"}, user : Users, id : InvitationId,
          step : {"found", "newcomer", "claimed"}]
    \cup [op : {"changeRole", "removeMember"}, user : Users, step : {"checked"}]
    \cup [op : {"removeCampaign"}, step : {"checked", "locked"}]

Usable(i) == Open(i) /\ i \notin expired

RequestsInit ==
    /\ InvitationsInit
    /\ expired = {}
    /\ request = [p \in Handlers |-> Idle]
    /\ rowLock = [i \in InvitationId |-> NoHandler]
    /\ campaignLock = NoHandler

At(p, op, step) == request[p].op = op /\ request[p].step = step
Advance(p, step) == request' = [request EXCEPT ![p].step = step]

\* The answer is sent: the transaction, if any, has ended and holds no lock.
Finish(p) ==
    /\ request' = [request EXCEPT ![p] = Idle]
    /\ rowLock' = [i \in InvitationId |-> IF rowLock[i] = p THEN NoHandler ELSE rowLock[i]]
    /\ campaignLock' = IF campaignLock = p THEN NoHandler ELSE campaignLock
    /\ UNCHANGED expired

-----------------------------------------------------------------------------
(* A request arrives and passes the check that takes no lock: requireOwner   *)
(* for the master's requests, findUsableInvitation for an invitee's.         *)

Start(p) ==
    /\ request[p] = Idle
    /\ \E r \in Request :
        /\ \/ r.op = "accept" /\ r.step = "found" /\ Usable(r.id)
           \/ r.op # "accept" /\ r.step = "checked" /\ IsMember(Master)
        /\ request' = [request EXCEPT ![p] = r]
    /\ UNCHANGED <<rows, expired, locks>>

\* The new row's foreign key needs the campaign row.
Create(p) ==
    /\ At(p, "create", "checked")
    /\ campaignLock = NoHandler
    /\ \E i \in InvitationId, r \in GrantedRoles : CreateInvitation(i, r)
    /\ Finish(p)

Revoke(p) ==
    /\ At(p, "revoke", "checked")
    /\ rowLock[request[p].id] = NoHandler
    /\ RevokeInvitation(request[p].id)
    /\ Finish(p)

\* accept: inside the transaction, is the user a member already?
CheckMember(p) ==
    /\ At(p, "accept", "found")
    /\ ~IsMember(request[p].user)
    /\ Advance(p, "newcomer")
    /\ UNCHANGED <<rows, expired, locks>>

\* Mutant: the update of the invitation does not repeat the conditions.
ClaimAny(p) ==
    /\ At(p, "accept", "newcomer")
    /\ rowLock[request[p].id] = NoHandler
    /\ Issued(request[p].id)
    /\ rowLock' = [rowLock EXCEPT ![request[p].id] = p]
    /\ Advance(p, "claimed")
    /\ UNCHANGED <<rows, expired, campaignLock>>

\* Mutant: the link is claimed before the transaction, not in it.
ClaimAtOnce(p) ==
    /\ At(p, "accept", "newcomer")
    /\ rowLock[request[p].id] = NoHandler
    /\ Usable(request[p].id)
    /\ invitation' = [invitation EXCEPT ![request[p].id].acceptedBy = request[p].user]
    /\ rowLock' = [rowLock EXCEPT ![request[p].id] = p]
    /\ Advance(p, "claimed")
    /\ UNCHANGED <<member, removed, expired, campaignLock>>

\* accept: the conditional update waits for the row, looks at it again, and keeps
\* it until the transaction ends.
Claim(p) ==
    /\ At(p, "accept", "newcomer")
    /\ rowLock[request[p].id] = NoHandler
    /\ Usable(request[p].id)
    /\ rowLock' = [rowLock EXCEPT ![request[p].id] = p]
    /\ Advance(p, "claimed")
    /\ UNCHANGED <<rows, expired, campaignLock>>

\* Mutant: nothing keeps a user from a second membership row.
JoinAgain(p) ==
    LET r == request[p] IN
    /\ At(p, "accept", "claimed")
    /\ campaignLock = NoHandler
    /\ invitation' = [invitation EXCEPT ![r.id].acceptedBy = r.user]
    /\ member' = [member EXCEPT ![r.user] = invitation[r.id].role]
    /\ removed' = removed \ {r.user}
    /\ Finish(p)

\* accept: the insert waits for the campaign row and for the unique (user,
\* campaign) index; then the transaction commits.
Join(p) ==
    LET r == request[p] IN
    /\ At(p, "accept", "claimed")
    /\ campaignLock = NoHandler
    /\ ~IsMember(r.user)
    /\ invitation' = [invitation EXCEPT ![r.id].acceptedBy = r.user]
    /\ member' = [member EXCEPT ![r.user] = invitation[r.id].role]
    /\ removed' = removed \ {r.user}
    /\ Finish(p)

\* CampaignMemberService.update: lock, check again, write the role, commit.
Reassign(p) ==
    /\ At(p, "changeRole", "checked")
    /\ campaignLock = NoHandler
    /\ IsMember(Master)
    /\ \E r \in GrantedRoles : ChangeRole(request[p].user, r)
    /\ Finish(p)

\* CampaignMemberService.remove: lock, check again, delete, commit.
Remove(p) ==
    /\ At(p, "removeMember", "checked")
    /\ campaignLock = NoHandler
    /\ IsMember(Master)
    /\ RemoveMember(request[p].user)
    /\ Finish(p)

\* CampaignService.remove: the campaign row first ...
LockCampaign(p) ==
    /\ At(p, "removeCampaign", "checked")
    /\ campaignLock = NoHandler
    /\ IsMember(Master)
    /\ campaignLock' = p
    /\ Advance(p, "locked")
    /\ UNCHANGED <<rows, expired, rowLock>>

\* ... then every row of the campaign, the invitations included.
DeleteCampaign(p) ==
    /\ At(p, "removeCampaign", "locked")
    /\ \A i \in InvitationId : rowLock[i] = NoHandler
    /\ RemoveCampaign
    /\ Finish(p)

-----------------------------------------------------------------------------
(* Requests that are answered with an error; a transaction rolls back.       *)

\* The next check of p, made with the row it waits for, refuses the request.
Refused(p) ==
    LET r == request[p] IN
    \/ At(p, "create", "checked") /\ ~IsMember(Master)
    \/ At(p, "create", "checked") /\ InvitationId \subseteq DOMAIN invitation
    \/ At(p, "revoke", "checked") /\ rowLock[r.id] = NoHandler /\ ~Open(r.id)
    \/ At(p, "accept", "found") /\ IsMember(r.user)
    \/ At(p, "accept", "newcomer") /\ rowLock[r.id] = NoHandler /\ ~Usable(r.id)
    \/ At(p, "accept", "claimed") /\ campaignLock = NoHandler /\ IsMember(r.user)
    \/ /\ At(p, "changeRole", "checked") \/ At(p, "removeMember", "checked")
       /\ campaignLock = NoHandler
       /\ ~IsMember(Master) \/ r.user = Master \/ ~IsMember(r.user)
    \/ At(p, "removeCampaign", "checked") /\ campaignLock = NoHandler /\ ~IsMember(Master)

\* Mutant: the error path leaves the transaction open.
RefuseWithoutRollback(p) ==
    /\ Refused(p)
    /\ request' = [request EXCEPT ![p] = Idle]
    /\ UNCHANGED <<rows, expired, locks>>

Refuse(p) ==
    /\ Refused(p)
    /\ Finish(p)
    /\ UNCHANGED rows

\* An acceptance that has its invitation waits for the campaign row, and the
\* deletion that has the campaign row waits for the invitation.
WaitForEachOther(p, q) ==
    /\ At(p, "accept", "claimed") /\ campaignLock = q
    /\ At(q, "removeCampaign", "locked")

\* The database finds the cycle and ends one of the two transactions.
BreakDeadlock(p) ==
    /\ \E q \in Handlers : WaitForEachOther(p, q) \/ WaitForEachOther(q, p)
    /\ Finish(p)
    /\ UNCHANGED rows

\* The connection or the process is lost.
Fail(p) ==
    /\ request[p] # Idle
    /\ Finish(p)
    /\ UNCHANGED rows

Expire(i) ==
    /\ Issued(i)
    /\ i \notin expired
    /\ expired' = expired \cup {i}
    /\ UNCHANGED <<rows, request, locks>>

Step(p) ==
    \/ Create(p) \/ Revoke(p) \/ CheckMember(p) \/ Claim(p) \/ Join(p)
    \/ Reassign(p) \/ Remove(p) \/ LockCampaign(p) \/ DeleteCampaign(p) \/ Refuse(p)

RequestsNext ==
    \/ \E p \in Handlers : Start(p) \/ Step(p) \/ BreakDeadlock(p) \/ Fail(p)
    \/ \E i \in InvitationId : Expire(i)

\* A handler goes on when its next statement can, and one that waits for a row is
\* not overtaken for ever: the database queues those who wait for a row, and it
\* detects deadlocks (deadlock_timeout).
Fairness ==
    /\ \A p \in Handlers : SF_vars(Step(p))
    /\ WF_vars(\E p \in Handlers : BreakDeadlock(p))

RequestsSpec == RequestsInit /\ [][RequestsNext]_vars /\ Fairness

-----------------------------------------------------------------------------
RequestsTypeOK ==
    /\ InvitationsTypeOK
    /\ expired \subseteq InvitationId
    /\ request \in [Handlers -> Request \cup {Idle}]
    /\ rowLock \in [InvitationId -> Handlers \cup {NoHandler}]
    /\ campaignLock \in Handlers \cup {NoHandler}

\* An acceptance that has claimed its link keeps it: until it ends nobody else
\* uses, revokes or deletes the invitation.
ClaimsHold ==
    \A p \in Handlers : At(p, "accept", "claimed") =>
        rowLock[request[p].id] = p /\ Open(request[p].id)

\* Every request is answered: handlers that wait for one another's rows are
\* never stuck for good, whatever acceptances and a deletion meet.
EveryRequestAnswered == \A p \in Handlers : request[p] # Idle ~> request[p] = Idle
=============================================================================
