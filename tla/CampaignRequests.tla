-------------------------- MODULE CampaignRequests --------------------------
(***************************************************************************)
(* How the services run the requests of CampaignOperations.  A handler     *)
(* first checks the request outside any transaction; then most handlers    *)
(* open a transaction that locks the campaign row (lockCampaignMember in   *)
(* campaign-write.ts), reads the role and the rows again, writes, and      *)
(* commits.  Between these steps the handlers of other requests run.  The  *)
(* writes of a transaction become visible together, at its commit.         *)
(***************************************************************************)
EXTENDS CampaignAtomic

CONSTANTS
    Handlers,       \* requests the backend serves at the same time
    NoRequest,      \* an idle handler
    NoHandler       \* the campaign row is not locked

ASSUME RequestsAssumption == NoRequest \notin Request /\ NoHandler \notin Handlers

VARIABLES
    request,    \* request[p]: what handler p works on
    lock,       \* the handler whose transaction locks the campaign row
    seen        \* seen[p]: the entities whose views p's transaction will delete

vars == <<content, request, lock, seen>>

RequestsInit ==
    /\ ContentInit
    /\ request = [p \in Handlers |-> NoRequest]
    /\ lock = NoHandler
    /\ seen = [p \in Handlers |-> {}]

Finish(p) ==
    /\ request' = [request EXCEPT ![p] = NoRequest]
    /\ lock' = IF lock = p THEN NoHandler ELSE lock
    /\ seen' = [seen EXCEPT ![p] = {}]

\* A request arrives and passes the check made outside the transaction.
Start(p) ==
    /\ request[p] = NoRequest
    /\ \E r \in Request :
        /\ r.op \in Operations
        /\ PreCheck(r)
        /\ request' = [request EXCEPT ![p] = r]
    /\ UNCHANGED <<content, lock, seen>>

\* Mutant: the transaction trusts the check made before it.
BeginUnchecked(p) ==
    /\ request[p] # NoRequest
    /\ NeedsLock(request[p])
    /\ lock = NoHandler
    /\ lock' = p
    /\ seen' = [seen EXCEPT ![p] = Doomed(request[p])]
    /\ UNCHANGED <<content, request>>

\* lockCampaignMember gets the row lock, and the transaction reads what it needs.
Begin(p) ==
    /\ request[p] # NoRequest
    /\ NeedsLock(request[p])
    /\ lock = NoHandler
    /\ Granted(request[p])
    /\ lock' = p
    /\ seen' = [seen EXCEPT ![p] = Doomed(request[p])]
    /\ UNCHANGED <<content, request>>

\* The writes of a locked transaction, and its commit.
Commit(p) ==
    /\ lock = p
    /\ Accepted(request[p])
    /\ Writes(request[p], seen[p])
    /\ Finish(p)

\* A handler that takes no lock writes: a new character, or a text.  The new
\* row's foreign key to the campaign waits for whoever holds the campaign row.
Write(p) ==
    /\ request[p] # NoRequest
    /\ ~NeedsLock(request[p])
    /\ request[p].op = "createCharacter" => lock = NoHandler
    /\ Accepted(request[p])
    /\ Writes(request[p], {})
    /\ Finish(p)

\* The handler answers with an error and nothing is written: the second check
\* or a constraint refused the request, the connection broke, or the process
\* stopped and the database rolled the transaction back.
Fail(p) ==
    /\ request[p] # NoRequest
    /\ Finish(p)
    /\ UNCHANGED content

Join(u, r) ==
    /\ lock = NoHandler
    /\ JoinCampaign(u, r)
    /\ UNCHANGED <<request, lock, seen>>

RequestsNext ==
    \/ \E p \in Handlers : Start(p) \/ Begin(p) \/ Commit(p) \/ Write(p) \/ Fail(p)
    \/ \E u \in Users, r \in AssignableRole : Join(u, r)

RequestsSpec == RequestsInit /\ [][RequestsNext]_vars

-----------------------------------------------------------------------------
RequestsTypeOK ==
    /\ TypeOK
    /\ request \in [Handlers -> Request \cup {NoRequest}]
    /\ lock \in Handlers \cup {NoHandler}
    /\ seen \in [Handlers -> SUBSET EntityId]

\* What a transaction read under the campaign lock still holds when it commits:
\* no other handler's step, locked or not, takes it away ("All view writes and
\* source lifecycle mutations lock the campaign first", campaign-write.ts).
LockedReadsHold ==
    \A p \in Handlers : lock = p =>
        /\ request[p] # NoRequest
        /\ NeedsLock(request[p])
        /\ Granted(request[p])
        /\ seen[p] = Doomed(request[p])

\* "Authors keep rights on their elements only while they remain the campaign
\* owner or a PLAYER member" (element-access.ts): an element's text changes only
\* while its author is one.
AuthorsWriteAsContributors ==
    [][\A e \in ElementId :
         text'[e] # text[e] => IsContributor(element[e].author)]_vars
=============================================================================
