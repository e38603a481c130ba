----------------------- MODULE CampaignRequests_proofs -----------------------
(***************************************************************************)
(* The handlers implement the atomic specification, for any number of      *)
(* handlers, users and rows; so the rows stay consistent although each     *)
(* request is checked before its transaction and runs in several steps.    *)
(***************************************************************************)
EXTENDS CampaignRequests, CampaignAtomic_proofs

\* A handler only works on requests the clients send.
RequestsServed ==
    \A p \in Handlers : request[p] # NoRequest => request[p].op \in Operations

\* The inductive invariant: types, and what holds under the campaign lock.
RequestsInv == RequestsTypeOK /\ RequestsServed /\ LockedReadsHold

-----------------------------------------------------------------------------
LEMMA InitInv == RequestsInit => RequestsInv
<1> SUFFICES ASSUME RequestsInit PROVE RequestsInv
  OBVIOUS
<1>1. TypeOK
  BY ContentAssumption DEF RequestsInit, ContentInit, TypeOK, Role, Mark
<1>2. lock \notin Handlers
  BY RequestsAssumption DEF RequestsInit
<1> QED BY <1>1, <1>2 DEF RequestsInit, RequestsInv, RequestsTypeOK, RequestsServed,
              LockedReadsHold

LEMMA FinishType ==
    ASSUME RequestsTypeOK, NEW p \in Handlers, Finish(p)
    PROVE  /\ request' \in [Handlers -> Request \cup {NoRequest}]
           /\ lock' \in Handlers \cup {NoHandler}
           /\ seen' \in [Handlers -> SUBSET EntityId]
           /\ lock' # p
           /\ request'[p] = NoRequest
           /\ \A q \in Handlers \ {p} : request'[q] = request[q] /\ seen'[q] = seen[q]
  BY RequestsAssumption DEF RequestsTypeOK, Finish

\* What a transaction reads under the lock, when these rows do not change.
LEMMA ReadsStable ==
    ASSUME NEW q \in Handlers, request'[q] = request[q],
           UNCHANGED <<role, element, character, card, link>>
    PROVE  /\ Granted(request[q])' <=> Granted(request[q])
           /\ Doomed(request[q])' = Doomed(request[q])
<1>1. Granted(request[q])' <=> Granted(request[q])
  BY DEF Granted, ElementGranted, BoardGranted, ViewsGranted, CharacterGranted,
         MemberGranted, IsContributor, ValidAccess, Editable, HasRow, SourceAvailable, CardsOf,
         VisibleCard, VisibleLink, IsMember, Visible, Readable, Manageable
<1>2. Doomed(request[q])' = Doomed(request[q])
  BY DEF Doomed, CardViews, CardsOf, LinksAt, HasRow
<1> QED BY <1>1, <1>2

\* Ids that a transaction clears views of are entities.
LEMMA DoomedType ==
    ASSUME NEW r \in Request
    PROVE  Doomed(r) \subseteq EntityId
  BY RequestFields DEF Doomed, CardViews, CardsOf, LinksAt, EntityId

\* A handler without the lock runs only these two operations, which clear no views.
LEMMA UnlockedRequest ==
    ASSUME NEW r \in Request, ~NeedsLock(r)
    PROVE  r.op \in UnlockedOperation /\ Doomed(r) = {}
<1>1. r.op \in UnlockedOperation
  BY RequestFields DEF NeedsLock
<1> QED BY <1>1 DEF Doomed, UnlockedOperation

-----------------------------------------------------------------------------
LEMMA StartInv ==
    ASSUME RequestsInv, NEW p \in Handlers, Start(p)
    PROVE  RequestsInv'
<1>1. PICK r \in Request : r.op \in Operations /\ request' = [request EXCEPT ![p] = r]
  BY DEF Start
<1>2. UNCHANGED <<content, lock, seen>> /\ request[p] = NoRequest
  BY DEF Start
<1>3. RequestsTypeOK'
  BY <1>1, <1>2 DEF RequestsInv, RequestsTypeOK, TypeOK, content
<1>4. RequestsServed'
  BY <1>1 DEF RequestsInv, RequestsServed, RequestsTypeOK
<1>5. LockedReadsHold'
  <2> SUFFICES ASSUME NEW q \in Handlers, lock = q
               PROVE  /\ request'[q] # NoRequest /\ NeedsLock(request[q])'
                      /\ Granted(request[q])' /\ seen[q] = Doomed(request[q])'
    BY <1>2 DEF LockedReadsHold
  <2>1. /\ request[q] # NoRequest /\ NeedsLock(request[q])
        /\ Granted(request[q]) /\ seen[q] = Doomed(request[q])
    BY DEF RequestsInv, LockedReadsHold
  <2>2. request'[q] = request[q]
    BY <1>1, <1>2, <2>1 DEF RequestsInv, RequestsTypeOK
  <2> QED BY <1>2, <2>1, <2>2, ReadsStable DEF NeedsLock, content
<1> QED BY <1>3, <1>4, <1>5 DEF RequestsInv

LEMMA BeginInv ==
    ASSUME RequestsInv, NEW p \in Handlers, Begin(p)
    PROVE  RequestsInv'
<1>1. /\ request[p] # NoRequest /\ NeedsLock(request[p]) /\ Granted(request[p])
      /\ lock' = p
      /\ seen' = [seen EXCEPT ![p] = Doomed(request[p])]
      /\ UNCHANGED <<content, request>>
  BY DEF Begin
<1>2. request[p] \in Request
  BY <1>1 DEF RequestsInv, RequestsTypeOK
<1>3. RequestsTypeOK'
  BY <1>1, <1>2, DoomedType DEF RequestsInv, RequestsTypeOK, TypeOK, content
<1>4. RequestsServed'
  BY <1>1 DEF RequestsInv, RequestsServed
<1>5. LockedReadsHold'
  <2>1. seen'[p] = Doomed(request[p])
    BY <1>1 DEF RequestsInv, RequestsTypeOK
  <2>2. Granted(request[p])' /\ Doomed(request[p])' = Doomed(request[p])
    BY <1>1, ReadsStable DEF content
  <2> QED BY <1>1, <2>1, <2>2 DEF LockedReadsHold, NeedsLock
<1> QED BY <1>3, <1>4, <1>5 DEF RequestsInv

\* When a handler finishes while no other holds the lock, none holds it after.
LEMMA FinishInv ==
    ASSUME RequestsInv, NEW p \in Handlers, Finish(p), TypeOK',
           lock \in {p, NoHandler} \/ UNCHANGED <<role, element, character, card, link>>
    PROVE  RequestsInv'
<1>1. RequestsTypeOK'
  BY FinishType DEF RequestsInv, RequestsTypeOK
<1>2. RequestsServed'
  BY FinishType DEF RequestsInv, RequestsServed
<1>3. LockedReadsHold'
  <2> SUFFICES ASSUME NEW q \in Handlers, lock' = q
               PROVE  /\ request'[q] # NoRequest /\ NeedsLock(request[q])'
                      /\ Granted(request[q])' /\ seen'[q] = Doomed(request[q])'
    BY DEF LockedReadsHold
  <2>1. lock = q /\ q # p
    BY FinishType, RequestsAssumption DEF Finish, RequestsInv
  <2>2. /\ request[q] # NoRequest /\ NeedsLock(request[q])
        /\ Granted(request[q]) /\ seen[q] = Doomed(request[q])
    BY <2>1 DEF RequestsInv, LockedReadsHold
  <2>3. UNCHANGED <<role, element, character, card, link>>
    BY <2>1, RequestsAssumption
  <2>4. request'[q] = request[q] /\ seen'[q] = seen[q]
    BY <2>1, FinishType DEF RequestsInv
  <2> QED BY <2>2, <2>3, <2>4, ReadsStable DEF NeedsLock
<1> QED BY <1>1, <1>2, <1>3 DEF RequestsInv

LEMMA CommitInv ==
    ASSUME RequestsInv, NEW p \in Handlers, Commit(p)
    PROVE  RequestsInv'
<1>1. lock = p /\ request[p] \in Request
  BY DEF Commit, RequestsInv, RequestsTypeOK, LockedReadsHold
<1>2. TypeOK'
  BY <1>1, WritesType DEF Commit, RequestsInv, RequestsTypeOK
<1> QED BY <1>1, <1>2, FinishInv DEF Commit

LEMMA WriteInv ==
    ASSUME RequestsInv, NEW p \in Handlers, Write(p)
    PROVE  RequestsInv'
<1>1. request[p] \in Request /\ ~NeedsLock(request[p]) /\ Finish(p)
  BY DEF Write, RequestsInv, RequestsTypeOK
<1>2. TypeOK'
  BY <1>1, WritesType DEF Write, RequestsInv, RequestsTypeOK
<1>3. request[p].op \in UnlockedOperation
  BY <1>1, UnlockedRequest
<1>4. CASE request[p].op = "createCharacter"
  BY <1>1, <1>2, <1>4, FinishInv DEF Write
<1>5. CASE request[p].op = "updateText"
  <2>1. UpdateText(request[p])
    BY <1>5 DEF Write, Writes, CreateElement, SetAccess, RemoveElement, CreateCard, DeleteCard,
       CreateLink, DeleteLink, RecordViews, CreateCharacter, UpdateCharacter, RemoveCharacter,
       UpdateMember, RemoveMember, RemoveCampaign
  <2> QED BY <1>1, <1>2, <2>1, FinishInv DEF UpdateText
<1> QED BY <1>3, <1>4, <1>5 DEF UnlockedOperation

LEMMA NextInv ==
    ASSUME RequestsInv, [RequestsNext]_vars
    PROVE  RequestsInv'
<1>1. ASSUME NEW p \in Handlers, Start(p) PROVE RequestsInv'
  BY <1>1, StartInv
<1>2. ASSUME NEW p \in Handlers, Begin(p) PROVE RequestsInv'
  BY <1>2, BeginInv
<1>3. ASSUME NEW p \in Handlers, Commit(p) PROVE RequestsInv'
  BY <1>3, CommitInv
<1>4. ASSUME NEW p \in Handlers, Write(p) PROVE RequestsInv'
  BY <1>4, WriteInv
<1>5. ASSUME NEW p \in Handlers, Fail(p) PROVE RequestsInv'
  <2>1. TypeOK'
    BY <1>5 DEF Fail, RequestsInv, RequestsTypeOK, TypeOK, content
  <2> QED BY <1>5, <2>1, FinishInv DEF Fail, content
<1>6. ASSUME NEW u \in Users, NEW a \in AssignableRole, Join(u, a) PROVE RequestsInv'
  <2>1. TypeOK'
    BY <1>6 DEF Join, JoinCampaign, RequestsInv, RequestsTypeOK, TypeOK, Role, AssignableRole
  <2>2. RequestsTypeOK' /\ RequestsServed'
    BY <1>6, <2>1 DEF Join, RequestsInv, RequestsTypeOK, RequestsServed
  <2>3. LockedReadsHold'
    BY <1>6, RequestsAssumption DEF Join, LockedReadsHold
  <2> QED BY <2>2, <2>3 DEF RequestsInv
<1>7. CASE UNCHANGED vars
  <2>1. RequestsTypeOK' /\ RequestsServed'
    BY <1>7 DEF vars, content, RequestsInv, RequestsTypeOK, TypeOK, RequestsServed
  <2>2. LockedReadsHold'
    BY <1>7, ReadsStable DEF vars, content, RequestsInv, LockedReadsHold, NeedsLock
  <2> QED BY <2>1, <2>2 DEF RequestsInv
<1> QED BY <1>1, <1>2, <1>3, <1>4, <1>5, <1>6, <1>7 DEF RequestsNext

\* What a transaction reads under the campaign lock holds until it commits.
THEOREM ReadsHoldUnderLock == RequestsSpec => [](RequestsTypeOK /\ LockedReadsHold)
<1>1. RequestsInv /\ [RequestsNext]_vars => RequestsInv'
  BY NextInv
<1>2. RequestsInv => RequestsTypeOK /\ LockedReadsHold
  BY DEF RequestsInv
<1> QED BY <1>1, <1>2, InitInv, PTL DEF RequestsSpec

-----------------------------------------------------------------------------
LEMMA StepImplements ==
    ASSUME RequestsInv, [RequestsNext]_vars
    PROVE  [AtomicNext]_content
<1>1. ASSUME NEW p \in Handlers, Commit(p) PROVE AtomicNext
  <2>1. request[p] \in Request /\ request[p].op \in Operations
    BY <1>1 DEF Commit, RequestsInv, RequestsTypeOK, RequestsServed, LockedReadsHold
  <2>2. Granted(request[p]) /\ seen[p] = Doomed(request[p])
    BY <1>1 DEF Commit, RequestsInv, LockedReadsHold
  <2>3. Perform(request[p])
    BY <1>1, <2>1, <2>2 DEF Commit, Perform
  <2> QED BY <2>1, <2>3 DEF AtomicNext
<1>2. ASSUME NEW p \in Handlers, Write(p) PROVE AtomicNext
  <2>1. request[p] \in Request /\ request[p].op \in Operations /\ ~NeedsLock(request[p])
    BY <1>2 DEF Write, RequestsInv, RequestsTypeOK, RequestsServed
  <2>2. Doomed(request[p]) = {}
    BY <2>1, UnlockedRequest
  <2>3. Perform(request[p])
    BY <1>2, <2>1, <2>2 DEF Write, Perform
  <2> QED BY <2>1, <2>3 DEF AtomicNext
<1>3. ASSUME NEW p \in Handlers, Start(p) \/ Begin(p) \/ Fail(p) PROVE UNCHANGED content
  BY <1>3 DEF Start, Begin, Fail
<1>4. ASSUME NEW u \in Users, NEW a \in AssignableRole, Join(u, a) PROVE AtomicNext
  BY <1>4 DEF Join, AtomicNext
<1>5. CASE UNCHANGED vars
  BY <1>5 DEF vars
<1> QED BY <1>1, <1>2, <1>3, <1>4, <1>5 DEF RequestsNext

\* The handlers implement the atomic specification of the campaign.
THEOREM RequestsImplementAtomic == RequestsSpec => AtomicSpec
<1>1. RequestsInit => ContentInit
  BY DEF RequestsInit
<1>2. RequestsInv /\ [RequestsNext]_vars => RequestsInv'
  BY NextInv
<1>3. RequestsInv /\ [RequestsNext]_vars => [AtomicNext]_content
  BY StepImplements
<1> QED BY <1>1, <1>2, <1>3, InitInv, PTL DEF RequestsSpec, AtomicSpec

\* So everything the atomic specification keeps holds of the running backend.
THEOREM RequestsKeepConsistent == RequestsSpec => []Consistent
  BY RequestsImplementAtomic, AlwaysConsistent, PTL
\* However requests interleave, no card of the board shows a source its readers may not see.
THEOREM CardsStayVisible == RequestsSpec => []NoHiddenCards
<1>1. Consistent => NoHiddenCards
  BY DEF Consistent
<1> QED BY <1>1, RequestsKeepConsistent, PTL

\* However requests interleave, an element or a character has one card at most.
THEOREM SourcesHaveOneCard == RequestsSpec => []OneCardPerSource
<1>1. Consistent => OneCardPerSource
  BY DEF Consistent
<1> QED BY <1>1, RequestsKeepConsistent, PTL

\* However requests interleave, a link joins two cards of the board, once and in order.
THEOREM LinksStayWellFormed == RequestsSpec => []LinksWellFormed
<1>1. Consistent => LinksWellFormed
  BY DEF Consistent
<1> QED BY <1>1, RequestsKeepConsistent, PTL

\* However requests interleave, a view mark outlives neither its member nor its entity.
THEOREM ViewsHaveOwners == RequestsSpec => []NoOrphanViews
<1>1. Consistent => NoOrphanViews
  BY DEF Consistent
<1> QED BY <1>1, RequestsKeepConsistent, PTL

\* However requests interleave, the creating account is the only master, and nothing of a
\* deleted campaign stays.
THEOREM CampaignOwnedOrGone == RequestsSpec => []OwnedOrGone
<1>1. Consistent => OwnedOrGone
  BY DEF Consistent, OwnedOrGone
<1> QED BY <1>1, RequestsKeepConsistent, PTL

\* However requests interleave, the master has no PRIVATE element.
THEOREM MasterKeepsNothingPrivate == RequestsSpec => []MasterHasNothingPrivate
<1>1. Consistent => MasterHasNothingPrivate
  BY DEF Consistent
<1> QED BY <1>1, RequestsKeepConsistent, PTL

\* However requests interleave, a player has one active character at most.
THEOREM PlayersHaveOneActiveCharacter == RequestsSpec => []OneActiveCharacter
<1>1. Consistent => OneActiveCharacter
  BY DEF Consistent
<1> QED BY <1>1, RequestsKeepConsistent, PTL

\* However requests interleave, the rows, the requests under way, the lock and the reads under it keep their types.
THEOREM RequestsTypeCorrect == RequestsSpec => []RequestsTypeOK
  BY ReadsHoldUnderLock, PTL
=============================================================================
