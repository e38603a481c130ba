--------------------------- MODULE CampaignAtomic ---------------------------
(***************************************************************************)
(* What the backend promises about one campaign: every request that needs  *)
(* the lock takes effect in one step, at a moment when the requester may   *)
(* still make it and the rows it relies on are still there.                *)
(***************************************************************************)
EXTENDS CampaignOperations

\* A request takes effect.  Those that run without the lock are only promised
\* that the database accepts them.
Perform(r) ==
    /\ r.op \in Operations
    /\ NeedsLock(r) => Granted(r)
    /\ Accepted(r)
    /\ Writes(r, Doomed(r))

AtomicNext ==
    \/ \E r \in Request : Perform(r)
    \/ \E u \in Users, r \in AssignableRole : JoinCampaign(u, r)

AtomicSpec == ContentInit /\ [][AtomicNext]_content

-----------------------------------------------------------------------------
TypeOK ==
    /\ role \in [Users -> Role \cup {"NONE"}]
    /\ element \in [ElementId -> ElementRow \cup Mark]
    /\ character \in [CharacterId -> CharacterRow \cup Mark]
    /\ card \in [CardId -> Source \cup Mark]
    /\ link \in [LinkId -> LinkRow \cup Mark]
    /\ text \in [EntityId -> Texts]
    /\ views \subseteq Users \X EntityId

\* Every card on the board is visible to the members: a reference card points at
\* a row that exists, and at an element only while the element is SHARED
\* (board-access.ts; setAccess, remove and createCard keep it so).
NoHiddenCards == \A c \in CardId : HasRow(card, c) => VisibleCard(c)

\* At most one card per element or character on the board (assertNoReference and
\* the partial unique indexes of investigation_cards).
OneCardPerSource ==
    \A c, d \in CardId :
        HasRow(card, c) /\ card[c] = card[d] /\ card[c] # Free => c = d

\* Links join two different cards that are both on the board, smaller id first,
\* and no two links join the same pair, whichever card the user named first
\* (createLink sorts the ids, the unique index and the cascade do the rest).
LinksWellFormed ==
    \A l \in LinkId : HasRow(link, l) =>
        /\ HasRow(card, link[l][1]) /\ HasRow(card, link[l][2])
        /\ link[l][1] < link[l][2]
        /\ \A k \in LinkId : link[k] = link[l] => k = l

\* entity_views has no foreign key to the entity it names: a marker outlives
\* neither its member nor the element, card or link that was seen, although the
\* entity may go in a cascade (clearCardViews, element and board services).
NoOrphanViews == \A v \in views : IsMember(v[1]) /\ Exists(v[2])

\* A campaign that exists has the account that created it as its only OWNER, and
\* one that does not exist has no members (campaign-member.service, accept).
OneOwner ==
    \A u \in Users : IF u = Master THEN role[u] \in {"OWNER", "NONE"}
                     ELSE role[u] # "NONE" => role[u] # "OWNER" /\ CampaignExists

\* The master has no PRIVATE element, whatever the order of role and access
\* changes (validateAccess runs on the role read under the lock).
MasterHasNothingPrivate ==
    \A e \in ElementId : HasRow(element, e) /\ element[e].access = "PRIVATE"
        => element[e].author # Master

\* A player has at most one active character, across create and update.
OneActiveCharacter ==
    \A h, k \in CharacterId :
        /\ HasRow(character, h) /\ character[h].active
        /\ HasRow(character, k) /\ character[k].active
        /\ character[h].owner = character[k].owner
        => h = k

\* When the campaign is deleted everything in it goes with it.
NothingLeftBehind ==
    ~CampaignExists =>
        /\ \A u \in Users : role[u] = "NONE"
        /\ \A i \in EntityId : ~Exists(i)
        /\ \A h \in CharacterId : ~HasRow(character, h)

\* A campaign is owned by the account that created it, or it is gone with all it had.
OwnedOrGone == OneOwner /\ NothingLeftBehind

Consistent ==
    /\ NoHiddenCards /\ OneCardPerSource /\ LinksWellFormed /\ NoOrphanViews
    /\ OneOwner /\ MasterHasNothingPrivate /\ OneActiveCharacter
    /\ NothingLeftBehind
=============================================================================
