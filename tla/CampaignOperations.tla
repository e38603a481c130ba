-------------------------- MODULE CampaignOperations --------------------------
(***************************************************************************)
(* The requests the backend serves for one campaign: what each one checks  *)
(* before its transaction, what it checks again inside, what the database  *)
(* refuses, and the rows it writes.                                        *)
(***************************************************************************)
EXTENDS CampaignContent

CONSTANTS
    Operations,     \* the operations the clients use
    MaxBatch        \* how many entities one recordViews request may name

LockedOperation ==
    {"createElement", "setAccess", "removeElement", "createCard", "deleteCard",
     "createLink", "deleteLink", "recordViews", "updateCharacter",
     "removeCharacter", "updateMember", "removeMember", "removeCampaign"}
UnlockedOperation == {"createCharacter", "updateText"}

ASSUME OperationsAssumption ==
    Operations \subseteq LockedOperation \cup UnlockedOperation

\* Duplicates in a batch are dropped before anything is read.
Batch == {b \in SUBSET EntityId : Cardinality(b) \in 1 .. MaxBatch}

Request ==
    [op : {"createElement"}, user : Users, type : ElementType, access : Access]
    \cup [op : {"setAccess"}, user : Users, id : ElementId, access : Access]
    \cup [op : {"removeElement"}, user : Users, id : ElementId]
    \cup [op : {"createCard"}, user : Users, source : Source]
    \cup [op : {"deleteCard"}, user : Users, id : CardId]
    \cup [op : {"createLink"}, user : Users, a : CardId, b : CardId]
    \cup [op : {"deleteLink"}, user : Users, id : LinkId]
    \cup [op : {"recordViews"}, user : Users, ids : Batch]
    \cup [op : {"createCharacter"}, user : Users]
    \cup [op : {"updateCharacter"}, user : Users, id : CharacterId, active : BOOLEAN]
    \cup [op : {"removeCharacter"}, user : Users, id : CharacterId]
    \cup [op : {"updateText"}, user : Users, id : EntityId, text : Texts]
    \cup [op : {"updateMember"}, user : Users, member : Users, role : AssignableRole]
    \cup [op : {"removeMember"}, user : Users, member : Users]
    \cup [op : {"removeCampaign"}, user : Users]

\* Mutant: setAccess does not lock the campaign.
NeedsLockUnlessAccess(r) == r.op \in LockedOperation \ {"setAccess"}

NeedsLock(r) == r.op \in LockedOperation

-----------------------------------------------------------------------------
(* What the service reads before it opens the transaction, without a lock.  *)

ElementPreCheck(r) ==
    \/ /\ r.op = "createElement"
       /\ IsContributor(r.user)
       /\ role[r.user] = "OWNER" \/ r.type = "NOTE"
       /\ ValidAccess(r.user, r.access)
    \/ /\ r.op = "setAccess"
       /\ Editable(r.user, r.id)
       /\ ValidAccess(r.user, r.access)
    \/ r.op = "removeElement" /\ Editable(r.user, r.id)

BoardPreCheck(r) ==
    \/ r.op = "createCard" /\ IsContributor(r.user)
    \/ r.op = "deleteCard" /\ VisibleCard(r.id) /\ IsContributor(r.user)
    \/ r.op = "createLink" /\ IsContributor(r.user) /\ r.a # r.b
    \/ r.op = "deleteLink" /\ VisibleLink(r.id) /\ IsContributor(r.user)

CharacterPreCheck(r) ==
    \/ r.op = "createCharacter" /\ role[r.user] = "PLAYER"
    \/ /\ r.op \in {"updateCharacter", "removeCharacter"}
       /\ HasRow(character, r.id)
       /\ character[r.id].owner = r.user
       /\ role[r.user] = "PLAYER"

\* element update, updateCard and updateNode, updateLink.  What is written is not told apart: a
\* card of a material has tags, a colour and a place, but no title or text of its own.
TextPreCheck(r) ==
    /\ r.op = "updateText"
    /\ \/ r.id \in ElementId /\ Editable(r.user, r.id)
       \/ r.id \in CardId /\ VisibleCard(r.id) /\ IsContributor(r.user)
       \/ r.id \in LinkId /\ VisibleLink(r.id) /\ IsContributor(r.user)

PreCheck(r) ==
    \/ ElementPreCheck(r) \/ BoardPreCheck(r) \/ CharacterPreCheck(r) \/ TextPreCheck(r)
    \/ r.op = "recordViews" /\ IsMember(r.user)
    \/ /\ r.op \in {"updateMember", "removeMember", "removeCampaign"}
       /\ role[r.user] = "OWNER"

-----------------------------------------------------------------------------
(* What the transaction checks, once lockCampaignMember holds the campaign  *)
(* row and has read the requester's role again.                             *)

SourceAvailable(s) ==
    /\ s \in ElementId => HasRow(element, s) /\ element[s].access = "SHARED"
    /\ s \in CharacterId => HasRow(character, s)
    /\ s # Free => CardsOf(s) = {}

\* Mutant: the OWNER row is not protected.
AnyMember(u) == IsMember(u)

Manageable(u) == IsMember(u) /\ role[u] # "OWNER"

ElementGranted(r) ==
    \/ /\ r.op = "createElement"
       /\ IsContributor(r.user)
       /\ ValidAccess(r.user, r.access)
       /\ role[r.user] = "OWNER" \/ r.type = "NOTE"
    \/ /\ r.op = "setAccess"
       /\ ValidAccess(r.user, r.access)
       /\ Editable(r.user, r.id)
    \/ r.op = "removeElement" /\ Editable(r.user, r.id)

BoardGranted(r) ==
    /\ IsContributor(r.user)
    /\ \/ r.op = "createCard" /\ SourceAvailable(r.source)
       \/ r.op = "deleteCard" /\ VisibleCard(r.id)
       \/ r.op = "createLink" /\ r.a # r.b /\ VisibleCard(r.a) /\ VisibleCard(r.b)
       \/ r.op = "deleteLink" /\ VisibleLink(r.id)

ViewsGranted(r) ==
    /\ r.op = "recordViews"
    /\ IsMember(r.user)
    /\ \A i \in r.ids : Visible(r.user, i)

CharacterGranted(r) ==
    /\ role[r.user] = "PLAYER"
    /\ \/ r.op = "updateCharacter"
       \/ /\ r.op = "removeCharacter"
          /\ HasRow(character, r.id)
          /\ character[r.id].owner = r.user

MemberGranted(r) ==
    /\ r.op \in {"updateMember", "removeMember"}
    /\ role[r.user] = "OWNER"
    /\ Manageable(r.member)

Granted(r) ==
    \/ ElementGranted(r) \/ BoardGranted(r) \/ ViewsGranted(r)
    \/ CharacterGranted(r) \/ MemberGranted(r)
    \/ r.op = "removeCampaign" /\ role[r.user] = "OWNER"

\* Mutant: the links that go in the cascade are forgotten.
CardViewsWithoutLinks(cards) == cards

\* The board cards and links of the given cards, whose views clearCardViews deletes.
CardViews(cards) == cards \cup LinksAt(cards)

\* The entities whose views the transaction deletes, read under the lock.
Doomed(r) ==
    CASE r.op = "setAccess" /\ r.access # "SHARED" -> CardViews(CardsOf(r.id))
      [] r.op = "removeElement" -> CardViews(CardsOf(r.id)) \cup {r.id}
      [] r.op = "deleteCard" -> CardViews({r.id})
      [] r.op = "deleteLink" -> {r.id}
      [] r.op = "removeCharacter" -> CardViews(CardsOf(r.id))
      [] OTHER -> {}

\* What the database itself enforces when the rows are written: foreign keys,
\* unique indexes, and that an updated or deleted row is still there.
Accepted(r) ==
    CASE r.op \in {"createElement", "recordViews"} -> IsMember(r.user)
      [] r.op \in {"setAccess", "removeElement"} -> HasRow(element, r.id)
      [] r.op = "createCard" ->
            /\ IsMember(r.user)
            /\ r.source \in ElementId => HasRow(element, r.source)
            /\ r.source \in CharacterId => HasRow(character, r.source)
            /\ r.source # Free => CardsOf(r.source) = {}
      [] r.op = "deleteCard" -> HasRow(card, r.id)
      [] r.op = "createLink" ->
            /\ IsMember(r.user)
            /\ HasRow(card, r.a) /\ HasRow(card, r.b)
            /\ \A l \in LinkId : link[l] # Sorted(r.a, r.b)
      [] r.op = "deleteLink" -> HasRow(link, r.id)
      [] r.op = "createCharacter" ->
            CampaignExists /\ ~HasActiveCharacter(r.user, Free)
      [] r.op = "updateCharacter" ->
            /\ HasRow(character, r.id)
            /\ r.active => ~HasActiveCharacter(character[r.id].owner, r.id)
      [] r.op = "removeCharacter" -> HasRow(character, r.id)
      [] r.op = "updateText" -> Exists(r.id)
      [] r.op \in {"updateMember", "removeMember"} -> IsMember(r.member)
      [] r.op = "removeCampaign" -> CampaignExists

-----------------------------------------------------------------------------
(* What each request writes.  "seen" holds the entities whose views it       *)
(* deletes, as the transaction read them.                                    *)

Without(table, ids) ==
    [i \in DOMAIN table |-> IF i \in ids THEN Deleted ELSE table[i]]
Emptied(table) ==
    [i \in DOMAIN table |-> IF table[i] = Unused THEN Unused ELSE Deleted]
ViewsWithout(ids) == {v \in views : v[2] \notin ids}

\* Cards go with the links at them (ON DELETE CASCADE).
DropCards(cards) ==
    /\ card' = Without(card, cards)
    /\ link' = Without(link, LinksAt(cards))

CreateElement(r) ==
    /\ r.op = "createElement"
    /\ \E e \in ElementId :
        /\ element[e] = Unused
        /\ element' = [element EXCEPT ![e] = [author |-> r.user, access |-> r.access]]
        /\ views' = views \cup {<<r.user, e>>}
    /\ UNCHANGED <<role, character, card, link, text>>

\* Mutant: reference cards stay on the board.
SetAccessOnly(r, seen) ==
    /\ r.op = "setAccess"
    /\ element' = [element EXCEPT ![r.id].access = r.access]
    /\ UNCHANGED <<role, character, card, link, text, views>>

SetAccess(r, seen) ==
    /\ r.op = "setAccess"
    /\ element' = [element EXCEPT ![r.id].access = r.access]
    /\ views' = ViewsWithout(seen)
    /\ IF r.access # "SHARED" THEN DropCards(CardsOf(r.id)) ELSE UNCHANGED <<card, link>>
    /\ UNCHANGED <<role, character, text>>

RemoveElement(r, seen) ==
    /\ r.op = "removeElement"
    /\ element' = Without(element, {r.id})
    /\ views' = ViewsWithout(seen)
    /\ DropCards(CardsOf(r.id))
    /\ UNCHANGED <<role, character, text>>

CreateCard(r) ==
    /\ r.op = "createCard"
    /\ \E c \in CardId :
        /\ card[c] = Unused
        /\ card' = [card EXCEPT ![c] = r.source]
        /\ views' = views \cup {<<r.user, c>>}
    /\ UNCHANGED <<role, element, character, link, text>>

DeleteCard(r, seen) ==
    /\ r.op = "deleteCard"
    /\ views' = ViewsWithout(seen)
    /\ DropCards({r.id})
    /\ UNCHANGED <<role, element, character, text>>

CreateLink(r) ==
    /\ r.op = "createLink"
    /\ \E l \in LinkId :
        /\ link[l] = Unused
        /\ link' = [link EXCEPT ![l] = Sorted(r.a, r.b)]
        /\ views' = views \cup {<<r.user, l>>}
    /\ UNCHANGED <<role, element, character, card, text>>

DeleteLink(r, seen) ==
    /\ r.op = "deleteLink"
    /\ views' = ViewsWithout(seen)
    /\ link' = Without(link, {r.id})
    /\ UNCHANGED <<role, element, character, card, text>>

RecordViews(r) ==
    /\ r.op = "recordViews"
    /\ views' = views \cup ({r.user} \X r.ids)
    /\ UNCHANGED <<role, element, character, card, link, text>>

\* Mutant: the new row gets no isActive.
CreateCharacterWithoutDefault(r) ==
    /\ r.op = "createCharacter"
    /\ \E h \in CharacterId :
        /\ character[h] = Unused
        /\ character' = [character EXCEPT ![h] = [owner |-> r.user]]
    /\ UNCHANGED <<role, element, card, link, text, views>>

CreateCharacter(r) ==
    /\ r.op = "createCharacter"
    /\ \E h \in CharacterId :
        /\ character[h] = Unused
        /\ character' = [character EXCEPT ![h] = [owner |-> r.user, active |-> TRUE]]
    /\ UNCHANGED <<role, element, card, link, text, views>>

UpdateCharacter(r) ==
    /\ r.op = "updateCharacter"
    /\ character' = [character EXCEPT ![r.id].active = r.active]
    /\ UNCHANGED <<role, element, card, link, text, views>>

RemoveCharacter(r, seen) ==
    /\ r.op = "removeCharacter"
    /\ character' = Without(character, {r.id})
    /\ views' = ViewsWithout(seen)
    /\ DropCards(CardsOf(r.id))
    /\ UNCHANGED <<role, element, text>>

UpdateText(r) ==
    /\ r.op = "updateText"
    /\ text' = [text EXCEPT ![r.id] = r.text]
    /\ UNCHANGED <<role, element, character, card, link, views>>

UpdateMember(r) ==
    /\ r.op = "updateMember"
    /\ role' = [role EXCEPT ![r.member] = r.role]
    /\ UNCHANGED <<element, character, card, link, text, views>>

\* The member's views cascade; elements, cards, links and characters stay.
RemoveMember(r) ==
    /\ r.op = "removeMember"
    /\ role' = [role EXCEPT ![r.member] = "NONE"]
    /\ views' = {v \in views : v[1] # r.member}
    /\ UNCHANGED <<element, character, card, link, text>>

\* Mutant: characters do not cascade.
RemoveCampaignKeepsCharacters(r) ==
    /\ r.op = "removeCampaign"
    /\ role' = [u \in Users |-> "NONE"]
    /\ element' = Emptied(element)
    /\ card' = Emptied(card)
    /\ link' = Emptied(link)
    /\ views' = {}
    /\ UNCHANGED <<character, text>>

RemoveCampaign(r) ==
    /\ r.op = "removeCampaign"
    /\ role' = [u \in Users |-> "NONE"]
    /\ element' = Emptied(element)
    /\ character' = Emptied(character)
    /\ card' = Emptied(card)
    /\ link' = Emptied(link)
    /\ views' = {}
    /\ UNCHANGED text

Writes(r, seen) ==
    \/ CreateElement(r) \/ SetAccess(r, seen) \/ RemoveElement(r, seen)
    \/ CreateCard(r) \/ DeleteCard(r, seen)
    \/ CreateLink(r) \/ DeleteLink(r, seen)
    \/ RecordViews(r)
    \/ CreateCharacter(r) \/ UpdateCharacter(r) \/ RemoveCharacter(r, seen)
    \/ UpdateText(r)
    \/ UpdateMember(r) \/ RemoveMember(r) \/ RemoveCampaign(r)

\* The end of accept in campaign-invitation.service: a membership row with the
\* invitation's role.  Its foreign key takes a share lock on the campaign row.
JoinCampaign(u, r) ==
    /\ CampaignExists
    /\ role[u] = "NONE"
    /\ role' = [role EXCEPT ![u] = r]
    /\ UNCHANGED <<element, character, card, link, text, views>>

\* CampaignService.create: the campaign and the master's membership row.
ContentInit ==
    /\ role = [u \in Users |-> IF u = Master THEN "OWNER" ELSE "NONE"]
    /\ element = [e \in ElementId |-> Unused]
    /\ character = [h \in CharacterId |-> Unused]
    /\ card = [c \in CardId |-> Unused]
    /\ link = [l \in LinkId |-> Unused]
    /\ text = [i \in EntityId |-> BlankText]
    /\ views = {}
=============================================================================
