------------------------ MODULE CampaignAtomic_proofs ------------------------
(***************************************************************************)
(* The rows of a campaign stay well typed and consistent, whatever the     *)
(* requests, for any number of users and rows.                             *)
(***************************************************************************)
EXTENDS CampaignAtomic, TLAPS

\* The fields of a request by its operation.
LEMMA RequestFields ==
    ASSUME NEW r \in Request
    PROVE  /\ r.user \in Users
           /\ r.op \in LockedOperation \cup UnlockedOperation
           /\ r.op \in {"createElement", "setAccess"} => r.access \in Access
           /\ r.op \in {"setAccess", "removeElement"} => r.id \in ElementId
           /\ r.op = "createCard" => r.source \in Source
           /\ r.op = "deleteCard" => r.id \in CardId
           /\ r.op = "createLink" => r.a \in CardId /\ r.b \in CardId
           /\ r.op = "deleteLink" => r.id \in LinkId
           /\ r.op = "recordViews" => r.ids \subseteq EntityId
           /\ r.op \in {"updateCharacter", "removeCharacter"} => r.id \in CharacterId
           /\ r.op = "updateCharacter" => r.active \in BOOLEAN
           /\ r.op = "updateText" => r.id \in EntityId /\ r.text \in Texts
           /\ r.op \in {"updateMember", "removeMember"} => r.member \in Users
           /\ r.op = "updateMember" => r.role \in AssignableRole
  BY DEF Request, Batch, LockedOperation, UnlockedOperation

\* Rewriting rows to Deleted keeps a table's type.
LEMMA WithoutType ==
    ASSUME NEW I, NEW R, NEW T \in [I -> R \cup Mark], NEW ids
    PROVE  Without(T, ids) \in [I -> R \cup Mark]
  BY DEF Without, Mark

LEMMA EmptiedType ==
    ASSUME NEW I, NEW R, NEW T \in [I -> R \cup Mark]
    PROVE  Emptied(T) \in [I -> R \cup Mark]
  BY DEF Emptied, Mark

LEMMA DropCardsType ==
    ASSUME TypeOK, NEW C, DropCards(C)
    PROVE  /\ card' \in [CardId -> Source \cup Mark]
           /\ link' \in [LinkId -> LinkRow \cup Mark]
  BY WithoutType DEF TypeOK, DropCards

\* A row of an updated table is well typed.
LEMMA SetAccessType ==
    ASSUME TypeOK, NEW e \in ElementId, NEW a \in Access, HasRow(element, e)
    PROVE  [element EXCEPT ![e].access = a] \in [ElementId -> ElementRow \cup Mark]
<1>1. element[e] \in ElementRow
  BY DEF TypeOK, HasRow
<1>2. [element[e] EXCEPT !.access = a] \in ElementRow
  BY <1>1 DEF ElementRow
<1> QED BY <1>2 DEF TypeOK

LEMMA UpdateCharacterType ==
    ASSUME TypeOK, NEW h \in CharacterId, NEW b \in BOOLEAN, HasRow(character, h)
    PROVE  [character EXCEPT ![h].active = b] \in [CharacterId -> CharacterRow \cup Mark]
<1>1. character[h] \in CharacterRow
  BY DEF TypeOK, HasRow
<1>2. [character[h] EXCEPT !.active = b] \in CharacterRow
  BY <1>1 DEF CharacterRow
<1> QED BY <1>2 DEF TypeOK

LEMMA SortedType ==
    ASSUME NEW a \in CardId, NEW b \in CardId PROVE Sorted(a, b) \in LinkRow
  BY DEF Sorted, LinkRow

-----------------------------------------------------------------------------
\* Each request keeps the tables well typed.
LEMMA WritesType ==
    ASSUME TypeOK, NEW r \in Request, Accepted(r), NEW seen, Writes(r, seen)
    PROVE  TypeOK'
<1> USE RequestFields
<1>1. CASE CreateElement(r)
  BY <1>1 DEF CreateElement, TypeOK, ElementRow, EntityId
<1>2. CASE SetAccess(r, seen)
  <2>1. element' \in [ElementId -> ElementRow \cup Mark]
    BY <1>2, SetAccessType DEF SetAccess, Accepted
  <2>2. card' \in [CardId -> Source \cup Mark] /\ link' \in [LinkId -> LinkRow \cup Mark]
    BY <1>2, DropCardsType DEF SetAccess, TypeOK
  <2> QED BY <1>2, <2>1, <2>2 DEF SetAccess, TypeOK, ViewsWithout
<1>3. CASE RemoveElement(r, seen)
  <2>1. element' \in [ElementId -> ElementRow \cup Mark]
    BY <1>3, WithoutType DEF RemoveElement, TypeOK
  <2> QED BY <1>3, <2>1, DropCardsType DEF RemoveElement, TypeOK, ViewsWithout
<1>4. CASE CreateCard(r)
  BY <1>4 DEF CreateCard, TypeOK, EntityId
<1>5. CASE DeleteCard(r, seen)
  BY <1>5, DropCardsType DEF DeleteCard, TypeOK, ViewsWithout
<1>6. CASE CreateLink(r)
  <2>1. Sorted(r.a, r.b) \in LinkRow
    BY <1>6, SortedType DEF CreateLink
  <2> QED BY <1>6, <2>1 DEF CreateLink, TypeOK, EntityId
<1>7. CASE DeleteLink(r, seen)
  BY <1>7, WithoutType DEF DeleteLink, TypeOK, ViewsWithout
<1>8. CASE RecordViews(r)
  BY <1>8 DEF RecordViews, TypeOK
<1>9. CASE CreateCharacter(r)
  BY <1>9 DEF CreateCharacter, TypeOK, CharacterRow
<1>10. CASE UpdateCharacter(r)
  <2>1. character' \in [CharacterId -> CharacterRow \cup Mark]
    BY <1>10, UpdateCharacterType DEF UpdateCharacter, Accepted
  <2> QED BY <1>10, <2>1 DEF UpdateCharacter, TypeOK
<1>11. CASE RemoveCharacter(r, seen)
  <2>1. character' \in [CharacterId -> CharacterRow \cup Mark]
    BY <1>11, WithoutType DEF RemoveCharacter, TypeOK
  <2> QED BY <1>11, <2>1, DropCardsType DEF RemoveCharacter, TypeOK, ViewsWithout
<1>12. CASE UpdateText(r)
  BY <1>12 DEF UpdateText, TypeOK
<1>13. CASE UpdateMember(r)
  BY <1>13 DEF UpdateMember, TypeOK, Role, AssignableRole
<1>14. CASE RemoveMember(r)
  BY <1>14 DEF RemoveMember, TypeOK
<1>15. CASE RemoveCampaign(r)
  BY <1>15, EmptiedType DEF RemoveCampaign, TypeOK
<1> QED
  BY <1>1, <1>2, <1>3, <1>4, <1>5, <1>6, <1>7, <1>8, <1>9, <1>10, <1>11, <1>12,
     <1>13, <1>14, <1>15 DEF Writes

\* Every column of every table keeps its type.
THEOREM TypeCorrect == AtomicSpec => []TypeOK
<1>1. ContentInit => TypeOK
  BY ContentAssumption DEF ContentInit, TypeOK, Role, Mark
<1>2. TypeOK /\ [AtomicNext]_content => TypeOK'
  <2> SUFFICES ASSUME TypeOK, [AtomicNext]_content PROVE TypeOK'
    OBVIOUS
  <2>1. CASE \E r \in Request : Perform(r)
    BY <2>1, WritesType DEF Perform
  <2>2. CASE \E u \in Users, a \in AssignableRole : JoinCampaign(u, a)
    BY <2>2 DEF JoinCampaign, TypeOK, Role, AssignableRole
  <2>3. CASE UNCHANGED content
    BY <2>3 DEF content, TypeOK
  <2> QED BY <2>1, <2>2, <2>3 DEF AtomicNext
<1> QED BY <1>1, <1>2, PTL DEF AtomicSpec

-----------------------------------------------------------------------------
(* What deleting cards leaves behind.                                       *)

\* A card outside C, and a link not at one of them, keeps its row.
LEMMA DropCardsKeeps ==
    ASSUME TypeOK, NEW C, DropCards(C)
    PROVE  /\ \A c \in CardId : card'[c] = IF c \in C THEN Deleted ELSE card[c]
           /\ \A l \in LinkId : link'[l] = IF l \in LinksAt(C) THEN Deleted ELSE link[l]
  BY DEF DropCards, Without, TypeOK

LEMMA DropCardsLinks ==
    ASSUME TypeOK, LinksWellFormed, NEW C, DropCards(C)
    PROVE  LinksWellFormed'
<1> USE DropCardsKeeps
<1> SUFFICES ASSUME NEW l \in LinkId, HasRow(link, l)'
             PROVE  /\ HasRow(card, link[l][1])' /\ HasRow(card, link[l][2])'
                    /\ (link[l][1] < link[l][2])'
                    /\ \A k \in LinkId : (link[k] = link[l])' => k = l
  BY DEF LinksWellFormed
<1>1. l \notin LinksAt(C) /\ link'[l] = link[l] /\ HasRow(link, l)
  BY DEF HasRow, Mark
<1>2. link[l] \in LinkRow
  BY <1>1 DEF TypeOK, HasRow
<1>3. link[l][1] \in CardId \ C /\ link[l][2] \in CardId \ C
  BY <1>1, <1>2 DEF LinksAt, LinkRow
<1>4. HasRow(card, link[l][1])' /\ HasRow(card, link[l][2])'
  BY <1>1, <1>3 DEF LinksWellFormed, HasRow, Mark
<1>5. ASSUME NEW k \in LinkId, link'[k] = link'[l] PROVE k = l
  BY <1>1, <1>5 DEF LinksWellFormed, HasRow, Mark
<1> QED BY <1>1, <1>4, <1>5 DEF LinksWellFormed

LEMMA DropCardsSources ==
    ASSUME TypeOK, OneCardPerSource, NEW C, DropCards(C)
    PROVE  OneCardPerSource'
  BY DropCardsKeeps DEF OneCardPerSource, HasRow, Mark

\* Views of what a request deletes are in the set it clears.
LEMMA DropCardsViews ==
    ASSUME TypeOK, NoOrphanViews, NEW C, DropCards(C),
           NEW S, CardViews(C) \subseteq S, views' = ViewsWithout(S),
           role' = role,
           \A e \in ElementId \ S : HasRow(element, e) => HasRow(element, e)'
    PROVE  NoOrphanViews'
<1> SUFFICES ASSUME NEW v \in views, v[2] \notin S
             PROVE  IsMember(v[1])' /\ Exists(v[2])'
  BY DEF NoOrphanViews, ViewsWithout
<1>1. IsMember(v[1])'
  BY DEF NoOrphanViews, IsMember
<1>2. v[2] \notin C /\ v[2] \notin LinksAt(C)
  BY DEF CardViews
<1>3. Exists(v[2])
  BY DEF NoOrphanViews
<1> QED BY <1>1, <1>2, <1>3, DropCardsKeeps DEF Exists, HasRow

\* No card that stays loses its source, when only the rows in G change.
LEMMA DropCardsHidden ==
    ASSUME TypeOK, NoHiddenCards, NEW s, DropCards(CardsOf(s)), s # Free,
           \A e \in ElementId \ {s} : element'[e] = element[e],
           \A h \in CharacterId \ {s} : character'[h] = character[h]
    PROVE  NoHiddenCards'
<1> SUFFICES ASSUME NEW c \in CardId, HasRow(card, c)'
             PROVE  VisibleCard(c)'
  BY DEF NoHiddenCards
<1>1. c \notin CardsOf(s) /\ card'[c] = card[c] /\ HasRow(card, c)
  BY DropCardsKeeps DEF HasRow, Mark
<1>2. card[c] # s
  BY <1>1 DEF CardsOf
<1>3. VisibleCard(c)
  BY <1>1 DEF NoHiddenCards
<1> QED BY <1>1, <1>2, <1>3 DEF VisibleCard, HasRow

-----------------------------------------------------------------------------
(* Each request keeps the campaign consistent.                              *)

Performed(r) == NeedsLock(r) => Granted(r)

\* What the check under the lock says, by operation.
LEMMA LockedChecks ==
    ASSUME NEW r \in Request, Performed(r)
    PROVE  /\ r.op \in {"createElement", "createCard", "deleteCard", "createLink", "deleteLink"}
                => IsContributor(r.user)
           /\ r.op \in {"createElement", "setAccess"} => ValidAccess(r.user, r.access)
           /\ r.op \in {"setAccess", "removeElement"} => Editable(r.user, r.id)
           /\ r.op = "createCard" => SourceAvailable(r.source)
           /\ r.op = "createLink" => r.a # r.b /\ VisibleCard(r.a) /\ VisibleCard(r.b)
           /\ r.op = "recordViews" =>
                IsMember(r.user) /\ \A i \in r.ids : Visible(r.user, i)
           /\ r.op \in {"updateCharacter", "removeCharacter"} => role[r.user] = "PLAYER"
           /\ r.op \in {"updateMember", "removeMember"} =>
                role[r.user] = "OWNER" /\ Manageable(r.member)
  BY DEF Performed, Granted, ElementGranted, BoardGranted, ViewsGranted, CharacterGranted,
         MemberGranted, NeedsLock, LockedOperation

LEMMA CreateElementConsistent ==
    ASSUME TypeOK, Consistent, NEW r \in Request, Performed(r), CreateElement(r)
    PROVE  Consistent'
<1>1. r.user \in Users /\ r.access \in Access /\ IsContributor(r.user)
      /\ ValidAccess(r.user, r.access)
  BY RequestFields, LockedChecks DEF CreateElement
<1>2. PICK e \in ElementId :
        /\ element[e] = Unused
        /\ element' = [element EXCEPT ![e] = [author |-> r.user, access |-> r.access]]
        /\ views' = views \cup {<<r.user, e>>}
  BY DEF CreateElement
<1>3. UNCHANGED <<role, character, card, link, text>>
  BY DEF CreateElement
<1>4. [author |-> r.user, access |-> r.access] \in ElementRow
  BY <1>1 DEF ElementRow
<1>5. element'[e] = [author |-> r.user, access |-> r.access] /\ HasRow(element, e)'
  BY <1>2, <1>4, ContentAssumption DEF HasRow, Mark, TypeOK
<1>6. NoHiddenCards'
  BY <1>2, <1>3, ContentAssumption
  DEF Consistent, NoHiddenCards, VisibleCard, HasRow, TypeOK, Mark
<1>7. OneCardPerSource' /\ LinksWellFormed' /\ OneActiveCharacter' /\ OneOwner'
  BY <1>3 DEF Consistent, OneCardPerSource, LinksWellFormed, OneActiveCharacter, OneOwner,
              HasRow, CampaignExists
<1>8. NoOrphanViews'
  BY <1>1, <1>2, <1>3, <1>5 DEF Consistent, NoOrphanViews, IsMember, IsContributor, Exists,
     HasRow, TypeOK
<1>9. MasterHasNothingPrivate'
  <2>1. r.access = "PRIVATE" => r.user # Master
    BY <1>1 DEF ValidAccess, Consistent, OneOwner, IsContributor
  <2> QED BY <1>2, <1>5, <2>1 DEF Consistent, MasterHasNothingPrivate, HasRow, TypeOK
<1>10. NothingLeftBehind'
  BY <1>1, <1>3 DEF Consistent, NothingLeftBehind, CampaignExists, IsContributor
<1> QED BY <1>6, <1>7, <1>8, <1>9, <1>10 DEF Consistent

LEMMA SetAccessConsistent ==
    ASSUME TypeOK, Consistent, NEW r \in Request, Performed(r), Accepted(r),
           SetAccess(r, Doomed(r))
    PROVE  Consistent'
<1>1. r.user \in Users /\ r.id \in ElementId /\ r.access \in Access
  BY RequestFields DEF SetAccess
<1>2. ValidAccess(r.user, r.access) /\ Editable(r.user, r.id)
  BY LockedChecks DEF SetAccess
<1>3. element' = [element EXCEPT ![r.id].access = r.access]
      /\ UNCHANGED <<role, character, text>> /\ views' = ViewsWithout(Doomed(r))
  BY DEF SetAccess
<1>4. HasRow(element, r.id) /\ element[r.id] \in ElementRow
  BY <1>1, <1>2 DEF Editable, HasRow, TypeOK
<1>5. /\ element'[r.id].access = r.access
      /\ element'[r.id].author = element[r.id].author
      /\ element'[r.id] \in ElementRow
      /\ \A e \in ElementId \ {r.id} : element'[e] = element[e]
  BY <1>1, <1>3, <1>4 DEF TypeOK, ElementRow
<1>6. \A e \in ElementId : HasRow(element, e) <=> HasRow(element, e)'
  BY <1>4, <1>5, ContentAssumption DEF HasRow
<1>7. OneActiveCharacter' /\ OneOwner'
  BY <1>3 DEF Consistent, OneActiveCharacter, OneOwner, HasRow, CampaignExists
<1>8. MasterHasNothingPrivate'
  <2>1. r.access = "PRIVATE" => r.user # Master
    BY <1>1, <1>2 DEF ValidAccess, Consistent, OneOwner, IsContributor, Editable
  <2>2. element[r.id].author = r.user
    BY <1>2 DEF Editable
  <2> QED BY <1>5, <1>6, <2>1, <2>2 DEF Consistent, MasterHasNothingPrivate
<1>9. NothingLeftBehind'
  BY <1>1, <1>2, <1>3 DEF Consistent, NothingLeftBehind, CampaignExists, Editable, IsContributor
<1>10. CASE r.access # "SHARED"
  <2>1. DropCards(CardsOf(r.id)) /\ Doomed(r) = CardViews(CardsOf(r.id))
    BY <1>10 DEF SetAccess, Doomed
  <2>2. NoHiddenCards'
    BY <1>1, <1>3, <1>5, <2>1, DropCardsHidden, ContentAssumption DEF Consistent
  <2>3. OneCardPerSource' /\ LinksWellFormed'
    BY <2>1, DropCardsSources, DropCardsLinks DEF Consistent
  <2>4. NoOrphanViews'
    BY <1>3, <1>6, <2>1, DropCardsViews DEF Consistent
  <2> QED BY <1>7, <1>8, <1>9, <2>2, <2>3, <2>4 DEF Consistent
<1>11. CASE r.access = "SHARED"
  <2>1. UNCHANGED <<card, link>> /\ Doomed(r) = {}
    BY <1>11 DEF SetAccess, Doomed
  <2>2. NoHiddenCards'
    BY <1>3, <1>5, <1>6, <1>11, <2>1 DEF Consistent, NoHiddenCards, VisibleCard, HasRow
  <2>3. OneCardPerSource' /\ LinksWellFormed'
    BY <2>1 DEF Consistent, OneCardPerSource, LinksWellFormed, HasRow
  <2>4. NoOrphanViews'
    BY <1>3, <1>6, <2>1 DEF Consistent, NoOrphanViews, ViewsWithout, IsMember, Exists, HasRow
  <2> QED BY <1>7, <1>8, <1>9, <2>2, <2>3, <2>4 DEF Consistent
<1> QED BY <1>10, <1>11

LEMMA RemoveElementConsistent ==
    ASSUME TypeOK, Consistent, NEW r \in Request, Performed(r),
           RemoveElement(r, Doomed(r))
    PROVE  Consistent'
<1>1. r.user \in Users /\ r.id \in ElementId /\ Editable(r.user, r.id)
  BY RequestFields, LockedChecks DEF RemoveElement
<1>2. /\ element' = Without(element, {r.id})
      /\ views' = ViewsWithout(Doomed(r))
      /\ DropCards(CardsOf(r.id))
      /\ UNCHANGED <<role, character, text>>
  BY DEF RemoveElement
<1>3. Doomed(r) = CardViews(CardsOf(r.id)) \cup {r.id}
  BY DEF RemoveElement, Doomed
<1>4. /\ element'[r.id] = Deleted
      /\ \A e \in ElementId \ {r.id} : element'[e] = element[e]
  BY <1>1, <1>2 DEF Without, TypeOK
<1>5. NoHiddenCards'
  BY <1>1, <1>2, <1>4, DropCardsHidden, ContentAssumption DEF Consistent
<1>6. OneCardPerSource' /\ LinksWellFormed'
  BY <1>2, DropCardsSources, DropCardsLinks DEF Consistent
<1>7. NoOrphanViews'
  BY <1>2, <1>3, <1>4, DropCardsViews DEF Consistent, HasRow
<1>8. MasterHasNothingPrivate'
  BY <1>4 DEF Consistent, MasterHasNothingPrivate, HasRow, Mark
<1>9. OneActiveCharacter' /\ OneOwner'
  BY <1>2 DEF Consistent, OneActiveCharacter, OneOwner, HasRow, CampaignExists
<1>10. NothingLeftBehind'
  BY <1>1, <1>2 DEF Consistent, NothingLeftBehind, CampaignExists, Editable, IsContributor
<1> QED BY <1>5, <1>6, <1>7, <1>8, <1>9, <1>10 DEF Consistent

LEMMA CreateCardConsistent ==
    ASSUME TypeOK, Consistent, NEW r \in Request, Performed(r), CreateCard(r)
    PROVE  Consistent'
<1>1. r.user \in Users /\ r.source \in Source /\ IsContributor(r.user)
      /\ SourceAvailable(r.source)
  BY RequestFields, LockedChecks DEF CreateCard
<1>2. PICK c \in CardId :
        /\ card[c] = Unused
        /\ card' = [card EXCEPT ![c] = r.source]
        /\ views' = views \cup {<<r.user, c>>}
  BY DEF CreateCard
<1>3. UNCHANGED <<role, element, character, link, text>>
  BY DEF CreateCard
<1>4. /\ card'[c] = r.source /\ HasRow(card, c)'
      /\ \A d \in CardId \ {c} : card'[d] = card[d]
      /\ ~HasRow(card, c)
  BY <1>1, <1>2, ContentAssumption DEF HasRow, TypeOK, Mark
<1>5. NoHiddenCards'
  <2> SUFFICES ASSUME NEW d \in CardId, HasRow(card, d)' PROVE VisibleCard(d)'
    BY DEF NoHiddenCards
  <2>1. CASE d = c
    BY <2>1, <1>1, <1>3, <1>4, ContentAssumption
    DEF SourceAvailable, Source, VisibleCard, HasRow
  <2>2. CASE d # c
    BY <2>2, <1>3, <1>4 DEF Consistent, NoHiddenCards, VisibleCard, HasRow
  <2> QED BY <2>1, <2>2
<1>6. OneCardPerSource'
  BY <1>1, <1>4 DEF Consistent, OneCardPerSource, HasRow, SourceAvailable, CardsOf, Mark
<1>7. LinksWellFormed'
  BY <1>3, <1>4 DEF Consistent, LinksWellFormed, HasRow, TypeOK, LinkRow
<1>8. NoOrphanViews'
  BY <1>1, <1>2, <1>3, <1>4 DEF Consistent, NoOrphanViews, IsMember, IsContributor, Exists, HasRow
<1>9. OneActiveCharacter' /\ OneOwner' /\ MasterHasNothingPrivate'
  BY <1>3 DEF Consistent, OneActiveCharacter, OneOwner, MasterHasNothingPrivate, HasRow,
              CampaignExists
<1>10. NothingLeftBehind'
  BY <1>1, <1>3 DEF Consistent, NothingLeftBehind, CampaignExists, IsContributor
<1> QED BY <1>5, <1>6, <1>7, <1>8, <1>9, <1>10 DEF Consistent

LEMMA DeleteCardConsistent ==
    ASSUME TypeOK, Consistent, NEW r \in Request, Performed(r), DeleteCard(r, Doomed(r))
    PROVE  Consistent'
<1>1. r.user \in Users /\ r.id \in CardId /\ IsContributor(r.user)
  BY RequestFields, LockedChecks DEF DeleteCard
<1>2. /\ views' = ViewsWithout(Doomed(r))
      /\ DropCards({r.id})
      /\ UNCHANGED <<role, element, character, text>>
  BY DEF DeleteCard
<1>3. Doomed(r) = CardViews({r.id})
  BY DEF DeleteCard, Doomed
<1>4. NoHiddenCards'
  BY <1>2, DropCardsKeeps DEF Consistent, NoHiddenCards, VisibleCard, HasRow, Mark
<1>5. OneCardPerSource' /\ LinksWellFormed'
  BY <1>2, DropCardsSources, DropCardsLinks DEF Consistent
<1>6. NoOrphanViews'
  BY <1>2, <1>3, DropCardsViews DEF Consistent, HasRow
<1>7. OneActiveCharacter' /\ OneOwner' /\ MasterHasNothingPrivate'
  BY <1>2 DEF Consistent, OneActiveCharacter, OneOwner, MasterHasNothingPrivate, HasRow,
              CampaignExists
<1>8. NothingLeftBehind'
  BY <1>1, <1>2 DEF Consistent, NothingLeftBehind, CampaignExists, IsContributor
<1> QED BY <1>4, <1>5, <1>6, <1>7, <1>8 DEF Consistent

LEMMA CreateLinkConsistent ==
    ASSUME TypeOK, Consistent, NEW r \in Request, Performed(r), Accepted(r), CreateLink(r)
    PROVE  Consistent'
<1>1. r.user \in Users /\ r.a \in CardId /\ r.b \in CardId
  BY RequestFields DEF CreateLink
<1>2. IsContributor(r.user) /\ r.a # r.b /\ VisibleCard(r.a) /\ VisibleCard(r.b)
  BY LockedChecks DEF CreateLink
<1>3. PICK l \in LinkId :
        /\ link[l] = Unused
        /\ link' = [link EXCEPT ![l] = Sorted(r.a, r.b)]
        /\ views' = views \cup {<<r.user, l>>}
  BY DEF CreateLink
<1>4. UNCHANGED <<role, element, character, card, text>>
  BY DEF CreateLink
<1>5. Sorted(r.a, r.b) \in LinkRow
  BY <1>1, SortedType
<1>6. /\ link'[l] = Sorted(r.a, r.b) /\ HasRow(link, l)' /\ ~HasRow(link, l)
      /\ \A k \in LinkId \ {l} : link'[k] = link[k]
  BY <1>3, <1>5, ContentAssumption DEF HasRow, TypeOK, Mark
<1>7. LinksWellFormed'
  <2>1. /\ HasRow(card, Sorted(r.a, r.b)[1]) /\ HasRow(card, Sorted(r.a, r.b)[2])
        /\ Sorted(r.a, r.b)[1] < Sorted(r.a, r.b)[2]
    <3>1. CASE r.a < r.b
      <4>1. Sorted(r.a, r.b) = <<r.a, r.b>>
        BY <3>1 DEF Sorted
      <4> QED BY <1>2, <3>1, <4>1 DEF VisibleCard
    <3>2. CASE ~(r.a < r.b)
      <4>1. Sorted(r.a, r.b) = <<r.b, r.a>>
        BY <3>2 DEF Sorted
      <4>2. CardId \subseteq Nat
        BY ContentAssumption
      <4>3. r.a \in Nat /\ r.b \in Nat
        BY <1>1, <4>2
      <4>4. r.b < r.a
        BY <1>2, <3>2, <4>3
      <4> QED BY <1>2, <4>1, <4>4 DEF VisibleCard
    <3> QED BY <3>1, <3>2
  <2>2. \A k \in LinkId : link[k] # Sorted(r.a, r.b)
    BY DEF Accepted, CreateLink
  <2>3. ASSUME NEW k \in LinkId, HasRow(link, k)'
        PROVE  /\ HasRow(card, link[k][1])' /\ HasRow(card, link[k][2])'
               /\ (link[k][1] < link[k][2])'
    BY <1>4, <1>6, <2>1, <2>3 DEF Consistent, LinksWellFormed, HasRow
  <2>4. ASSUME NEW k \in LinkId, HasRow(link, k)', NEW j \in LinkId, link'[j] = link'[k]
        PROVE  j = k
    BY <1>6, <2>2, <2>4 DEF Consistent, LinksWellFormed, HasRow
  <2> QED BY <2>3, <2>4 DEF LinksWellFormed
<1>8. NoOrphanViews'
  BY <1>1, <1>2, <1>3, <1>4, <1>6 DEF Consistent, NoOrphanViews, IsMember, IsContributor, Exists, HasRow
<1>9. NoHiddenCards' /\ OneCardPerSource'
  BY <1>4 DEF Consistent, NoHiddenCards, OneCardPerSource, VisibleCard, HasRow
<1>10. OneActiveCharacter' /\ OneOwner' /\ MasterHasNothingPrivate'
  BY <1>4 DEF Consistent, OneActiveCharacter, OneOwner, MasterHasNothingPrivate, HasRow,
              CampaignExists
<1>11. NothingLeftBehind'
  BY <1>1, <1>2, <1>4 DEF Consistent, NothingLeftBehind, CampaignExists, IsContributor
<1> QED BY <1>7, <1>8, <1>9, <1>10, <1>11 DEF Consistent

LEMMA DeleteLinkConsistent ==
    ASSUME TypeOK, Consistent, NEW r \in Request, Performed(r), DeleteLink(r, Doomed(r))
    PROVE  Consistent'
<1>1. r.user \in Users /\ r.id \in LinkId /\ IsContributor(r.user)
  BY RequestFields, LockedChecks DEF DeleteLink
<1>2. /\ views' = ViewsWithout({r.id})
      /\ link' = Without(link, {r.id})
      /\ UNCHANGED <<role, element, character, card, text>>
  BY DEF DeleteLink, Doomed
<1>3. link'[r.id] = Deleted /\ \A l \in LinkId \ {r.id} : link'[l] = link[l]
  BY <1>1, <1>2 DEF Without, TypeOK
<1>4. LinksWellFormed'
  <2>1. \A l \in LinkId : HasRow(link', l) => HasRow(link, l) /\ link'[l] = link[l]
    BY <1>3 DEF HasRow, Mark
  <2>2. \A c : HasRow(card', c) <=> HasRow(card, c)
    BY <1>2 DEF HasRow
  <2>3. \A l \in LinkId : HasRow(link, l) =>
            /\ HasRow(card', link[l][1]) /\ HasRow(card', link[l][2])
            /\ link[l][1] < link[l][2]
            /\ \A k \in LinkId : link[k] = link[l] => k = l
    BY <2>2 DEF Consistent, LinksWellFormed
  <2>4. \A k, l \in LinkId : HasRow(link', l) /\ link'[k] = link'[l] => link[k] = link[l]
    BY <1>3, <2>1 DEF HasRow, Mark
  <2> QED BY ONLY <2>1, <2>3, <2>4 DEF LinksWellFormed
<1>5. NoOrphanViews'
  BY <1>2, <1>3 DEF Consistent, NoOrphanViews, ViewsWithout, IsMember, Exists, HasRow
<1>6. NoHiddenCards' /\ OneCardPerSource'
  BY <1>2 DEF Consistent, NoHiddenCards, OneCardPerSource, VisibleCard, HasRow
<1>7. OneActiveCharacter' /\ OneOwner' /\ MasterHasNothingPrivate'
  BY <1>2 DEF Consistent, OneActiveCharacter, OneOwner, MasterHasNothingPrivate, HasRow,
              CampaignExists
<1>8. NothingLeftBehind'
  BY <1>1, <1>2 DEF Consistent, NothingLeftBehind, CampaignExists, IsContributor
<1> QED BY <1>4, <1>5, <1>6, <1>7, <1>8 DEF Consistent

LEMMA RecordViewsConsistent ==
    ASSUME TypeOK, Consistent, NEW r \in Request, Performed(r), RecordViews(r)
    PROVE  Consistent'
<1>1. r.user \in Users /\ r.ids \subseteq EntityId /\ IsMember(r.user)
      /\ \A i \in r.ids : Visible(r.user, i)
  BY RequestFields, LockedChecks DEF RecordViews
<1>2. /\ views' = views \cup ({r.user} \X r.ids)
      /\ UNCHANGED <<role, element, character, card, link, text>>
  BY DEF RecordViews
<1>3. NoOrphanViews'
  <2>1. \A i \in r.ids : Exists(i)
    BY <1>1 DEF Visible, Exists, Readable, VisibleCard, VisibleLink
  <2> QED BY <1>1, <1>2, <2>1 DEF Consistent, NoOrphanViews, IsMember, Exists, HasRow
<1>4. NoHiddenCards' /\ OneCardPerSource' /\ LinksWellFormed'
  BY <1>2 DEF Consistent, NoHiddenCards, OneCardPerSource, LinksWellFormed, VisibleCard, HasRow
<1>5. OneActiveCharacter' /\ OneOwner' /\ MasterHasNothingPrivate'
  BY <1>2 DEF Consistent, OneActiveCharacter, OneOwner, MasterHasNothingPrivate, HasRow,
              CampaignExists
<1>6. NothingLeftBehind'
  BY <1>2 DEF Consistent, NothingLeftBehind, CampaignExists, Exists, HasRow
<1> QED BY <1>3, <1>4, <1>5, <1>6 DEF Consistent

\* What a step that only touches characters or texts keeps.
LEMMA CharacterStepKeeps ==
    ASSUME Consistent, UNCHANGED <<role, element, card, link, views>>,
           \A h \in CharacterId : HasRow(character, h) => HasRow(character, h)'
    PROVE  /\ NoHiddenCards' /\ OneCardPerSource' /\ LinksWellFormed'
           /\ NoOrphanViews' /\ OneOwner' /\ MasterHasNothingPrivate'
<1>1. NoHiddenCards'
  BY DEF Consistent, NoHiddenCards, VisibleCard, HasRow
<1> QED BY <1>1 DEF Consistent, OneCardPerSource, LinksWellFormed, NoOrphanViews, OneOwner,
          MasterHasNothingPrivate, HasRow, IsMember, Exists, CampaignExists

LEMMA CreateCharacterConsistent ==
    ASSUME TypeOK, Consistent, NEW r \in Request, Accepted(r), CreateCharacter(r)
    PROVE  Consistent'
<1>1. r.user \in Users /\ CampaignExists /\ ~HasActiveCharacter(r.user, Free)
  BY RequestFields DEF CreateCharacter, Accepted
<1>2. PICK h \in CharacterId :
        /\ character[h] = Unused
        /\ character' = [character EXCEPT ![h] = [owner |-> r.user, active |-> TRUE]]
  BY DEF CreateCharacter
<1>3. UNCHANGED <<role, element, card, link, text, views>>
  BY DEF CreateCharacter
<1>4. /\ character'[h] = [owner |-> r.user, active |-> TRUE]
      /\ \A k \in CharacterId \ {h} : character'[k] = character[k]
      /\ ~HasRow(character, h)
  BY <1>2 DEF TypeOK, HasRow, Mark
<1>5. \A k \in CharacterId : HasRow(character, k) => HasRow(character, k)'
  BY <1>4 DEF HasRow
<1>6. OneActiveCharacter'
  <2>1. \A k \in CharacterId \ {h} :
          HasRow(character, k) /\ character[k].active => character[k].owner # r.user
    BY <1>1, ContentAssumption DEF HasActiveCharacter
  <2> SUFFICES ASSUME NEW j \in CharacterId, NEW k \in CharacterId, j # k,
                      HasRow(character, j)', character'[j].active,
                      HasRow(character, k)', character'[k].active,
                      character'[j].owner = character'[k].owner
               PROVE  FALSE
    BY DEF OneActiveCharacter
  <2>2. CASE j = h
    BY <1>4, <2>1, <2>2 DEF HasRow
  <2>3. CASE k = h
    BY <1>4, <2>1, <2>3 DEF HasRow
  <2>4. CASE j # h /\ k # h
    BY <1>4, <2>4 DEF Consistent, OneActiveCharacter, HasRow
  <2> QED BY <2>2, <2>3, <2>4
<1>7. NothingLeftBehind'
  BY <1>1, <1>3 DEF NothingLeftBehind, CampaignExists
<1> QED BY <1>3, <1>5, <1>6, <1>7, CharacterStepKeeps DEF Consistent

LEMMA UpdateCharacterConsistent ==
    ASSUME TypeOK, Consistent, NEW r \in Request, Performed(r), Accepted(r),
           UpdateCharacter(r)
    PROVE  Consistent'
<1>1. /\ r.user \in Users /\ r.id \in CharacterId /\ r.active \in BOOLEAN
      /\ HasRow(character, r.id)
      /\ r.active => ~HasActiveCharacter(character[r.id].owner, r.id)
  BY RequestFields DEF UpdateCharacter, Accepted
<1>2. role[r.user] = "PLAYER"
  BY LockedChecks DEF UpdateCharacter
<1>3. /\ character' = [character EXCEPT ![r.id].active = r.active]
      /\ UNCHANGED <<role, element, card, link, text, views>>
  BY DEF UpdateCharacter
<1>4. character[r.id] \in CharacterRow
  BY <1>1 DEF TypeOK, HasRow
<1>5. /\ character'[r.id].active = r.active
      /\ character'[r.id].owner = character[r.id].owner
      /\ character'[r.id] \in CharacterRow
      /\ \A k \in CharacterId \ {r.id} : character'[k] = character[k]
  BY <1>1, <1>3, <1>4 DEF TypeOK, CharacterRow
<1>6. \A k \in CharacterId : HasRow(character, k) <=> HasRow(character, k)'
  BY <1>1, <1>5, ContentAssumption DEF HasRow
<1>7. OneActiveCharacter'
  <2> SUFFICES ASSUME NEW j \in CharacterId, NEW k \in CharacterId, j # k,
                      HasRow(character, j), character'[j].active,
                      HasRow(character, k), character'[k].active,
                      character'[j].owner = character'[k].owner
               PROVE  FALSE
    BY <1>6 DEF OneActiveCharacter
  <2>1. CASE j = r.id
    BY <1>1, <1>5, <2>1 DEF HasActiveCharacter
  <2>2. CASE k = r.id
    BY <1>1, <1>5, <2>2 DEF HasActiveCharacter
  <2>3. CASE j # r.id /\ k # r.id
    BY <1>5, <2>3 DEF Consistent, OneActiveCharacter
  <2> QED BY <2>1, <2>2, <2>3
<1>8. NothingLeftBehind'
  BY <1>1, <1>2, <1>3 DEF Consistent, NothingLeftBehind, CampaignExists
<1> QED BY <1>3, <1>6, <1>7, <1>8, CharacterStepKeeps DEF Consistent

LEMMA RemoveCharacterConsistent ==
    ASSUME TypeOK, Consistent, NEW r \in Request, Performed(r),
           RemoveCharacter(r, Doomed(r))
    PROVE  Consistent'
<1>1. r.user \in Users /\ r.id \in CharacterId /\ role[r.user] = "PLAYER"
  BY RequestFields, LockedChecks DEF RemoveCharacter
<1>2. /\ character' = Without(character, {r.id})
      /\ views' = ViewsWithout(Doomed(r))
      /\ DropCards(CardsOf(r.id))
      /\ UNCHANGED <<role, element, text>>
  BY DEF RemoveCharacter
<1>3. Doomed(r) = CardViews(CardsOf(r.id))
  BY DEF RemoveCharacter, Doomed
<1>4. /\ character'[r.id] = Deleted
      /\ \A h \in CharacterId \ {r.id} : character'[h] = character[h]
  BY <1>1, <1>2 DEF Without, TypeOK
<1>5. NoHiddenCards'
  BY <1>1, <1>2, <1>4, DropCardsHidden, ContentAssumption DEF Consistent
<1>6. OneCardPerSource' /\ LinksWellFormed'
  BY <1>2, DropCardsSources, DropCardsLinks DEF Consistent
<1>7. NoOrphanViews'
  BY <1>2, <1>3, DropCardsViews DEF Consistent, HasRow
<1>8. OneActiveCharacter'
  BY <1>4 DEF Consistent, OneActiveCharacter, HasRow, Mark
<1>9. OneOwner' /\ MasterHasNothingPrivate'
  BY <1>2 DEF Consistent, OneOwner, MasterHasNothingPrivate, HasRow, CampaignExists
<1>10. NothingLeftBehind'
  BY <1>1, <1>2 DEF Consistent, NothingLeftBehind, CampaignExists
<1> QED BY <1>5, <1>6, <1>7, <1>8, <1>9, <1>10 DEF Consistent

LEMMA UpdateTextConsistent ==
    ASSUME Consistent, NEW r \in Request, UpdateText(r)
    PROVE  Consistent'
<1>1. UNCHANGED <<role, element, character, card, link, views>>
  BY DEF UpdateText
<1>2. OneActiveCharacter'
  BY <1>1 DEF Consistent, OneActiveCharacter, HasRow
<1>3. NothingLeftBehind'
  BY <1>1 DEF Consistent, NothingLeftBehind, CampaignExists, Exists, HasRow
<1>4. \A h \in CharacterId : HasRow(character, h) => HasRow(character, h)'
  BY <1>1 DEF HasRow
<1> QED BY <1>1, <1>2, <1>3, <1>4, CharacterStepKeeps DEF Consistent

LEMMA UpdateMemberConsistent ==
    ASSUME TypeOK, Consistent, NEW r \in Request, Performed(r), UpdateMember(r)
    PROVE  Consistent'
<1>1. /\ r.user \in Users /\ r.member \in Users /\ r.role \in {"PLAYER", "VIEWER"}
      /\ role[r.user] = "OWNER"
      /\ Manageable(r.member)
  BY RequestFields, LockedChecks DEF UpdateMember, AssignableRole
<1>2. /\ role' = [role EXCEPT ![r.member] = r.role]
      /\ UNCHANGED <<element, character, card, link, text, views>>
  BY DEF UpdateMember
<1>3. r.user = Master /\ r.member # Master
  BY <1>1 DEF Consistent, OneOwner, Manageable, IsMember
<1>4. CampaignExists /\ CampaignExists'
  BY <1>1, <1>2, <1>3, ContentAssumption DEF CampaignExists, TypeOK
<1>5. OneOwner'
  BY <1>1, <1>2, <1>3, <1>4 DEF Consistent, OneOwner, TypeOK
<1>6. NoOrphanViews'
  BY <1>1, <1>2 DEF Consistent, NoOrphanViews, IsMember, Exists, HasRow, TypeOK
<1>7. NoHiddenCards' /\ OneCardPerSource' /\ LinksWellFormed'
  BY <1>2 DEF Consistent, NoHiddenCards, OneCardPerSource, LinksWellFormed, VisibleCard, HasRow
<1>8. OneActiveCharacter' /\ MasterHasNothingPrivate'
  BY <1>2 DEF Consistent, OneActiveCharacter, MasterHasNothingPrivate, HasRow
<1>9. NothingLeftBehind'
  BY <1>4 DEF NothingLeftBehind
<1> QED BY <1>5, <1>6, <1>7, <1>8, <1>9 DEF Consistent

LEMMA RemoveMemberConsistent ==
    ASSUME TypeOK, Consistent, NEW r \in Request, Performed(r), RemoveMember(r)
    PROVE  Consistent'
<1>1. /\ r.user \in Users /\ r.member \in Users
      /\ role[r.user] = "OWNER"
      /\ Manageable(r.member)
  BY RequestFields, LockedChecks DEF RemoveMember
<1>2. /\ role' = [role EXCEPT ![r.member] = "NONE"]
      /\ views' = {v \in views : v[1] # r.member}
      /\ UNCHANGED <<element, character, card, link, text>>
  BY DEF RemoveMember
<1>3. r.user = Master /\ r.member # Master
  BY <1>1 DEF Consistent, OneOwner, Manageable, IsMember
<1>4. CampaignExists /\ CampaignExists'
  BY <1>1, <1>2, <1>3, ContentAssumption DEF CampaignExists, TypeOK
<1>5. OneOwner'
  BY <1>1, <1>2, <1>3, <1>4 DEF Consistent, OneOwner, TypeOK
<1>6. NoOrphanViews'
  BY <1>1, <1>2 DEF Consistent, NoOrphanViews, IsMember, Exists, HasRow, TypeOK
<1>7. NoHiddenCards' /\ OneCardPerSource' /\ LinksWellFormed'
  BY <1>2 DEF Consistent, NoHiddenCards, OneCardPerSource, LinksWellFormed, VisibleCard, HasRow
<1>8. OneActiveCharacter' /\ MasterHasNothingPrivate'
  BY <1>2 DEF Consistent, OneActiveCharacter, MasterHasNothingPrivate, HasRow
<1>9. NothingLeftBehind'
  BY <1>4 DEF NothingLeftBehind
<1> QED BY <1>5, <1>6, <1>7, <1>8, <1>9 DEF Consistent

LEMMA RemoveCampaignConsistent ==
    ASSUME TypeOK, NEW r \in Request, RemoveCampaign(r)
    PROVE  Consistent'
<1>1. /\ \A e \in ElementId : ~HasRow(element, e)'
      /\ \A h \in CharacterId : ~HasRow(character, h)'
      /\ \A c \in CardId : ~HasRow(card, c)'
      /\ \A l \in LinkId : ~HasRow(link, l)'
  BY DEF RemoveCampaign, Emptied, HasRow, TypeOK, Mark
<1>2. \A u \in Users : role'[u] = "NONE"
  BY DEF RemoveCampaign
<1>3. views' = {}
  BY DEF RemoveCampaign
<1>4. NoHiddenCards' /\ OneCardPerSource' /\ LinksWellFormed' /\ NoOrphanViews'
  BY <1>1, <1>3 DEF NoHiddenCards, OneCardPerSource, LinksWellFormed, NoOrphanViews
<1>5. OneOwner' /\ MasterHasNothingPrivate' /\ OneActiveCharacter'
  BY <1>1, <1>2 DEF OneOwner, MasterHasNothingPrivate, OneActiveCharacter
<1>6. NothingLeftBehind'
  BY <1>1, <1>2 DEF NothingLeftBehind, Exists
<1> QED BY <1>4, <1>5, <1>6 DEF Consistent

LEMMA JoinConsistent ==
    ASSUME TypeOK, Consistent, NEW u \in Users, NEW a \in AssignableRole, JoinCampaign(u, a)
    PROVE  Consistent'
<1>1. /\ CampaignExists /\ role[u] = "NONE" /\ a \in {"PLAYER", "VIEWER"}
      /\ role' = [role EXCEPT ![u] = a]
      /\ UNCHANGED <<element, character, card, link, text, views>>
  BY DEF JoinCampaign, AssignableRole
<1>2. u # Master
  BY <1>1 DEF CampaignExists
<1>3. CampaignExists'
  BY <1>1, <1>2, ContentAssumption DEF CampaignExists, TypeOK
<1>4. OneOwner'
  BY <1>1, <1>2, <1>3 DEF Consistent, OneOwner, TypeOK
<1>5. NoOrphanViews'
  BY <1>1 DEF Consistent, NoOrphanViews, IsMember, Exists, HasRow, TypeOK
<1>6. NoHiddenCards' /\ OneCardPerSource' /\ LinksWellFormed'
  BY <1>1 DEF Consistent, NoHiddenCards, OneCardPerSource, LinksWellFormed, VisibleCard, HasRow
<1>7. OneActiveCharacter' /\ MasterHasNothingPrivate'
  BY <1>1 DEF Consistent, OneActiveCharacter, MasterHasNothingPrivate, HasRow
<1>8. NothingLeftBehind'
  BY <1>3 DEF NothingLeftBehind
<1> QED BY <1>4, <1>5, <1>6, <1>7, <1>8 DEF Consistent

LEMMA PerformConsistent ==
    ASSUME TypeOK, Consistent, NEW r \in Request, Perform(r)
    PROVE  Consistent'
<1>1. Performed(r) /\ Accepted(r) /\ Writes(r, Doomed(r))
  BY DEF Perform, Performed
<1> QED
  BY <1>1, CreateElementConsistent, SetAccessConsistent, RemoveElementConsistent,
     CreateCardConsistent, DeleteCardConsistent, CreateLinkConsistent,
     DeleteLinkConsistent, RecordViewsConsistent, CreateCharacterConsistent,
     UpdateCharacterConsistent, RemoveCharacterConsistent, UpdateTextConsistent,
     UpdateMemberConsistent, RemoveMemberConsistent, RemoveCampaignConsistent
  DEF Writes

\* The rows of a campaign are consistent after any history of atomic requests.
THEOREM AlwaysConsistent == AtomicSpec => []Consistent
<1>1. ContentInit => Consistent
  <2> SUFFICES ASSUME ContentInit PROVE Consistent
    OBVIOUS
  <2>1. /\ \A e \in ElementId : ~HasRow(element, e)
        /\ \A h \in CharacterId : ~HasRow(character, h)
        /\ \A c \in CardId : ~HasRow(card, c)
        /\ \A l \in LinkId : ~HasRow(link, l)
    BY DEF ContentInit, HasRow, Mark
  <2>2. NoHiddenCards /\ OneCardPerSource /\ LinksWellFormed /\ NoOrphanViews
        /\ MasterHasNothingPrivate /\ OneActiveCharacter
    BY <2>1 DEF ContentInit, NoHiddenCards, OneCardPerSource, LinksWellFormed, NoOrphanViews,
                MasterHasNothingPrivate, OneActiveCharacter
  <2>3. CampaignExists /\ OneOwner
    BY ContentAssumption DEF ContentInit, CampaignExists, OneOwner
  <2> QED BY <2>2, <2>3 DEF Consistent, NothingLeftBehind
<1>2. TypeOK /\ Consistent /\ [AtomicNext]_content => Consistent'
  <2> SUFFICES ASSUME TypeOK, Consistent, [AtomicNext]_content PROVE Consistent'
    OBVIOUS
  <2>1. CASE \E r \in Request : Perform(r)
    BY <2>1, PerformConsistent
  <2>2. CASE \E u \in Users, a \in AssignableRole : JoinCampaign(u, a)
    BY <2>2, JoinConsistent
  <2>3. CASE UNCHANGED content
    <3>1. NothingLeftBehind'
      BY <2>3 DEF content, Consistent, NothingLeftBehind, CampaignExists, Exists, HasRow
    <3>2. OneActiveCharacter'
      BY <2>3 DEF content, Consistent, OneActiveCharacter, HasRow
    <3> QED BY <2>3, <3>1, <3>2, CharacterStepKeeps DEF content, Consistent, HasRow
  <2> QED BY <2>1, <2>2, <2>3 DEF AtomicNext
<1> QED BY <1>1, <1>2, TypeCorrect, PTL DEF AtomicSpec
=============================================================================
