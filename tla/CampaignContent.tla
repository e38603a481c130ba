--------------------------- MODULE CampaignContent ---------------------------
(***************************************************************************)
(* The rows of one campaign in the database, and what each backend request *)
(* needs and writes: members and their roles, campaign elements, player    *)
(* characters, the investigation board's cards and links, and the          *)
(* first-view markers of the members (entity_views).  CampaignAtomic runs  *)
(* a request in one step; CampaignRequests runs it the way the services    *)
(* do, with a check before the transaction and a lock inside it.           *)
(***************************************************************************)
EXTENDS Integers, FiniteSets

CONSTANTS
    Users,          \* accounts that take part in the campaign
    Master,         \* the account that created it
    ElementId,      \* ids of campaign elements (notes, locations, NPCs ...)
    CharacterId,    \* ids of player characters
    CardId,         \* ids of board cards: numbers, the service sorts them
    LinkId,         \* ids of board links
    Texts,          \* what an editable text field may hold
    BlankText,      \* what it holds when the row is created
    Free,           \* the source of a card that refers to nothing
    Unused, Deleted \* marks of an id not issued yet, and of a deleted row

Access == {"PRIVATE", "MASTER_ONLY", "SHARED"}
Role == {"OWNER", "PLAYER", "VIEWER"}
AssignableRole == {"PLAYER", "VIEWER"}
ElementType == {"NOTE", "OTHER"}

EntityId == ElementId \cup CardId \cup LinkId
ElementRow == [author : Users, access : Access]
CharacterRow == [owner : Users, active : BOOLEAN]
Source == {Free} \cup ElementId \cup CharacterId
LinkRow == CardId \X CardId
Mark == {Unused, Deleted}

\* Ids are uuids: no id names two rows, and a mark is no row.
ASSUME ContentAssumption ==
    /\ Master \in Users
    /\ BlankText \in Texts
    /\ CardId \subseteq Nat
    /\ Users \cap {"NONE"} = {}
    /\ ElementId \cap CharacterId = {} /\ ElementId \cap CardId = {}
    /\ ElementId \cap LinkId = {} /\ CardId \cap LinkId = {}
    /\ Free \notin ElementId \cup CharacterId
    /\ Unused # Deleted
    /\ \A m \in Mark : /\ m \notin ElementRow /\ m \notin CharacterRow
                       /\ m \notin Source /\ m \notin LinkRow

VARIABLES
    role,       \* role[u]: the role in u's membership row, "NONE" without one
    element,    \* element[e]: the element's row, or a mark
    character,  \* character[h]: the character's row, or a mark
    card,       \* card[c]: what the card refers to, or a mark
    link,       \* link[l]: <<fromCardId, toCardId>>, or a mark
    text,       \* text[i]: the editable text of an element, card or link
    views       \* entity_views: <<u, i>> when u's member row has seen i

content == <<role, element, character, card, link, text, views>>

-----------------------------------------------------------------------------
(* What the rows say.                                                       *)

\* Deleting the campaign cascades to every member, the master's row included.
CampaignExists == role[Master] # "NONE"

IsMember(u) == role[u] # "NONE"
IsContributor(u) == role[u] \in {"OWNER", "PLAYER"}
HasRow(table, i) == table[i] \notin Mark

Readable(u, e) ==
    /\ HasRow(element, e)
    /\ \/ element[e].access = "SHARED" /\ IsMember(u)
       \/ element[e].access = "MASTER_ONLY" /\ role[u] = "OWNER"
       \/ element[e].author = u /\ IsContributor(u)

Editable(u, e) ==
    /\ HasRow(element, e)
    /\ element[e].author = u
    /\ IsContributor(u)

VisibleCard(c) ==
    /\ HasRow(card, c)
    /\ \/ card[c] = Free
       \/ card[c] \in ElementId /\ HasRow(element, card[c])
                                /\ element[card[c]].access = "SHARED"
       \/ card[c] \in CharacterId /\ HasRow(character, card[c])

VisibleLink(l) ==
    HasRow(link, l) /\ VisibleCard(link[l][1]) /\ VisibleCard(link[l][2])

Visible(u, i) ==
    \/ i \in ElementId /\ Readable(u, i)
    \/ i \in CardId /\ VisibleCard(i)
    \/ i \in LinkId /\ VisibleLink(i)

Exists(i) ==
    \/ i \in ElementId /\ HasRow(element, i)
    \/ i \in CardId /\ HasRow(card, i)
    \/ i \in LinkId /\ HasRow(link, i)

\* Mutant: only element references are looked up.
CardsOfElements(s) == {c \in CardId : card[c] = s /\ s \in ElementId}

CardsOf(s) == {c \in CardId : card[c] = s}
LinksAt(cards) ==
    {l \in LinkId : HasRow(link, l) /\ (link[l][1] \in cards \/ link[l][2] \in cards)}

\* Mutant: the master may use any access.
AnyAccess(u, a) == a \in Access

\* The master keeps elements to themself with MASTER_ONLY; PRIVATE is a player's.
ValidAccess(u, a) == ~(role[u] = "OWNER" /\ a = "PRIVATE")

\* Mutant: the ids are stored in the order the user named them.
AsNamed(a, b) == <<a, b>>

Sorted(a, b) == IF a < b THEN <<a, b>> ELSE <<b, a>>

\* Mutant: the index does not see the row's own campaign and owner.
NoActiveCharacterIndex(u, except) == FALSE

HasActiveCharacter(u, except) ==
    \E h \in CharacterId \ {except} :
        /\ HasRow(character, h)
        /\ character[h].owner = u
        /\ character[h].active

=============================================================================
