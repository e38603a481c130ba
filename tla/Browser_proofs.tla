----------------------------- MODULE Browser_proofs -----------------------------
(***************************************************************************)
(* What the pages of the browser promise for any number of steps, batches, *)
(* faults, pages and materials: redirects end and keep an invitation, only *)
(* what was shown is recorded as seen, and what is deleted stays hidden.   *)
(***************************************************************************)
EXTENDS Navigation, EntityViews, Materials, TLAPS

(* Navigation.                                                              *)

Pages == Protected \cup Public \cup {"invitation", "other"}
Items == Materials \cup {Nothing}
Addresses == [page : Pages, item : Items, invitation : BOOLEAN]

\* No page would redirect from here.
Settled ==
    /\ session = "out" => at.page \notin Protected \cup {"invitation"}
    /\ session = "in" => at.page \notin Public
    /\ at.page # "other"
    /\ session = "in" /\ seen \in Roles =>
         /\ at.page # "campaign"
         /\ at.page = "elements" => seen = "OWNER" /\ ~(opened /\ at.item = "ownNote")
         /\ at.page = "case" => seen # "OWNER" /\ ~(seen = "PLAYER" /\ opened /\ at.item = "ownNote")
         /\ at.page = "notes" => seen # "VIEWER" /\ ~(opened /\ at.item \in {"otherNote", "material"})

\* One redirect is left at most: to sign in, or from the user's own note to the notes.
OneLeft ==
    \/ Settled
    \/ at.page = "campaigns"
    \/ at.page = "case" /\ seen = "PLAYER"
    \/ at.page = "elements" /\ seen = "OWNER"

RedirectsBounded ==
    /\ redirects \in {0, 1, 2}
    /\ redirects = 1 => OneLeft
    /\ redirects = 2 => Settled

\* An invitation that is still to be accepted is open, or carried by a page for guests.
InvitationCarried ==
    invited => at.page = "invitation" \/ (at.invitation /\ at.page \in Public)

NavigationInv == at \in Addresses /\ InvitationCarried /\ RedirectsBounded

LEMMA AddressFields ==
  ASSUME NEW p \in Pages, NEW i \in Items
  PROVE  /\ Address(p, i) \in Addresses
         /\ Address(p, i).page = p /\ Address(p, i).item = i /\ Address(p, i).invitation = FALSE
BY DEF Address, Addresses

LEMMA PageFields ==
  ASSUME NEW p \in Pages
  PROVE  /\ Page(p) \in Addresses
         /\ Page(p).page = p /\ Page(p).item = Nothing /\ Page(p).invitation = FALSE
         /\ WithInvitation(p) \in Addresses
         /\ WithInvitation(p).page = p /\ WithInvitation(p).invitation = TRUE
BY DEF Page, WithInvitation, Address, Addresses, Items

LEMMA PagesAre ==
  Pages = {"campaigns", "account", "campaign", "board", "elements", "case", "notes", "characters",
           "members", "invitations", "settings", "sign-in", "sign-up", "invitation", "other"}
BY DEF Pages, Protected, Public, Workspace, Sections, Management

LEMMA NavigationInitInv == NavigationInit => NavigationInv
<1> SUFFICES ASSUME NavigationInit PROVE NavigationInv
  OBVIOUS
<1>1. at \in Addresses
  BY PageFields, PagesAre DEF NavigationInit
<1> QED BY <1>1 DEF NavigationInit, NavigationInv, InvitationCarried, RedirectsBounded

\* A page redirects only when it is not settled.
LEMMA RedirectUnsettles ==
  ASSUME NavigationInv, Redirect
  PROVE  ~Settled
BY DEF Redirect, ProtectedRoute, PublicOnlyRoute, InvitationEntry, OtherPath, ElementsPage,
       CasePage, NotesPage, Shown, Settled, Public, Protected, Workspace, Sections, Management, Roles

\* Where a redirect leads is settled, but for the start page of a guest and the list that a
\* role is sent to with the user's own note.
LEMMA RedirectSettles ==
  ASSUME NavigationInv, Redirect
  PROVE  /\ at' \in Addresses /\ InvitationCarried'
         /\ redirects' = redirects + 1
         /\ OneLeft'
         /\ OneLeft => Settled'
<1> DEFINE Lands(p, i) ==
             /\ at' \in Addresses /\ at'.page = p /\ at'.item = i /\ at'.invitation = FALSE
<1> DEFINE Moved ==
             /\ redirects' = redirects + 1
             /\ opened' = (opened /\ at'.item = at.item)
             /\ UNCHANGED <<session, seen>>
<1>0. Moved
  BY DEF Redirect, ProtectedRoute, PublicOnlyRoute, InvitationEntry, OtherPath, ElementsPage,
     CasePage, NotesPage, RedirectTo
<1>a. at \in Addresses /\ at.item \in Items /\ InvitationCarried
  BY DEF NavigationInv, Addresses
<1>b. ASSUME NEW p \in {"elements", "case", "notes"}, at' = Address(p, at.item)
      PROVE  Lands(p, at.item)
  <2>1. p \in Pages
    BY PagesAre
  <2> QED BY <1>a, <1>b, <2>1, AddressFields
<1>c. ASSUME NEW p \in {"campaigns", "board"}, at' = Page(p)
      PROVE  Lands(p, Nothing)
  <2>1. p \in Pages
    BY PagesAre
  <2> QED BY <1>c, <2>1, PageFields
<1> HIDE DEF Lands
<1>1. CASE ProtectedRoute
  <2>1. Lands("sign-in", Nothing)
    BY <1>1, PageFields, PagesAre DEF ProtectedRoute, RedirectTo, Lands
  <2>2. at.page \in Protected /\ session = "out" /\ invited' = invited
    BY <1>1 DEF ProtectedRoute
  <2>3. InvitationCarried'
    BY <1>a, <2>2 DEF InvitationCarried, Protected, Public, Workspace, Sections, Management
  <2>4. Settled'
    BY <1>0, <2>1, <2>2 DEF Lands, Settled, Protected, Public, Workspace, Sections, Management
  <2> QED BY <1>0, <2>1, <2>3, <2>4 DEF Lands, OneLeft
<1>2. CASE PublicOnlyRoute
  <2>1. /\ at' \in Addresses /\ at'.page \in {"invitation", "campaigns"}
        /\ at.invitation => at'.page = "invitation"
    BY <1>2, PageFields, PagesAre DEF PublicOnlyRoute, RedirectTo
  <2>2. at.page \in Public /\ session = "in" /\ invited' = invited
    BY <1>2 DEF PublicOnlyRoute
  <2>3. InvitationCarried'
    BY <1>a, <2>1, <2>2 DEF InvitationCarried, Public
  <2>4. Settled'
    BY <1>0, <2>1, <2>2 DEF Settled, Public
  <2> QED BY <1>0, <2>1, <2>3, <2>4 DEF OneLeft
<1>3. CASE InvitationEntry
  <2>1. at' \in Addresses /\ at'.page = "sign-in" /\ at'.invitation = TRUE
    BY <1>3, PageFields, PagesAre DEF InvitationEntry, RedirectTo
  <2>2. session = "out"
    BY <1>3 DEF InvitationEntry
  <2>3. InvitationCarried'
    BY <2>1 DEF InvitationCarried, Public
  <2>4. Settled'
    BY <1>0, <2>1, <2>2 DEF Settled, Protected, Public, Workspace, Sections, Management
  <2> QED BY <1>0, <2>1, <2>3, <2>4 DEF OneLeft
<1>4. CASE OtherPath
  <2>1. \/ at.page = "other" /\ Lands("campaigns", Nothing)
        \/ at.page = "campaign" /\ session = "in" /\ Lands("board", Nothing)
    <3>1. \/ at.page = "other" /\ at' = Page("campaigns")
          \/ at.page = "campaign" /\ session = "in" /\ at' = Page("board")
      BY <1>4 DEF OtherPath, RedirectTo
    <3> QED BY <3>1, <1>c
  <2>2. InvitationCarried'
    BY <1>4, <1>a, <2>1 DEF OtherPath, InvitationCarried, Public
  <2>3. at.page = "other" => OneLeft' /\ ~OneLeft
    BY <2>1 DEF Lands, OneLeft, Settled
  <2>4. at.page = "campaign" /\ session = "in" => Settled'
    BY <1>0, <2>1 DEF Lands, Settled, Public
  <2> QED BY <1>0, <2>1, <2>2, <2>3, <2>4 DEF Lands, OneLeft
<1>5. CASE ElementsPage
  <2>1. \/ seen # "OWNER" /\ Lands("case", at.item)
        \/ seen = "OWNER" /\ opened /\ at.item = "ownNote" /\ Lands("notes", at.item)
    <3>1. \/ seen # "OWNER" /\ at' = Address("case", at.item)
          \/ seen = "OWNER" /\ opened /\ at.item = "ownNote" /\ at' = Address("notes", at.item)
      BY <1>5 DEF ElementsPage, RedirectTo
    <3> QED BY <3>1, <1>b
  <2>2. at.page = "elements" /\ session = "in" /\ seen \in Roles /\ invited' = invited
    BY <1>5 DEF ElementsPage, Shown
  <2>3. InvitationCarried'
    BY <1>a, <2>2 DEF InvitationCarried, Public
  <2>4. OneLeft' /\ (OneLeft => Settled')
    BY <1>0, <2>1, <2>2 DEF Lands, OneLeft, Settled, Public, Roles
  <2> QED BY <1>0, <2>1, <2>3, <2>4 DEF Lands
<1>6. CASE CasePage
  <2>1. \/ seen = "OWNER" /\ Lands("elements", at.item)
        \/ seen = "PLAYER" /\ opened /\ at.item = "ownNote" /\ Lands("notes", at.item)
    <3>1. \/ seen = "OWNER" /\ at' = Address("elements", at.item)
          \/ seen = "PLAYER" /\ opened /\ at.item = "ownNote" /\ at' = Address("notes", at.item)
      BY <1>6 DEF CasePage, RedirectTo
    <3> QED BY <3>1, <1>b
  <2>2. at.page = "case" /\ session = "in" /\ seen \in Roles /\ invited' = invited
    BY <1>6 DEF CasePage, Shown
  <2>3. InvitationCarried'
    BY <1>a, <2>2 DEF InvitationCarried, Public
  <2>4. OneLeft' /\ (OneLeft => Settled')
    BY <1>0, <2>1, <2>2 DEF Lands, OneLeft, Settled, Public, Roles
  <2> QED BY <1>0, <2>1, <2>3, <2>4 DEF Lands
<1>7. CASE NotesPage
  <2>1. \/ seen = "VIEWER" /\ Lands("case", at.item)
        \/ /\ seen # "VIEWER" /\ opened /\ at.item \in {"otherNote", "material"}
           /\ Lands(IF seen = "OWNER" THEN "elements" ELSE "case", at.item)
    <3>1. \/ seen = "VIEWER" /\ at' = Address("case", at.item)
          \/ /\ seen # "VIEWER" /\ opened /\ at.item \in {"otherNote", "material"}
             /\ at' = Address(IF seen = "OWNER" THEN "elements" ELSE "case", at.item)
      BY <1>7 DEF NotesPage, RedirectTo
    <3> QED BY <3>1, <1>b
  <2>2. at.page = "notes" /\ session = "in" /\ seen \in Roles /\ invited' = invited
    BY <1>7 DEF NotesPage, Shown
  <2>3. InvitationCarried'
    BY <1>a, <2>2 DEF InvitationCarried, Public
  <2>4. Settled'
    BY <1>0, <2>1, <2>2 DEF Lands, Settled, Public, Roles
  <2> QED BY <1>0, <2>1, <2>3, <2>4 DEF Lands, OneLeft
<1> QED BY <1>1, <1>2, <1>3, <1>4, <1>5, <1>6, <1>7 DEF Redirect

LEMMA NavigationStep ==
  ASSUME NavigationInv, [NavigationNext]_navigationVars
  PROVE  NavigationInv'
<1>1. CASE Redirect
  <2>1. redirects' \in {1, 2} /\ (redirects' = 1 => OneLeft') /\ (redirects' = 2 => Settled')
    BY <1>1, RedirectSettles, RedirectUnsettles DEF NavigationInv, RedirectsBounded
  <2> QED BY <1>1, <2>1, RedirectSettles DEF NavigationInv, RedirectsBounded
<1>2. CASE Restored \/ RoleArrives \/ MaterialArrives
  BY <1>2 DEF Restored, RoleArrives, MaterialArrives, Learn, NavigationInv, InvitationCarried,
     RedirectsBounded
<1>3. CASE FollowMenu \/ FollowSearch \/ FollowList \/ FollowCard \/ FollowCampaign \/ Visit
  <2>1. invited' = FALSE /\ redirects' = 0
    BY <1>3 DEF FollowMenu, FollowSearch, FollowList, FollowCard, FollowCampaign, Visit, Go
  <2>2. at' \in Addresses
    <3>1. CASE FollowMenu
      <4>1. PICK target \in MenuOf(seen) : at' = Page(target)
        BY <3>1 DEF FollowMenu, Go
      <4>2. target \in Pages
        BY PagesAre DEF MenuOf, Management
      <4> QED BY <4>1, <4>2, PageFields
    <3>2. CASE FollowSearch
      <4>1. PICK item \in Materials : at' = Address(SectionOf(seen, item), item)
        BY <3>2 DEF FollowSearch, Go
      <4>2. SectionOf(seen, item) \in Pages /\ item \in Items
        BY PagesAre DEF SectionOf, Items
      <4> QED BY <4>1, <4>2, AddressFields
    <3>3. CASE FollowList
      <4>1. PICK item \in Listed(at.page, seen) : at' = Address(at.page, item)
        BY <3>3 DEF FollowList, Go
      <4>2. at.page \in Pages /\ item \in Items
        BY DEF NavigationInv, Addresses, Listed, Items, Materials
      <4> QED BY <4>1, <4>2, AddressFields
    <3>4. CASE FollowCard
      <4>1. PICK item \in Materials : at' = Address("elements", item)
        BY <3>4 DEF FollowCard, Go
      <4> QED BY <4>1, AddressFields, PagesAre DEF Items
    <3>5. CASE FollowCampaign
      <4>1. PICK target \in {"campaign", "elements", "case"} : at' = Page(target)
        BY <3>5 DEF FollowCampaign, Go
      <4> QED BY <4>1, PageFields, PagesAre
    <3>6. CASE Visit
      <4>1. \/ \E q \in {"sign-up", "invitation", "other"} \cup Protected : at' = Page(q)
            \/ \E q \in {"elements", "case", "notes"}, i \in Materials : at' = Address(q, i)
        BY <3>6 DEF Visit, Go
      <4>2. CASE \E q \in {"sign-up", "invitation", "other"} \cup Protected : at' = Page(q)
        <5>1. PICK q \in {"sign-up", "invitation", "other"} \cup Protected : at' = Page(q)
          BY <4>2
        <5>2. q \in Pages
          BY DEF Pages, Public
        <5> QED BY <5>1, <5>2, PageFields
      <4>3. CASE \E q \in {"elements", "case", "notes"}, i \in Materials : at' = Address(q, i)
        <5>1. PICK q \in {"elements", "case", "notes"}, i \in Materials : at' = Address(q, i)
          BY <4>3
        <5>2. q \in Pages /\ i \in Items
          BY PagesAre DEF Items
        <5> QED BY <5>1, <5>2, AddressFields
      <4> QED BY <4>1, <4>2, <4>3
    <3> QED BY <1>3, <3>1, <3>2, <3>3, <3>4, <3>5, <3>6
  <2> QED BY <2>1, <2>2 DEF NavigationInv, InvitationCarried, RedirectsBounded
<1>4. CASE Switch
  <2>1. /\ at' \in Addresses /\ at'.page \in Public /\ at'.invitation = at.invitation
        /\ at.page \in Public /\ invited' = invited /\ redirects' = 0
    BY <1>4 DEF Switch, Go, NavigationInv, Addresses, Pages, Public
  <2> QED BY <2>1 DEF NavigationInv, InvitationCarried, RedirectsBounded, Public
<1>5. CASE Enter \/ SignOut
  BY <1>5 DEF Enter, SignOut, NavigationInv, InvitationCarried, RedirectsBounded
<1>6. CASE Accept
  <2>1. at' \in Addresses
    BY <1>6, PageFields, PagesAre DEF Accept
  <2> QED BY <1>6, <2>1 DEF Accept, NavigationInv, InvitationCarried, RedirectsBounded
<1>7. CASE RoleChanges \/ UNCHANGED navigationVars
  BY <1>7 DEF RoleChanges, navigationVars, NavigationInv, InvitationCarried, RedirectsBounded,
     OneLeft, Settled
<1> QED BY <1>1, <1>2, <1>3, <1>4, <1>5, <1>6, <1>7 DEF NavigationNext

\* The pages never send a user around in a loop, however long the session lasts.
THEOREM RedirectsAlwaysEnd == NavigationSpec => []RedirectsEnd
<1>1. NavigationInv => RedirectsEnd
  BY DEF NavigationInv, RedirectsBounded, RedirectsEnd
<1> QED BY <1>1, NavigationInitInv, NavigationStep, PTL DEF NavigationSpec

\* An invitation survives signing in and signing up, in whatever order the answers arrive.
THEOREM InvitationAlwaysKept == NavigationSpec => []InvitationKept
<1>1. NavigationInv => InvitationKept
  BY DEF NavigationInv, InvitationCarried, InvitationKept
<1> QED BY <1>1, NavigationInitInv, NavigationStep, PTL DEF NavigationSpec

\* Where a role may be sent so that its pages leave it there, whatever they learn of the material.
StraightFor(r, to) ==
    /\ r \in Roles /\ to.page \in MenuOf(r)
    /\ to.page \in {"elements", "case"} /\ WritesNotes(r) => to.item # "ownNote"
    /\ to.page = "notes" => to.item \notin {"otherNote", "material"}

LinkInv ==
    via = "link" =>
        /\ session # "restoring" /\ at.page \in Workspace
        /\ session = "in" => StraightFor(seen, at)

\* The menu, the search and the lists only show such links.
LEMMA LinksAreStraight ==
  ASSUME NavigationInv, FollowMenu \/ FollowSearch \/ FollowList
  PROVE  session' = "in" /\ at'.page \in Workspace /\ StraightFor(seen', at')
<1>1. session' = "in" /\ seen' = seen /\ seen \in Roles
  BY DEF FollowMenu, FollowSearch, FollowList, InWorkspace, Go
<1>2. CASE FollowMenu
  <2>1. PICK target \in MenuOf(seen) : at' = Page(target)
    BY <1>2 DEF FollowMenu, Go
  <2>2. target \in Workspace /\ target \in Pages
    BY DEF MenuOf, Management, Workspace, Sections, Pages, Protected
  <2>3. at'.page = target /\ at'.item = Nothing
    BY <2>1, <2>2, PageFields
  <2> QED BY <1>1, <2>1, <2>2, <2>3 DEF StraightFor, Nothing
<1>3. CASE FollowSearch
  <2>1. PICK item \in Materials \ {"missing"} : at' = Address(SectionOf(seen, item), item)
    BY <1>3 DEF FollowSearch, Go
  <2>2. SectionOf(seen, item) \in Pages /\ item \in Items
    BY PagesAre DEF SectionOf, Items
  <2>3. at'.page = SectionOf(seen, item) /\ at'.item = item
    BY <2>1, <2>2, AddressFields
  <2>4. SectionOf(seen, item) \in MenuOf(seen) /\ SectionOf(seen, item) \in Workspace
    BY <1>1 DEF SectionOf, MenuOf, WritesNotes, Roles, Workspace, Sections
  <2> QED BY <1>1, <2>3, <2>4 DEF StraightFor, SectionOf, WritesNotes, Roles, Materials
<1>4. CASE FollowList
  <2>1. PICK item \in Listed(at.page, seen) : at' = Address(at.page, item)
    BY <1>4 DEF FollowList, Go
  <2>2. at.page \in {"elements", "case", "notes"} /\ at.page \in MenuOf(seen)
    BY <1>1, <1>4 DEF FollowList, HasList, MenuOf, WritesNotes, Roles
  <2>3. at.page \in Pages /\ item \in Items
    BY <2>2, PagesAre DEF Items, Materials, Listed
  <2>4. at'.page = at.page /\ at'.item = item
    BY <2>1, <2>3, AddressFields
  <2>5. at.page \in Workspace
    BY <2>2 DEF Workspace, Sections
  <2> QED BY <1>1, <2>2, <2>4, <2>5 DEF StraightFor, Listed, WritesNotes, Roles
<1> QED BY <1>2, <1>3, <1>4

LEMMA LinkStep ==
  ASSUME NavigationInv, LinkInv, [NavigationNext]_navigationVars
  PROVE  LinkInv'
<1>1. CASE Redirect \/ FollowCard \/ FollowCampaign \/ Visit \/ Switch \/ Accept
  <2>1. via' \in {"redirect", "address"}
    BY <1>1 DEF Redirect, ProtectedRoute, PublicOnlyRoute, InvitationEntry, OtherPath, ElementsPage,
       CasePage, NotesPage, RedirectTo, FollowCard, FollowCampaign, Visit, Switch, Accept, Go
  <2> QED BY <2>1 DEF LinkInv
<1>2. CASE FollowMenu \/ FollowSearch \/ FollowList
  BY <1>2, LinksAreStraight DEF LinkInv
<1>3. CASE Restored \/ MaterialArrives
  BY <1>3 DEF Restored, MaterialArrives, Learn, LinkInv
<1>4. CASE RoleArrives
  <2>1. session = "in" /\ UNCHANGED <<at, session>> /\ via' = IF seen = "unknown" THEN via ELSE "address"
    BY <1>4 DEF RoleArrives, Learn
  <2>2. via' = "link" => seen = "unknown" /\ via = "link"
    BY <2>1
  <2>3. via' # "link"
    BY <2>1, <2>2 DEF LinkInv, StraightFor, Roles
  <2> QED BY <2>3 DEF LinkInv
<1>5. CASE Enter
  <2>1. at.page \in Public /\ UNCHANGED <<at, via>>
    BY <1>5 DEF Enter
  <2> QED BY <2>1 DEF LinkInv, Public, Workspace, Sections, Management
<1>6. CASE SignOut
  BY <1>6 DEF SignOut, LinkInv
<1>7. CASE RoleChanges \/ UNCHANGED navigationVars
  BY <1>7 DEF RoleChanges, navigationVars, LinkInv
<1> QED BY <1>1, <1>2, <1>3, <1>4, <1>5, <1>6, <1>7 DEF NavigationNext

\* A link that is shown for a role leads straight to its page, whatever arrives on the way.
THEOREM LinksAlwaysLeadStraight == NavigationSpec => MenuLeadsStraight
<1> DEFINE Inv == NavigationInv /\ LinkInv
<1>1. NavigationInit => Inv
  BY NavigationInitInv DEF NavigationInit, LinkInv
<1>2. Inv /\ [NavigationNext]_navigationVars => Inv'
  BY NavigationStep, LinkStep
<1>3. Inv /\ OnLink => ~Redirect /\ ~Refused
  <2> SUFFICES ASSUME Inv, OnLink PROVE ~Redirect /\ ~Refused
    OBVIOUS
  <2>1. session = "in" /\ at.page \in Workspace /\ StraightFor(seen, at)
    BY DEF OnLink, LinkInv
  <2>2. seen \in Roles /\ at.page \in MenuOf(seen) /\ at.page # "campaign"
    BY <2>1 DEF StraightFor, MenuOf, Management
  <2>3. ~Refused
    BY <2>2 DEF Refused, MenuOf, Management, Roles
  <2>4. Settled
    BY <2>1, <2>2 DEF StraightFor, Settled, MenuOf, WritesNotes, Roles, Workspace, Sections,
       Management, Public
  <2> QED BY <2>3, <2>4, RedirectUnsettles
<1> HIDE DEF Inv
<1> QED BY <1>1, <1>2, <1>3, PTL DEF NavigationSpec, MenuLeadsStraight

-----------------------------------------------------------------------------
(* View marks.                                                              *)

Requests(shown) == [all : SUBSET shown, sent : SUBSET shown, step : {"post", "fetch", "rest"},
                    again : BOOLEAN, current : BOOLEAN]

\* Whatever is sent, was sent or may be sent again has been on the screen.
ViewsInv ==
    /\ viewed \subseteq displayed /\ onPage \subseteq displayed
    /\ posts \subseteq Requests(displayed)
    /\ failures \subseteq SUBSET displayed

LEMMA RequestsGrow ==
  ASSUME NEW D, NEW E, D \subseteq E
  PROVE  Requests(D) \subseteq Requests(E)
BY DEF Requests

LEMMA PostIsARequest ==
  ASSUME NEW D, NEW b \in SUBSET D
  PROVE  Post(b) \in Requests(D)
BY DEF Post, Requests

LEMMA StaleRequests ==
  ASSUME NEW D, NEW open \in SUBSET Requests(D)
  PROVE  Stale(open) \subseteq Requests(D)
<1> SUFFICES ASSUME NEW p \in open PROVE [p EXCEPT !.current = FALSE] \in Requests(D)
  BY DEF Stale
<1> QED BY DEF Requests

LEMMA BatchesArePieces ==
  ASSUME NEW added, NEW b \in Batches(added)
  PROVE  b \subseteq added
BY DEF Batches

LEMMA ViewsStep ==
  ASSUME ViewsInv, [ViewsNext]_viewVars
  PROVE  ViewsInv'
<1> USE DEF ViewsInv
<1>1. ASSUME NEW e, Add(e) \/ Hide(e) PROVE ViewsInv'
  BY <1>1 DEF Add, Hide, pageVars
<1>2. CASE RemoveMember
  BY <1>2 DEF RemoveMember, pageVars
<1>3. ASSUME NEW how, Read(how) PROVE ViewsInv'
  BY <1>3 DEF Read, pageVars, serverVars
<1>4. ASSUME NEW r \in reads, Arrive(r) PROVE ViewsInv'
  <2>1. /\ posts' \in {posts, Stale(posts)} /\ failures' \in {failures, {}}
        /\ UNCHANGED <<viewed, onPage, displayed>>
    BY <1>4 DEF Arrive, serverVars
  <2> QED BY <2>1, StaleRequests
<1>5. CASE Render
  <2>1. /\ displayed' = displayed \cup board.shown /\ onPage' = board.shown
        /\ UNCHANGED <<viewed, posts, failures>>
    BY <1>5 DEF Render, serverVars
  <2>2. Requests(displayed) \subseteq Requests(displayed')
    BY <2>1, RequestsGrow
  <2> QED BY <2>1, <2>2
<1>6. CASE Mark
  <2> DEFINE added == board.shown \ tracked
  <2>1. /\ added \subseteq displayed
        /\ posts' = posts \cup {Post(b) : b \in Batches(added)}
        /\ UNCHANGED <<viewed, onPage, failures, displayed>>
    BY <1>6 DEF Mark, serverVars
  <2>2. \A b \in Batches(added) : Post(b) \in Requests(displayed)
    BY <2>1, BatchesArePieces, PostIsARequest
  <2> HIDE DEF added
  <2> QED BY <2>1, <2>2
<1>7. ASSUME NEW p \in posts, PostStep(p) PROVE ViewsInv'
  <2>1. p \in Requests(displayed) /\ p.sent \subseteq displayed /\ p.all \subseteq displayed
    BY DEF Requests
  <2>2. CASE Recorded(p)
    BY <2>1, <2>2 DEF Recorded, pageVars
  <2>3. CASE Error(p)
    <3>1. viewed' \subseteq displayed
      BY <2>1, <2>3 DEF Error
    <3>2. CASE posts' = (posts \ {p}) \cup {[p EXCEPT !.again = TRUE]} /\ UNCHANGED pageVars
      <4>1. [p EXCEPT !.again = TRUE] \in Requests(displayed)
        BY <2>1 DEF Requests
      <4> QED BY <3>1, <3>2, <4>1 DEF pageVars
    <3>3. CASE Failed(p)
      BY <2>1, <3>1, <3>3 DEF Failed
    <3> QED BY <2>3, <3>2, <3>3 DEF Error
  <2>4. CASE NotFound(p)
    <3>1. [p EXCEPT !.step = "fetch", !.again = FALSE] \in Requests(displayed)
      BY <2>1 DEF Requests
    <3> QED BY <2>4, <3>1 DEF NotFound, pageVars, serverVars
  <2>5. CASE GiveUp(p)
    BY <2>1, <2>5 DEF GiveUp, Failed, serverVars
  <2>6. CASE Fetched(p)
    <3> DEFINE rest == p.sent \cap Visible
    <3>1. [p EXCEPT !.sent = rest, !.step = "rest"] \in Requests(displayed)
      BY <2>1 DEF Requests
    <3>2. /\ posts' \subseteq posts \cup {[p EXCEPT !.sent = rest, !.step = "rest"]}
          /\ UNCHANGED <<viewed, onPage, failures, displayed>>
      BY <2>6 DEF Fetched, pageVars, serverVars
    <3> QED BY <3>1, <3>2
  <2> QED BY <1>7, <2>2, <2>3, <2>4, <2>5, <2>6 DEF PostStep
<1>8. CASE Retry
  <2>1. /\ posts' = posts \cup {Post(b) : b \in failures} /\ failures' = {}
        /\ UNCHANGED <<viewed, onPage, displayed>>
    BY <1>8 DEF Retry, serverVars
  <2>2. \A b \in failures : Post(b) \in Requests(displayed)
    BY PostIsARequest
  <2> QED BY <2>1, <2>2
<1>9. CASE Leave
  <2>1. posts' = Stale(posts) /\ onPage' = {} /\ failures' = {} /\ UNCHANGED <<viewed, displayed>>
    BY <1>9 DEF Leave, serverVars
  <2> QED BY <2>1, StaleRequests
<1>10. CASE UNCHANGED viewVars
  BY <1>10 DEF viewVars
<1> QED BY <1>1, <1>2, <1>3, <1>4, <1>5, <1>6, <1>7, <1>8, <1>9, <1>10 DEF ViewsNext

\* Nothing is ever recorded as seen that the user has not had on the screen, for any number of
\* entities, any size of batch, and whatever is lost, refused or sent again.
THEOREM OnlyDisplayedIsEverViewed == ViewsSpec => []OnlyDisplayedIsViewed
<1>1. ViewsInit => ViewsInv
  BY DEF ViewsInit, ViewsInv
<1>2. ViewsInv => OnlyDisplayedIsViewed
  BY DEF ViewsInv, OnlyDisplayedIsViewed
<1> QED BY <1>1, <1>2, ViewsStep, PTL DEF ViewsSpec

\* A highlight goes only with its entity, a refresh by the user, or the page.
THEOREM HighlightsAlwaysSurvive == ViewsSpec => HighlightSurvives
<1> DEFINE Survives == \A e \in highlight :
           e \in highlight' \/ e \notin board'.shown \/ ~boardOpen'
           \/ \E r \in reads : r.how = "refresh" /\ reads' = reads \ {r}
<1>1. ASSUME [ViewsNext]_viewVars PROVE [Survives]_viewVars
  <2>1. CASE Mark
    BY <2>1 DEF Mark
  <2>2. CASE Leave
    BY <2>2 DEF Leave
  <2>3. CASE \E r \in reads : Arrive(r)
    BY <2>3 DEF Arrive
  <2>4. CASE UNCHANGED highlight
    BY <2>4
  <2>5. ASSUME NEW p \in posts, PostStep(p) PROVE UNCHANGED highlight
    BY <2>5 DEF PostStep, Recorded, Error, NotFound, GiveUp, Fetched, Failed, pageVars
  <2>6. CASE (\E e \in Entities : Add(e) \/ Hide(e)) \/ RemoveMember \/ Render \/ Retry
             \/ \E how \in {"refetch", "refresh"} : Read(how)
    BY <2>6 DEF Add, Hide, RemoveMember, Render, Retry, Read, pageVars
  <2> QED BY <1>1, <2>1, <2>2, <2>3, <2>4, <2>5, <2>6 DEF ViewsNext, viewVars
<1> QED BY <1>1, PTL DEF ViewsSpec, HighlightSurvives

\* What the page shows or has taken in hand has appeared on the server before.
Appeared == {e \in Entities : life[e] # "absent"}

HandTypes ==
    /\ life \in [Entities -> {"absent", "visible", "gone"}]
    /\ board.shown \cup tracked \subseteq Appeared
    /\ \A r \in reads : r.got.shown \subseteq Appeared
    /\ \A p \in posts : p.sent \subseteq p.all

HandInv == ViewsInv /\ HandTypes /\ TrackedIsInHand

\* What has appeared stays so, and nothing comes into sight that is not new to the page.
LEMMA HandTypesStep ==
  ASSUME ViewsInv, HandTypes, [ViewsNext]_viewVars
  PROVE  /\ HandTypes' /\ Appeared \subseteq Appeared'
         /\ (Visible' \cap Appeared) \subseteq Visible
<1> USE DEF HandTypes
<1>r. \A p \in posts : p \in Requests(displayed)
  BY DEF ViewsInv
<1>a. Visible \subseteq Appeared /\ Snapshot.shown = Visible
  BY DEF Visible, Appeared, Snapshot
<1>b. CASE UNCHANGED life
  <2>1. UNCHANGED <<life, Appeared, Visible>>
    BY <1>b DEF Appeared, Visible
  <2>2. CASE UNCHANGED <<board, tracked, reads, posts>>
    BY <2>1, <2>2
  <2>3. ASSUME NEW how, Read(how) PROVE HandTypes'
    BY <1>a, <2>1, <2>3 DEF Read, pageVars
  <2>4. ASSUME NEW r \in reads, Arrive(r) PROVE HandTypes'
    <3>1. /\ board' = r.got /\ reads' \subseteq reads /\ tracked' \in {tracked, {}}
          /\ posts' \in {posts, Stale(posts)}
      BY <2>4 DEF Arrive
    <3>2. \A p \in Stale(posts) : p.sent \subseteq p.all
      BY <1>r DEF Stale, Requests
    <3> QED BY <2>1, <3>1, <3>2
  <2>5. CASE Mark
    <3>1. /\ tracked' = tracked \cup (board.shown \ tracked) /\ UNCHANGED <<board, reads>>
          /\ posts' = posts \cup {Post(b) : b \in Batches(board.shown \ tracked)}
      BY <2>5 DEF Mark
    <3>2. \A b : Post(b).sent \subseteq Post(b).all
      BY DEF Post
    <3>3. \A p \in posts' : p.sent \subseteq p.all
      BY <3>1, <3>2
    <3> QED BY <2>1, <3>1, <3>3
  <2>6. ASSUME NEW p \in posts, PostStep(p) PROVE HandTypes'
    <3>1. board' \in {board, Snapshot} /\ UNCHANGED <<reads, tracked>>
      BY <2>6 DEF PostStep, Recorded, Error, NotFound, GiveUp, Fetched, Failed, pageVars
    <3>2. \E q : /\ posts' \subseteq posts \cup {q}
                 /\ q.sent \subseteq q.all
      <4>1. CASE posts' \subseteq posts
        BY <4>1
      <4>2. CASE posts' = (posts \ {p}) \cup {[p EXCEPT !.again = TRUE]}
        <5> WITNESS [p EXCEPT !.again = TRUE]
        <5> QED BY <1>r, <4>2 DEF Requests
      <4>3. CASE NotFound(p)
        <5> WITNESS [p EXCEPT !.step = "fetch", !.again = FALSE]
        <5> QED BY <1>r, <4>3 DEF Requests, NotFound
      <4>4. CASE Fetched(p)
        <5> WITNESS [p EXCEPT !.sent = p.sent \cap Visible, !.step = "rest"]
        <5> QED BY <1>r, <4>4 DEF Requests, Fetched
      <4> QED BY <2>6, <4>1, <4>2, <4>3, <4>4 DEF PostStep, Recorded, Error, GiveUp, Failed
    <3> QED BY <1>a, <2>1, <3>1, <3>2
  <2>7. CASE Retry
    <3>1. posts' = posts \cup {Post(b) : b \in failures} /\ UNCHANGED <<board, reads, tracked>>
      BY <2>7 DEF Retry
    <3>2. \A b : Post(b).sent \subseteq Post(b).all
      BY DEF Post
    <3> QED BY <2>1, <3>1, <3>2
  <2>8. CASE Leave
    <3>1. posts' = Stale(posts) /\ reads' = {} /\ tracked' = {} /\ UNCHANGED board
      BY <2>8 DEF Leave
    <3>2. \A p \in Stale(posts) : p.sent \subseteq p.all
      BY <1>r DEF Stale, Requests
    <3> QED BY <2>1, <3>1, <3>2
  <2>9. CASE (\E e \in Entities : Add(e) \/ Hide(e)) \/ RemoveMember \/ Render \/ UNCHANGED viewVars
    <3>1. UNCHANGED <<board, tracked, reads, posts>>
      BY <2>9 DEF Add, Hide, RemoveMember, Render, pageVars, viewVars
    <3> QED BY <2>2, <3>1
  <2> QED BY <2>1, <2>3, <2>4, <2>5, <2>6, <2>7, <2>8, <2>9 DEF ViewsNext
<1>c. ASSUME NEW e \in Entities, Add(e) \/ Hide(e) PROVE
         /\ HandTypes' /\ Appeared \subseteq Appeared' /\ (Visible' \cap Appeared) \subseteq Visible
  <2>1. /\ UNCHANGED <<board, tracked, reads, posts>>
        /\ life' \in {[life EXCEPT ![e] = "visible"], [life EXCEPT ![e] = "gone"]}
        /\ life[e] = "absent" \/ (life[e] = "visible" /\ life' = [life EXCEPT ![e] = "gone"])
    BY <1>c DEF Add, Hide, pageVars
  <2>2. \A f \in Entities : f # e => life'[f] = life[f]
    BY <2>1
  <2>3. Appeared \subseteq Appeared' /\ (Visible' \cap Appeared) \subseteq Visible
    BY <2>1, <2>2 DEF Appeared, Visible
  <2> QED BY <2>1, <2>3
<1>d. UNCHANGED life \/ \E e \in Entities : Add(e) \/ Hide(e)
  BY DEF ViewsNext, RemoveMember, Read, Arrive, Render, Mark, PostStep, Recorded, Error, NotFound,
     GiveUp, Fetched, Failed, Retry, Leave, serverVars, viewVars
<1> QED BY <1>b, <1>c, <1>d

\* What is sent, is in one of the batches.
LEMMA BatchesHoldAll ==
  ASSUME NEW added, NEW e \in added
  PROVE  \E b \in Batches(added) : e \in b
<1> DEFINE Rank(x) == Cardinality({f \in added : f < x})
           Piece(x) == {f \in added : Rank(f) \div BatchSize = Rank(x) \div BatchSize}
<1>1. Batches(added) = {Piece(x) : x \in added}
  BY DEF Batches
<1>2. e \in Piece(e)
  OBVIOUS
<1> HIDE DEF Piece
<1> QED BY <1>1, <1>2

LEMMA HandStep ==
  ASSUME HandInv, [ViewsNext]_viewVars
  PROVE  HandInv'
<1> USE DEF HandInv
<1>1. ViewsInv' /\ HandTypes' /\ Appeared \subseteq Appeared' /\ (Visible' \cap Appeared) \subseteq Visible
  BY ViewsStep, HandTypesStep
<1>r. \A p \in posts : p \in Requests(displayed)
  BY DEF ViewsInv
<1> SUFFICES ASSUME member', NEW e \in tracked' \cap Visible' PROVE InHand(e)'
  BY <1>1 DEF TrackedIsInHand
<1>2. ASSUME e \in tracked, member PROVE InHand(e) /\ e \in Visible
  BY <1>1, <1>2 DEF HandTypes, TrackedIsInHand
<1>3. CASE UNCHANGED <<viewed, posts, failures, tracked, member>>
  BY <1>2, <1>3 DEF InHand
<1>4. ASSUME NEW h \in Entities, Hide(h) PROVE InHand(e)'
  <2>1. UNCHANGED <<posts, failures, tracked, member>> /\ viewed' = viewed \ {h}
    BY <1>4 DEF Hide, pageVars
  <2>2. e # h
    BY <1>4 DEF Hide, Visible, HandTypes
  <2> QED BY <1>2, <2>1, <2>2 DEF InHand
<1>5. CASE RemoveMember
  BY <1>5 DEF RemoveMember
<1>6. ASSUME NEW r \in reads, Arrive(r) PROVE InHand(e)'
  <2>1. tracked' = {} \/ UNCHANGED <<viewed, posts, failures, tracked, member>>
    BY <1>6 DEF Arrive, serverVars
  <2> QED BY <1>3, <2>1
<1>7. CASE Mark
  <2> DEFINE added == board.shown \ tracked
  <2>1. /\ tracked' = tracked \cup added /\ posts' = posts \cup {Post(b) : b \in Batches(added)}
        /\ UNCHANGED <<viewed, failures, member>>
    BY <1>7 DEF Mark, serverVars
  <2>2. CASE e \in added
    <3>1. PICK b \in Batches(added) : e \in b
      BY <2>2, BatchesHoldAll
    <3>2. Post(b) \in posts' /\ Post(b).current /\ e \in Post(b).sent
      BY <2>1, <3>1 DEF Post
    <3> QED BY <3>2 DEF InHand
  <2>3. CASE e \in tracked
    BY <1>2, <2>1, <2>3 DEF InHand
  <2> QED BY <2>1, <2>2, <2>3
<1>8. ASSUME NEW p \in posts, PostStep(p) PROVE InHand(e)'
  <2>1. UNCHANGED <<tracked, life, member>>
    BY <1>8 DEF PostStep, Recorded, Error, NotFound, GiveUp, Fetched, Failed, pageVars, serverVars
  <2>2. InHand(e) /\ e \in Visible
    BY <1>2, <2>1
  <2>3. /\ viewed \subseteq viewed' /\ failures \subseteq failures' /\ posts \ {p} \subseteq posts'
    BY <1>8 DEF PostStep, Recorded, Error, NotFound, GiveUp, Fetched, Failed, pageVars, serverVars
  <2>4. ASSUME p.current, e \in p.sent
        PROVE  \/ e \in viewed' \/ \E q \in posts' : q.current /\ e \in q.sent
               \/ \E b \in failures' : e \in b
    <3>1. CASE Recorded(p)
      BY <2>4, <3>1 DEF Recorded
    <3>2. CASE Failed(p)
      BY <2>4, <3>2 DEF Failed, HandTypes
    <3>3. ASSUME NEW q, q \in posts', q.current = p.current, e \in q.sent
          PROVE  \E w \in posts' : w.current /\ e \in w.sent
      BY <2>4, <3>3
    <3>4. CASE posts' = (posts \ {p}) \cup {[p EXCEPT !.again = TRUE]}
      <4>1. LET q == [p EXCEPT !.again = TRUE]
            IN  q \in posts' /\ q.current = p.current /\ q.sent = p.sent
        BY <1>r, <3>4 DEF Requests
      <4> QED BY <2>4, <3>3, <4>1
    <3>5. CASE NotFound(p)
      <4>1. LET q == [p EXCEPT !.step = "fetch", !.again = FALSE]
            IN  q \in posts' /\ q.current = p.current /\ q.sent = p.sent
        BY <1>r, <3>5 DEF Requests, NotFound
      <4> QED BY <2>4, <3>3, <4>1
    <3>6. CASE Fetched(p)
      <4>1. e \in p.sent \cap Visible
        BY <2>2, <2>4
      <4>2. LET q == [p EXCEPT !.sent = p.sent \cap Visible, !.step = "rest"]
            IN  q \in posts' /\ q.current = p.current /\ q.sent = p.sent \cap Visible
        BY <1>r, <2>4, <3>6, <4>1 DEF Requests, Fetched
      <4> QED BY <3>3, <4>1, <4>2
    <3> QED BY <1>8, <3>1, <3>2, <3>4, <3>5, <3>6 DEF PostStep, Error, GiveUp
  <2> QED BY <2>2, <2>3, <2>4 DEF InHand
<1>9. CASE Retry
  <2>1. /\ posts' = posts \cup {Post(b) : b \in failures}
        /\ UNCHANGED <<viewed, tracked, member>>
    BY <1>9 DEF Retry, serverVars
  <2>2. \A b \in failures : Post(b) \in posts' /\ Post(b).current /\ Post(b).sent = b
    BY <2>1 DEF Post
  <2> QED BY <1>2, <2>1, <2>2 DEF InHand
<1>10. CASE Leave
  BY <1>10 DEF Leave
<1>11. CASE (\E h \in Entities : Add(h)) \/ (\E how \in {"refetch", "refresh"} : Read(how)) \/ Render
            \/ UNCHANGED viewVars
  BY <1>3, <1>11 DEF Add, Read, Render, pageVars, serverVars, viewVars
<1> QED BY <1>4, <1>5, <1>6, <1>7, <1>8, <1>9, <1>10, <1>11 DEF ViewsNext

\* Whatever is lost, refused, gone or answered late: each entity that the page will not look at
\* again is recorded, on its way, or in a failure the user is shown, for any number of entities
\* and any size of batch.
THEOREM TrackedAlwaysInHand == ViewsSpec => []TrackedIsInHand
<1>1. ViewsInit => HandInv
  <2> SUFFICES ASSUME ViewsInit PROVE HandInv
    OBVIOUS
  <2>1. ViewsInv /\ HandTypes
    BY DEF ViewsInit, ViewsInv, HandTypes, Empty
  <2>2. TrackedIsInHand
    BY DEF ViewsInit, TrackedIsInHand
  <2> QED BY <2>1, <2>2 DEF HandInv
<1>2. HandInv => TrackedIsInHand
  BY DEF HandInv
<1> QED BY <1>1, <1>2, HandStep, PTL DEF ViewsSpec

\* What is recorded was on the screen, and what the page took in hand is not lost on the way.
THEOREM ViewsAlwaysTrue == ViewsSpec => []ViewsAreTrue
BY OnlyDisplayedIsEverViewed, TrackedAlwaysInHand, PTL DEF ViewsAreTrue

-----------------------------------------------------------------------------
(* Deleting materials.                                                      *)

Toasts == [of : MaterialIds, by : Nat, paused : BOOLEAN]
Deletes == [of : MaterialIds, by : Nat, step : {"sent", "applied", "list", "joined"}]

DeskTypes ==
    /\ row \in [MaterialIds -> {"NEW", "THERE", "GONE"}]
    /\ page \in Nat /\ pages \in Nat /\ page <= pages
    /\ toasts \subseteq Toasts /\ deletes \subseteq Deletes
    /\ taken \subseteq MaterialIds /\ dialog \subseteq MaterialIds
    /\ change \subseteq [of : MaterialIds, by : Nat]

\* A page deletes a material once, and holds its row back until that is settled.
HeldBack ==
    /\ \A x \in toasts \cup deletes : x.by # 0 /\ x.by <= pages /\ (x.by = page => x.of \in hiding)
    /\ \A x, y \in toasts : x.of = y.of /\ x.by = y.by => x = y
    /\ \A x, y \in deletes : x.of = y.of /\ x.by = y.by => x = y
    /\ \A x \in toasts, y \in deletes : x.of # y.of \/ x.by # y.by

\* What the server has deleted is in no list that was asked for afterwards, nor in the one at
\* hand once such a list has arrived.
ListsWithout ==
    /\ \A d \in deletes : d.step # "sent" => row[d.of] = "GONE"
    /\ \A d \in deletes : d.step = "list" => d.of \notin listRead.got
    /\ \A m \in taken : row[m] = "GONE" /\ m \notin listRead.got /\ m \notin list

DeskInv == DeskTypes /\ HeldBack /\ ListsWithout

LEMMA DeskInitInv == MaterialsInit => DeskInv
<1> SUFFICES ASSUME MaterialsInit PROVE DeskInv
  OBVIOUS
<1>1. DeskTypes
  BY DEF MaterialsInit, DeskTypes
<1>2. HeldBack /\ ListsWithout
  BY DEF MaterialsInit, HeldBack, ListsWithout
<1> QED BY <1>1, <1>2 DEF DeskInv

\* The rows of settled deletions are no longer held back; all others are.
LEMMA SettleKeeps ==
  ASSUME DeskInv, NEW waiting \in SUBSET deletes, Settle(waiting),
         UNCHANGED <<page, pages, toasts>>
  PROVE  HeldBack' /\ deletes' = deletes \ waiting
<1>1. deletes' = deletes \ waiting /\ hiding' = hiding \ Own(waiting)
  BY DEF Settle
<1>2. \A x \in toasts \cup deletes' : x.by = page => x.of \in hiding'
  <2> SUFFICES ASSUME NEW x \in toasts \cup deletes', x.by = page PROVE x.of \in hiding'
    OBVIOUS
  <2>1. x.of \in hiding
    BY <1>1 DEF DeskInv, HeldBack
  <2>2. ~ \E d \in waiting : d.by = page /\ d.of = x.of
    BY <1>1 DEF DeskInv, HeldBack
  <2> QED BY <1>1, <2>1, <2>2 DEF Own
<1>3. HeldBack'
  BY <1>1, <1>2 DEF DeskInv, HeldBack
<1> QED BY <1>1, <1>3

\* A notification or a request that ends releases its own row and no other.
LEMMA PutBackReleasesOne ==
  ASSUME DeskInv, NEW x \in toasts \cup deletes, PutBack(x),
         toasts' = toasts \ {x}, deletes' = deletes \ {x}, UNCHANGED <<page, pages>>
  PROVE  HeldBack'
<1>1. hiding' = IF x.by = page THEN hiding \ {x.of} ELSE hiding
  BY DEF PutBack
<1>2. \A y \in toasts' \cup deletes' : y.of # x.of \/ y.by # x.by
  BY DEF DeskInv, HeldBack
<1>3. \A y \in toasts' \cup deletes' : y.by = page => y.of \in hiding'
  BY <1>1, <1>2 DEF DeskInv, HeldBack
<1> QED BY <1>3 DEF DeskInv, HeldBack

\* No answer is at hand of a read that starts, or is left alone without one.
LEMMA ReadsAnew ==
  /\ ReadList => listRead'.got = {}
  /\ Invalidate => listRead'.got \in {listRead.got, {}}
BY DEF ReadList, Invalidate, NewRead

LEMMA DeskStep ==
  ASSUME DeskInv, [MaterialsNext]_materialVars
  PROVE  DeskInv'
<1> USE DEF DeskInv
<1>a. NoRead.got = {}
  BY DEF NoRead
<1>b. (toasts \cup deletes) \cap (toasts \cap deletes) = {}
  BY DEF HeldBack
<1>1. CASE OpenPage
  <2>1. /\ page' = pages + 1 /\ pages' = pages + 1 /\ listRead'.got \in {listRead.got, {}}
        /\ UNCHANGED <<row, list, toasts, deletes, taken, change, dialog>>
    BY <1>1, ReadsAnew DEF OpenPage
  <2>2. DeskTypes'
    BY <2>1 DEF DeskTypes
  <2>3. \A x \in toasts' \cup deletes' : x.by \in Nat /\ x.by # 0 /\ x.by <= pages' /\ x.by # page'
    BY <2>1 DEF DeskTypes, HeldBack, Toasts, Deletes
  <2>4. HeldBack'
    BY <2>1, <2>3 DEF HeldBack
  <2>5. ListsWithout'
    BY <2>1 DEF ListsWithout
  <2> QED BY <2>2, <2>4, <2>5
<1>2. CASE ClosePage
  <2>1. /\ page' = 0 /\ taken' = {} /\ dialog' = {}
        /\ UNCHANGED <<row, list, listRead, pages, toasts, deletes, change>>
    BY <1>2 DEF ClosePage, listVars
  <2>2. DeskTypes'
    BY <2>1 DEF DeskTypes
  <2> QED BY <2>1, <2>2 DEF HeldBack, ListsWithout
<1>3. CASE EndSession
  <2>1. /\ page' = 0 /\ taken' = {} /\ toasts' = {} /\ listRead' = NoRead /\ dialog' = {}
        /\ deletes' \subseteq deletes
        /\ \A d \in deletes' : d.step # "list"
        /\ UNCHANGED <<row, pages, change>>
    BY <1>3 DEF EndSession
  <2>2. DeskTypes'
    BY <2>1 DEF DeskTypes
  <2>3. HeldBack'
    BY <2>1 DEF HeldBack
  <2>4. ListsWithout'
    BY <2>1 DEF ListsWithout
  <2> QED BY <2>2, <2>3, <2>4
<1>4. CASE AnswerList
  <2>1. /\ listRead'.got = There
        /\ UNCHANGED <<row, list, page, pages, hiding, toasts, deletes, taken, change, dialog>>
    BY <1>4 DEF AnswerList, deskVars
  <2> QED BY <2>1 DEF There, DeskTypes, HeldBack, ListsWithout
<1>5. CASE ListArrives
  <2>1. /\ list' = listRead.got /\ listRead' = NoRead /\ Settle(Awaiting)
        /\ taken' = taken \cup Own({d \in deletes : d.step = "list"})
        /\ UNCHANGED <<row, page, pages, toasts, change, dialog>>
    BY <1>5 DEF ListArrives, deskVars
  <2>2. HeldBack' /\ deletes' = deletes \ Awaiting
    BY <2>1, SettleKeeps DEF Awaiting
  <2>3. \A m \in taken' : m \in taken \/ \E d \in deletes : d.step = "list" /\ d.of = m
    BY <2>1 DEF Own
  <2>4. \A m \in taken' : m \in MaterialIds /\ row[m] = "GONE" /\ m \notin listRead.got
    BY <2>3 DEF DeskTypes, Deletes, ListsWithout
  <2>5. DeskTypes'
    BY <2>1, <2>2, <2>4 DEF DeskTypes
  <2>6. ListsWithout'
    BY <1>a, <2>1, <2>2, <2>4 DEF ListsWithout
  <2> QED BY <2>2, <2>5, <2>6
<1>6. CASE ListFails
  <2>1. /\ listRead' = NoRead /\ Settle(Awaiting) /\ dialog' = {}
        /\ UNCHANGED <<row, list, page, pages, toasts, taken, change>>
    BY <1>6 DEF ListFails, deskVars
  <2>2. HeldBack' /\ deletes' = deletes \ Awaiting
    BY <2>1, SettleKeeps DEF Awaiting
  <2>3. DeskTypes' /\ ListsWithout'
    BY <1>a, <2>1, <2>2 DEF DeskTypes, ListsWithout
  <2> QED BY <2>2, <2>3
<1>7. ASSUME RetryList \/ Cancel \/ Marked \/ \E m \in MaterialIds : OpenDetail(m)
      PROVE  DeskInv'
  <2>1. /\ listRead'.got \in {listRead.got, {}}
        /\ dialog' \in {dialog, {}}
        /\ UNCHANGED <<row, list, page, pages, hiding, toasts, deletes, taken, change>>
    BY <1>7, ReadsAnew DEF RetryList, Cancel, Marked, OpenDetail, listVars, deskVars
  <2> QED BY <2>1 DEF DeskTypes, HeldBack, ListsWithout
<1>8. ASSUME NEW m \in MaterialIds, ScheduleDelete(m) PROVE DeskInv'
  <2> DEFINE toast == [of |-> m, by |-> page, paused |-> FALSE]
  <2>1. /\ page # 0 /\ m \notin hiding /\ hiding' = hiding \cup {m} /\ toasts' = toasts \cup {toast}
        /\ UNCHANGED <<row, list, listRead, page, pages, deletes, taken, change, dialog>>
    BY <1>8 DEF ScheduleDelete, DetailShown, listVars, deskVars
  <2>2. toast \in Toasts /\ toast.of = m /\ toast.by = page
    BY DEF DeskTypes, Toasts
  <2> HIDE DEF toast
  <2>3. DeskTypes'
    BY <2>1, <2>2 DEF DeskTypes
  <2>4. \A x \in toasts \cup deletes : x.of # m \/ x.by # page
    BY <2>1 DEF HeldBack
  <2>5. HeldBack'
    BY <2>1, <2>2, <2>4 DEF DeskTypes, HeldBack
  <2>6. ListsWithout'
    BY <2>1 DEF ListsWithout
  <2> QED BY <2>3, <2>5, <2>6
<1>9. ASSUME NEW m \in MaterialIds, AskAccess(m) \/ Create(m) PROVE DeskInv'
  <2>1. /\ change' \in {change, {[of |-> m, by |-> page]}}
        /\ dialog' \in {dialog, {m}}
        /\ UNCHANGED <<row, list, listRead, page, pages, hiding, toasts, deletes, taken>>
    BY <1>9 DEF AskAccess, Create, listVars, deskVars
  <2> QED BY <2>1 DEF DeskTypes, HeldBack, ListsWithout
<1>10. CASE Confirm
  <2>1. /\ change' = {[of |-> m, by |-> page] : m \in dialog}
        /\ UNCHANGED <<row, list, listRead, page, pages, hiding, toasts, deletes, taken, dialog>>
    BY <1>10 DEF Confirm, listVars, deskVars
  <2> QED BY <2>1 DEF DeskTypes, HeldBack, ListsWithout
<1>11. ASSUME NEW c \in change, Changed(c) PROVE DeskInv'
  <2>1. /\ row[c.of] # "GONE" /\ row' = [row EXCEPT ![c.of] = "THERE"] /\ change' = {}
        /\ listRead'.got \in {listRead.got, {}}
        /\ dialog' \subseteq dialog
        /\ UNCHANGED <<list, page, pages, hiding, toasts, deletes, taken>>
    BY <1>11, ReadsAnew DEF Changed, deskVars
  <2>2. \A k \in MaterialIds : row[k] = "GONE" => row'[k] = "GONE"
    BY <2>1 DEF DeskTypes
  <2>3. \A d \in deletes : d.of \in MaterialIds
    BY DEF DeskTypes, Deletes
  <2>4. DeskTypes' /\ HeldBack'
    BY <2>1 DEF DeskTypes, HeldBack
  <2>5. ListsWithout'
    BY <2>1, <2>2, <2>3 DEF DeskTypes, ListsWithout
  <2> QED BY <2>4, <2>5
<1>12. ASSUME NEW c \in change, ChangeFails(c) PROVE DeskInv'
  <2>1. /\ change' = {}
        /\ UNCHANGED <<row, list, listRead, page, pages, hiding, toasts, deletes, taken, dialog>>
    BY <1>12 DEF ChangeFails, listVars, deskVars
  <2> QED BY <2>1 DEF DeskTypes, HeldBack, ListsWithout
<1>13. ASSUME NEW t \in toasts, Undo(t) PROVE DeskInv'
  <2>1. /\ toasts' = toasts \ {t} /\ PutBack(t)
        /\ UNCHANGED <<row, list, listRead, page, pages, deletes, taken, change, dialog>>
    BY <1>13 DEF Undo, listVars, deskVars
  <2>2. deletes' = deletes \ {t}
    BY <1>b, <2>1
  <2>3. HeldBack'
    BY <2>1, <2>2, PutBackReleasesOne
  <2> QED BY <2>1, <2>3 DEF DeskTypes, ListsWithout
<1>14. ASSUME NEW t \in toasts, Pause(t) PROVE DeskInv'
  <2> DEFINE held == [t EXCEPT !.paused = ~t.paused]
  <2>1. /\ toasts' = (toasts \ {t}) \cup {held}
        /\ UNCHANGED <<row, list, listRead, page, pages, hiding, deletes, taken, change, dialog>>
    BY <1>14 DEF Pause, listVars, deskVars
  <2>2. held \in Toasts /\ held.of = t.of /\ held.by = t.by
    BY DEF DeskTypes, Toasts
  <2> HIDE DEF held
  <2>3. DeskTypes' /\ ListsWithout'
    BY <2>1, <2>2 DEF DeskTypes, ListsWithout
  <2>4. HeldBack'
    BY <2>1, <2>2 DEF HeldBack
  <2> QED BY <2>3, <2>4
<1>15. ASSUME NEW t \in toasts, RunsOut(t) \/ Dismiss(t) PROVE DeskInv'
  <2> DEFINE sent == [of |-> t.of, by |-> t.by, step |-> "sent"]
  <2>1. /\ toasts' = toasts \ {t} /\ deletes' = deletes \cup {sent}
        /\ UNCHANGED <<row, list, listRead, page, pages, hiding, taken, change, dialog>>
    BY <1>15 DEF RunsOut, Dismiss, Finish, listVars, deskVars
  <2>2. sent \in Deletes /\ sent.of = t.of /\ sent.by = t.by /\ sent.step = "sent"
    BY DEF DeskTypes, Toasts, Deletes
  <2> HIDE DEF sent
  <2>3. DeskTypes' /\ ListsWithout'
    BY <2>1, <2>2 DEF DeskTypes, ListsWithout
  <2>4. HeldBack'
    BY <2>1, <2>2 DEF HeldBack
  <2> QED BY <2>3, <2>4
<1>16. ASSUME NEW d \in deletes, Delete(d) PROVE DeskInv'
  <2> DEFINE done == [d EXCEPT !.step = "applied"]
  <2>1. /\ row' = [row EXCEPT ![d.of] = "GONE"] /\ deletes' = (deletes \ {d}) \cup {done}
        /\ UNCHANGED <<list, listRead, page, pages, hiding, toasts, taken, change, dialog>>
    BY <1>16 DEF Delete, listVars, deskVars
  <2>2. done \in Deletes /\ done.of = d.of /\ done.by = d.by /\ done.step = "applied"
    BY DEF DeskTypes, Deletes
  <2> HIDE DEF done
  <2>3. DeskTypes'
    BY <2>1, <2>2 DEF DeskTypes
  <2>4. HeldBack'
    BY <2>1, <2>2 DEF HeldBack
  <2>5. /\ \A k \in MaterialIds : row[k] = "GONE" => row'[k] = "GONE"
        /\ d.of \in MaterialIds /\ row'[d.of] = "GONE"
        /\ \A x \in deletes : x.of \in MaterialIds
    BY <2>1 DEF DeskTypes, Deletes
  <2>6. ListsWithout'
    BY <2>1, <2>2, <2>5 DEF DeskTypes, ListsWithout
  <2> QED BY <2>3, <2>4, <2>6
<1>17. ASSUME NEW d \in deletes, RowDeleted(d) PROVE DeskInv'
  <2>1. /\ d.step = "applied" /\ row[d.of] = "GONE"
        /\ UNCHANGED <<row, list, page, pages, toasts, taken, change, dialog>>
    BY <1>17 DEF RowDeleted, ListsWithout, deskVars
  <2>2. CASE page # 0 /\ Current(d)
    <3> DEFINE waits == [d EXCEPT !.step = IF JoinsRead THEN "joined" ELSE "list"]
    <3>1. /\ Invalidate /\ deletes' = (deletes \ {d}) \cup {waits}
          /\ UNCHANGED hiding
      BY <1>17, <2>2 DEF RowDeleted
    <3>2. waits \in Deletes /\ waits.of = d.of /\ waits.by = d.by
      BY DEF DeskTypes, Deletes
    <3>3. waits.step = "list" => listRead'.got = {}
      BY <2>2, <3>1, ReadsAnew DEF Invalidate
    <3> HIDE DEF waits
    <3>4. listRead'.got \in {listRead.got, {}}
      BY <3>1, ReadsAnew
    <3>5. DeskTypes'
      BY <2>1, <3>1, <3>2 DEF DeskTypes
    <3>6. HeldBack'
      BY <2>1, <3>1, <3>2 DEF HeldBack
    <3>7. ListsWithout'
      BY <2>1, <3>1, <3>2, <3>3, <3>4 DEF ListsWithout
    <3> QED BY <3>5, <3>6, <3>7
  <2>3. CASE ~(page # 0 /\ Current(d))
    <3>1. listRead' = listRead /\ Settle({d})
      BY <1>17, <2>3 DEF RowDeleted
    <3>2. HeldBack' /\ deletes' = deletes \ {d}
      BY <2>1, <3>1, SettleKeeps
    <3>3. DeskTypes' /\ ListsWithout'
      BY <2>1, <3>1, <3>2 DEF DeskTypes, ListsWithout
    <3> QED BY <3>2, <3>3
  <2> QED BY <2>2, <2>3
<1>18. ASSUME NEW d \in deletes, DeleteFails(d) PROVE DeskInv'
  <2>1. /\ deletes' = deletes \ {d} /\ PutBack(d)
        /\ UNCHANGED <<row, list, listRead, page, pages, toasts, taken, change, dialog>>
    BY <1>18 DEF DeleteFails, listVars, deskVars
  <2>2. toasts' = toasts \ {d}
    BY <1>b, <2>1
  <2>3. HeldBack'
    BY <2>1, <2>2, PutBackReleasesOne
  <2> QED BY <2>1, <2>3 DEF DeskTypes, ListsWithout
<1>19. CASE UNCHANGED materialVars
  BY <1>19 DEF materialVars, DeskTypes, HeldBack, ListsWithout
<1> QED
  BY <1>1, <1>2, <1>3, <1>4, <1>5, <1>6, <1>7, <1>8, <1>9, <1>10, <1>11, <1>12, <1>13, <1>14,
     <1>15, <1>16, <1>17, <1>18, <1>19 DEF MaterialsNext

\* What a page deletes stays hidden on it, for any number of materials, pages and faults.
THEOREM DeletedAlwaysStaysHidden == MaterialsSpec => []DeletedStaysHidden
<1>1. DeskInv => DeletedStaysHidden
  BY DEF DeskInv, HeldBack, ListsWithout, DeletedStaysHidden, RowShown
<1> QED BY <1>1, DeskInitInv, DeskStep, PTL DEF MaterialsSpec

HiddenInv == DeskInv /\ HiddenIsPending

LEMMA HiddenStep ==
  ASSUME HiddenInv, [MaterialsNext]_materialVars
  PROVE  HiddenInv'
<1> USE DEF HiddenInv
<1>1. DeskInv'
  BY DeskStep
<1>2. CASE hiding' = {}
  BY <1>1, <1>2 DEF HiddenIsPending
<1>3. ASSUME UNCHANGED <<hiding, page>>,
             \A x \in toasts \cup deletes : \E y \in (toasts \cup deletes)' : y.of = x.of /\ y.by = x.by
      PROVE  HiddenInv'
  BY <1>1, <1>3 DEF HiddenIsPending
<1>4. ASSUME NEW x \in toasts \cup deletes, PutBack(x), UNCHANGED page,
             (toasts \cup deletes)' = (toasts \cup deletes) \ {x}
      PROVE  HiddenInv'
  BY <1>1, <1>4 DEF HiddenIsPending, PutBack
<1>5. ASSUME NEW waiting \in SUBSET deletes, Settle(waiting), UNCHANGED <<toasts, page>>
      PROVE  HiddenInv'
  <2>1. /\ deletes' = deletes \ waiting
        /\ hiding' = hiding \ Own(waiting)
    BY <1>5 DEF Settle
  <2>2. \A m \in hiding' : \E x \in (toasts \cup deletes)' : x.of = m /\ x.by = page
    <3> SUFFICES ASSUME NEW m \in hiding'
                 PROVE  \E x \in (toasts \cup deletes)' : x.of = m /\ x.by = page
      OBVIOUS
    <3>1. PICK x \in toasts \cup deletes : x.of = m /\ x.by = page
      BY <2>1 DEF HiddenIsPending
    <3>2. x \notin waiting
      BY <2>1, <3>1 DEF Own
    <3> QED BY <1>5, <2>1, <3>1, <3>2
  <2> QED BY <1>1, <1>5, <2>2 DEF HiddenIsPending
<1>6. CASE OpenPage \/ ClosePage \/ EndSession
  BY <1>2, <1>6 DEF OpenPage, ClosePage, EndSession
<1>7. CASE ListArrives \/ ListFails
  BY <1>5, <1>7 DEF ListArrives, ListFails, Awaiting, deskVars
<1>8. CASE UNCHANGED <<hiding, page, toasts, deletes>>
  BY <1>3, <1>8
<1>9. ASSUME NEW m \in MaterialIds, ScheduleDelete(m) PROVE HiddenInv'
  <2> DEFINE toast == [of |-> m, by |-> page, paused |-> FALSE]
  <2>1. /\ hiding' = hiding \cup {m} /\ toasts' = toasts \cup {toast}
        /\ UNCHANGED <<page, deletes>>
    BY <1>9 DEF ScheduleDelete, deskVars
  <2>2. toast.of = m /\ toast.by = page
    OBVIOUS
  <2> HIDE DEF toast
  <2> QED BY <1>1, <2>1, <2>2 DEF HiddenIsPending
<1>10. ASSUME NEW t \in toasts, Undo(t) PROVE HiddenInv'
  <2>1. deletes' = deletes \ {t} /\ toasts' = toasts \ {t} /\ PutBack(t) /\ UNCHANGED page
    BY <1>10 DEF Undo, DeskInv, HeldBack, deskVars
  <2> QED BY <1>4, <2>1
<1>11. ASSUME NEW t \in toasts, Pause(t) PROVE HiddenInv'
  <2> DEFINE held == [t EXCEPT !.paused = ~t.paused]
  <2>1. toasts' = (toasts \ {t}) \cup {held} /\ UNCHANGED <<hiding, page, deletes>>
    BY <1>11 DEF Pause, deskVars
  <2>2. held.of = t.of /\ held.by = t.by
    BY DEF DeskInv, DeskTypes, Toasts
  <2> HIDE DEF held
  <2> QED BY <1>3, <2>1, <2>2
<1>12. ASSUME NEW t \in toasts, RunsOut(t) \/ Dismiss(t) PROVE HiddenInv'
  <2> DEFINE sent == [of |-> t.of, by |-> t.by, step |-> "sent"]
  <2>1. /\ toasts' = toasts \ {t} /\ deletes' = deletes \cup {sent}
        /\ UNCHANGED <<hiding, page>>
    BY <1>12 DEF RunsOut, Dismiss, Finish, deskVars
  <2>2. sent.of = t.of /\ sent.by = t.by
    OBVIOUS
  <2> HIDE DEF sent
  <2> QED BY <1>3, <2>1, <2>2
<1>13. ASSUME NEW d \in deletes, Delete(d) PROVE HiddenInv'
  <2> DEFINE done == [d EXCEPT !.step = "applied"]
  <2>1. deletes' = (deletes \ {d}) \cup {done} /\ UNCHANGED <<hiding, page, toasts>>
    BY <1>13 DEF Delete, deskVars
  <2>2. done.of = d.of /\ done.by = d.by
    BY DEF DeskInv, DeskTypes, Deletes
  <2> HIDE DEF done
  <2> QED BY <1>3, <2>1, <2>2
<1>14. ASSUME NEW d \in deletes, RowDeleted(d) PROVE HiddenInv'
  <2>1. CASE page # 0 /\ Current(d)
    <3> DEFINE waits == [d EXCEPT !.step = IF JoinsRead THEN "joined" ELSE "list"]
    <3>1. deletes' = (deletes \ {d}) \cup {waits} /\ UNCHANGED <<hiding, page, toasts>>
      BY <1>14, <2>1 DEF RowDeleted, deskVars
    <3>2. waits.of = d.of /\ waits.by = d.by
      BY DEF DeskInv, DeskTypes, Deletes
    <3> HIDE DEF waits
    <3> QED BY <1>3, <3>1, <3>2
  <2>2. CASE ~(page # 0 /\ Current(d))
    BY <1>5, <1>14, <2>2 DEF RowDeleted, deskVars
  <2> QED BY <2>1, <2>2
<1>15. ASSUME NEW d \in deletes, DeleteFails(d) PROVE HiddenInv'
  <2>1. deletes' = deletes \ {d} /\ toasts' = toasts \ {d} /\ PutBack(d) /\ UNCHANGED page
    BY <1>15 DEF DeleteFails, DeskInv, HeldBack, deskVars
  <2> QED BY <1>4, <2>1
<1>16. ASSUME \/ AnswerList \/ RetryList \/ Marked \/ Cancel \/ Confirm \/ UNCHANGED materialVars
              \/ \E m \in MaterialIds : OpenDetail(m) \/ AskAccess(m) \/ Create(m)
              \/ \E c \in change : Changed(c) \/ ChangeFails(c)
       PROVE  UNCHANGED <<hiding, page, toasts, deletes>>
  BY <1>16 DEF AnswerList, RetryList, Marked, Cancel, Confirm, materialVars, deskVars, OpenDetail,
     AskAccess, Create, Changed, ChangeFails
<1> QED
  BY <1>6, <1>7, <1>8, <1>9, <1>10, <1>11, <1>12, <1>13, <1>14, <1>15, <1>16 DEF MaterialsNext

\* No row stays hidden without a deletion that is still to be decided: one that is undone or
\* fails, and the end of the session, bring the row back.
THEOREM HiddenAlwaysPending == MaterialsSpec => []HiddenIsPending
<1>1. MaterialsInit => HiddenInv
  BY DeskInitInv DEF HiddenInv, MaterialsInit, HiddenIsPending
<1>2. HiddenInv => HiddenIsPending
  BY DEF HiddenInv
<1> QED BY <1>1, <1>2, HiddenStep, PTL DEF MaterialsSpec

\* A page hides exactly what it deletes, until the list is without it.
THEOREM HiddenAlwaysWhileDeleting == MaterialsSpec => []HiddenWhileDeleting
BY DeletedAlwaysStaysHidden, HiddenAlwaysPending, PTL DEF HiddenWhileDeleting
=============================================================================
