------------------------------ MODULE Navigation ------------------------------
(***************************************************************************)
(* Where the browser ends up (router.tsx, the campaign workspace, its      *)
(* menu and search, and the redirects of the materials, case and notes     *)
(* pages).  Redirects look at what is cached: the session, the role in     *)
(* the campaign and the opened material, each of which arrives later.      *)
(***************************************************************************)
EXTENDS Naturals

CONSTANT MaxSteps   \* moves of the user and changes of role

ASSUME NavigationAssumption == MaxSteps \in Nat

VARIABLES
    at,         \* the address: page, opened material, whether it carries an invitation
    via,        \* how the browser got there: "address", "link", "redirect"
    session,    \* "restoring", "out", "in"
    role,       \* the role the server has, or "none" for nobody of the campaign
    seen,       \* the role in the ['campaign'] query: "unknown" while it loads
    opened,     \* the ['element'] query of the opened material is loaded
    redirects,  \* redirects since the last move or answer
    invited,    \* an invitation was opened and the user has not gone elsewhere
    moves       \* moves and role changes so far

navigationVars == <<at, via, session, role, seen, opened, redirects, invited, moves>>

Roles == {"OWNER", "PLAYER", "VIEWER"}
Public == {"sign-in", "sign-up"}
Sections == {"board", "elements", "case", "notes", "characters"}
Management == {"members", "invitations", "settings"}
Workspace == {"campaign"} \cup Sections \cup Management
Protected == {"campaigns", "account"} \cup Workspace

\* Materials by what the pages tell apart; "missing" is one the user cannot read.
Materials == {"ownNote", "otherNote", "material", "missing"}
Nothing == "nothing"

Address(page, item) == [page |-> page, item |-> item, invitation |-> FALSE]
Page(page) == Address(page, Nothing)
WithInvitation(page) == [Page(page) EXCEPT !.invitation = TRUE]

NavigationInit ==
    /\ at = Page("campaigns") /\ via = "address"
    /\ session = "restoring" /\ role = "OWNER" /\ seen = "unknown"
    /\ opened = FALSE /\ redirects = 0 /\ invited = FALSE /\ moves = 0

-----------------------------------------------------------------------------
(* Redirects: the pages that render <Navigate replace>. *)

RedirectTo(target) ==
    /\ at' = target
    /\ via' = "redirect"
    /\ redirects' = redirects + 1
    /\ opened' = (opened /\ target.item = at.item)
    /\ UNCHANGED <<session, role, seen, moves>>

\* ProtectedRoute: signed out.
ProtectedRoute ==
    /\ at.page \in Protected /\ session = "out"
    /\ RedirectTo(Page("sign-in"))
    /\ UNCHANGED invited

\* PublicOnlyRoute: signed in; an invitation in the address goes on.
PublicOnlyRoute ==
    /\ at.page \in Public /\ session = "in"
    /\ RedirectTo(Page(IF at.invitation THEN "invitation" ELSE "campaigns"))
    /\ UNCHANGED invited

\* InvitationEntry: a guest signs in first.
InvitationEntry ==
    /\ at.page = "invitation" /\ session = "out"
    /\ RedirectTo(WithInvitation("sign-in"))
    /\ invited' = TRUE

\* The "*" route, and the index of a campaign.
OtherPath ==
    /\ \/ at.page = "other" /\ RedirectTo(Page("campaigns"))
       \/ at.page = "campaign" /\ session = "in" /\ seen \in Roles /\ RedirectTo(Page("board"))
    /\ UNCHANGED invited

Shown(page) == at.page = page /\ session = "in" /\ seen \in Roles

\* ElementsPage: the list is the master's; an own note is edited among the notes.
ElementsPage ==
    /\ Shown("elements")
    /\ \/ seen # "OWNER" /\ RedirectTo(Address("case", at.item))
       \/ seen = "OWNER" /\ opened /\ at.item = "ownNote" /\ RedirectTo(Address("notes", at.item))
    /\ UNCHANGED invited

\* CasePage: the master has the list; a player's own note is edited among the notes.
CasePage ==
    /\ Shown("case")
    /\ \/ seen = "OWNER" /\ RedirectTo(Address("elements", at.item))
       \/ seen = "PLAYER" /\ opened /\ at.item = "ownNote" /\ RedirectTo(Address("notes", at.item))
    /\ UNCHANGED invited

\* Mutant: the notes page leaves every note it opens to the reading pages.
NotesPageForOwn ==
    /\ Shown("notes")
    /\ \/ seen = "VIEWER" /\ RedirectTo(Address("case", at.item))
       \/ seen # "VIEWER" /\ opened /\ at.item # "missing"
          /\ RedirectTo(Address(IF seen = "OWNER" THEN "elements" ELSE "case", at.item))
    /\ UNCHANGED invited

\* NotesPage: viewers have no notes; what is not the user's own note is read elsewhere.
NotesPage ==
    /\ Shown("notes")
    /\ \/ seen = "VIEWER" /\ RedirectTo(Address("case", at.item))
       \/ seen # "VIEWER" /\ opened /\ at.item \in {"otherNote", "material"}
          /\ RedirectTo(Address(IF seen = "OWNER" THEN "elements" ELSE "case", at.item))
    /\ UNCHANGED invited

Redirect ==
    ProtectedRoute \/ PublicOnlyRoute \/ InvitationEntry \/ OtherPath
    \/ ElementsPage \/ CasePage \/ NotesPage

\* CampaignWorkspaceRoute: the management pages are the master's, and nobody enters a
\* campaign the API does not show.
Refused ==
    /\ at.page \in Workspace /\ session = "in"
    /\ seen = "none" \/ (at.page \in Management /\ seen \in {"PLAYER", "VIEWER"})

-----------------------------------------------------------------------------
(* Answers. *)

Learn == redirects' = 0 /\ UNCHANGED <<at, role, invited, moves>>

\* The session is restored, or there is none.
Restored ==
    /\ session = "restoring" /\ session' \in {"in", "out"}
    /\ Learn /\ UNCHANGED <<via, seen, opened>>

\* GET /campaigns/:id answers, for the first time or again.
RoleArrives ==
    /\ at.page \in Workspace /\ session = "in"
    /\ seen # role /\ seen' = role
    /\ via' = IF seen = "unknown" THEN via ELSE "address"
    /\ Learn /\ UNCHANGED <<session, opened>>

\* GET /elements/:id answers, on the pages that open a material.
MaterialArrives ==
    /\ at.page \in {"elements", "case", "notes"} /\ at.item # Nothing
    /\ session = "in" /\ seen \in Roles
    /\ at.page = "notes" => seen # "VIEWER"
    /\ ~opened /\ opened' = TRUE
    /\ Learn /\ UNCHANGED <<via, session, seen>>

-----------------------------------------------------------------------------
(* The user. *)

Go(target, how) ==
    /\ moves < MaxSteps /\ moves' = moves + 1
    /\ at' = target /\ via' = how /\ redirects' = 0
    /\ opened' = FALSE
    /\ UNCHANGED <<session, role>>

\* noteProfile: the master and the players write notes.
WritesNotes(r) == r \in {"OWNER", "PLAYER"}

\* The menu of the workspace.
MenuOf(r) ==
    {"board", "characters"}
    \cup (IF r = "OWNER" THEN {"elements"} \cup Management ELSE {"case"})
    \cup (IF WritesNotes(r) THEN {"notes"} ELSE {})

\* Mutant: the search opens every material where the role reads materials.
SectionOfRole(r, item) == IF r = "OWNER" THEN "elements" ELSE "case"

\* CampaignSearch: where a found material is opened.
SectionOf(r, item) ==
    IF item = "ownNote" /\ WritesNotes(r) THEN "notes"
    ELSE IF r = "OWNER" THEN "elements" ELSE "case"

InWorkspace == at.page \in Workspace /\ session = "in" /\ seen \in Roles /\ ~Refused

FollowMenu ==
    /\ InWorkspace
    /\ \E page \in MenuOf(seen) : Go(Page(page), "link")
    /\ invited' = FALSE /\ UNCHANGED seen

FollowSearch ==
    /\ InWorkspace
    /\ \E item \in Materials \ {"missing"} : Go(Address(SectionOf(seen, item), item), "link")
    /\ invited' = FALSE /\ UNCHANGED seen

\* The rows of the lists: a writer's own notes are listed among the notes only.
Listed(page, r) ==
    IF page = "notes" THEN {"ownNote"}
    ELSE {"otherNote", "material"} \cup (IF page = "case" /\ r = "VIEWER" THEN {"ownNote"} ELSE {})

HasList(page, r) ==
    CASE page = "elements" -> r = "OWNER"
      [] page = "case" -> r # "OWNER"
      [] page = "notes" -> WritesNotes(r)
      [] OTHER -> FALSE

\* The list stays beside an opened material, but for the case, which shows either.
FollowList ==
    /\ InWorkspace /\ HasList(at.page, seen)
    /\ at.page = "case" => at.item = Nothing
    /\ \E item \in Listed(at.page, seen) : Go(Address(at.page, item), "link")
    /\ invited' = FALSE /\ UNCHANGED seen

\* A card of the board links to the list whatever the role (board-page.tsx:243).
FollowCard ==
    /\ InWorkspace /\ at.page = "board"
    /\ \E item \in Materials : Go(Address("elements", item), "address")
    /\ invited' = FALSE /\ UNCHANGED seen

\* The campaign list: new materials open where the role reads them.
FollowCampaign ==
    /\ at.page = "campaigns" /\ session = "in" /\ role \in Roles
    /\ \E page \in {"campaign", IF role = "OWNER" THEN "elements" ELSE "case"} :
           Go(Page(page), "address")
    /\ seen' = "unknown" /\ invited' = FALSE

\* The address bar, a bookmark, an invitation link.
Visit ==
    /\ \E target \in {Page(p) : p \in {"sign-up", "invitation", "other"} \cup Protected}
                     \cup {Address(p, i) : p \in {"elements", "case", "notes"}, i \in Materials} :
           Go(target, "address")
    /\ invited' = FALSE /\ UNCHANGED seen

\* Mutant: the link between sign-in and sign-up forgets the search parameters.
SwitchBare ==
    /\ at.page \in Public /\ session = "out"
    /\ Go(Page(IF at.page = "sign-in" THEN "sign-up" ELSE "sign-in"), "address")
    /\ UNCHANGED <<seen, invited>>

\* AuthPage: from signing in to signing up and back.
Switch ==
    /\ at.page \in Public /\ session = "out"
    /\ Go([at EXCEPT !.page = IF @ = "sign-in" THEN "sign-up" ELSE "sign-in"], "address")
    /\ UNCHANGED <<seen, invited>>

\* signIn, signUp; the account's new QueryClient knows no role yet.
Enter ==
    /\ at.page \in Public /\ session = "out"
    /\ session' = "in" /\ seen' = "unknown" /\ opened' = FALSE /\ redirects' = 0
    /\ UNCHANGED <<at, via, role, invited, moves>>

SignOut ==
    /\ session = "in" /\ session' = "out" /\ seen' = "unknown" /\ opened' = FALSE
    /\ moves < MaxSteps /\ moves' = moves + 1 /\ redirects' = 0
    /\ UNCHANGED <<at, via, role, invited>>

\* InvitationPage accepts the token once and opens the campaign.
Accept ==
    /\ at.page = "invitation" /\ session = "in"
    /\ at' = Page("campaign") /\ via' = "address" /\ redirects' = 0
    /\ seen' = "unknown" /\ opened' = FALSE /\ invited' = FALSE
    /\ role' = IF role = "none" THEN "PLAYER" ELSE role
    /\ UNCHANGED <<session, moves>>

\* The master changes the user's role or removes the user.
RoleChanges ==
    /\ moves < MaxSteps /\ moves' = moves + 1
    /\ role' \in (Roles \cup {"none"}) \ {role}
    /\ UNCHANGED <<at, via, session, seen, opened, redirects, invited>>

NavigationNext ==
    \/ Redirect
    \/ Restored \/ RoleArrives \/ MaterialArrives
    \/ FollowMenu \/ FollowSearch \/ FollowList \/ FollowCard \/ FollowCampaign \/ Visit \/ Switch
    \/ Enter \/ SignOut \/ Accept \/ RoleChanges

NavigationSpec == NavigationInit /\ [][NavigationNext]_navigationVars

-----------------------------------------------------------------------------
\* Redirects end: the pages that send the user to each other agree on who belongs where,
\* so that after a move or an answer there are two redirects at most ("opens ... without
\* redirect loops", quick-note.spec.ts:261).
RedirectsEnd == redirects <= 2

\* The menu, the search and the lists know what the pages know: where a link they show for a
\* role leads, the page neither redirects nor refuses, whatever arrives there, while the role
\* is the one they were shown for.
OnLink == via = "link" /\ session = "in"

MenuLeadsStraight ==
    [][(OnLink => ~Redirect) /\ (OnLink' => ~Refused')]_navigationVars

\* An invitation opened by a guest stays in the address until the guest has signed in
\* ("Signing in from an invitation link continues to that invitation", router.tsx:89).
InvitationKept == invited => at.page = "invitation" \/ at.invitation
=============================================================================
