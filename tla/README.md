# Loopkeeper: TLA+ models, checks and proofs

Loopkeeper is a companion for table-top role-playing campaigns: a NestJS backend
(`src/`) over PostgreSQL (Prisma, `prisma/schema.prisma`) and an S3 bucket, and a
React client (`frontend/src/`). The backend keeps no state of its own between
requests. What can go wrong is what several requests do to the same rows at the
same time, what a request leaves behind when it stops half-way, and what the
client believes about answers it never got. This directory models these parts,
checks them with TLC and proves the most important properties with TLAPS.

## 1. Inventory

Paths are relative to the repository.

| Component | State | Operations | Modelled |
|---|---|---|---|
| Elements (`src/element`) | `campaign_elements`: author, access, text | create, update, setAccess, remove | `CampaignOperations`, `CampaignAtomic`, `CampaignRequests` |
| Investigation board (`src/investigation-board`) | cards that refer to a free text, an element or a character; links between cards | create, update, delete of cards and links | same |
| View marks (`src/entity-view`) | `entity_views`: which member has seen what | record; deletions made by the other services | same |
| Characters (`src/character`) | `characters`: owner, active flag, sheet | create, update, remove | same |
| Campaigns, members, access (`src/campaign`) | membership rows with roles; the campaign row and its lock | create, remove, change a role, remove a member | same |
| Invitations (`src/campaign/campaign-invitation.service.ts`) | links with role, expiry, revocation, acceptance; the membership rows they lead to | create, revoke, accept; change a role, remove a member, remove the campaign | `Invitations`, `InvitationRequests` |
| Refresh sessions, passwords (`src/auth`) | `auth_sessions`, password hash | register, login, refresh, logout, change password | `SignIns`, `AuthSessions` |
| Media (`src/media`, `src/media-reconcile.ts`) | objects in the bucket, `media_assets`, the slots that show them | upload, replace, remove, clean up, reconcile | `MediaLifecycle` |
| User profile (`src/user`) | name, avatar | update | the avatar in `MediaLifecycle` |
| Autosave of the editors (`frontend/src/components/use-autosave.ts`) | draft, saved draft, request in flight, timer | edit, delay, flush, leave | `Autosave` |
| API client and session of the browser (`frontend/src/api/client.ts`, `frontend/src/auth`) | access token and profile of each tab, one refresh cookie for all, a query cache per account | request, retry after 401, restore, sign in, sign out | `BrowserSession` |
| Addresses and redirects (`frontend/src/app/router.tsx`, `features/campaigns`: the workspace, its menu, search and pages) | the address, and what is cached of the session, the role and the opened material | follow a link, type an address, answers, redirects | `Navigation` |
| View marks of the browser (`features/campaigns/use-entity-views.tsx`) | what is rendered, sent, highlighted, failed | render, batch, send, retry, refresh | `EntityViews` |
| Lists of materials (`features/campaigns/elements-page.tsx`, `notes-page.tsx`, `components/ui/toast.tsx`) | the cached list and details, deletions that can be undone, one dialog | open a material, delete and undo, reveal and hide, create | `Materials` |
| Quick note (`features/campaigns/quick-note-context.tsx`) | the draft in memory and in `sessionStorage` | write, send, leave and come back | `QuickNote` |
| Board canvas (`features/campaigns/board-page.tsx`) | nodes and edges of its own beside the cached board | move, link, unlink, rebuild | `BoardPage` |
| Character sheet (`features/characters/tales-from-the-loop-sheet.tsx`, `src/character/tales-from-the-loop.rules.ts`) | the form, a queue of saves; the same limits on both sides | edit, delay, blur, toggle, remove | `CharacterSheet` |
| Members, invitations, settings and account pages; configuration, filters, health, game systems; migrations | none, or that of a form | forms over one request, wiring, reads | no |

How they interact:

- The **database** is the only memory shared by requests. Transactions are READ
  COMMITTED: each statement sees what is committed when it starts. Row locks
  (`SELECT ... FOR UPDATE`, updates, foreign keys of inserted rows), conditional
  updates, unique indexes and `ON DELETE CASCADE` / `SET NULL` keep requests apart.
- The **campaign lock**: `lockCampaignMember` (`src/campaign/access/campaign-write.ts`)
  locks the campaign row and reads the requester's role again. Most services check a
  request first without it, then lock, check again, write and commit. Some writes
  (the text of an element, card or link; the creation of a character) do not lock.
- **Elements and characters → board and views**: hiding or deleting a source removes
  its cards in the same transaction (`ElementService.setAccess` and `remove`,
  `clearCardViews`), the database removes the links of a card, and `entity_views` has
  no foreign key to what it names, so the services delete the marks themselves.
- **Every service → media**: removing an element or a campaign, or replacing a picture
  by a URL, deletes asset rows in the transaction and objects after its commit.
- **Client → backend**: autosave sends PATCH requests one at a time; the saves of a sheet
  queue; saves of the board's layout do not wait for each other; a refresh cookie
  is exchanged for a new one at each refresh.
- **Within the browser**: pages share TanStack Query's cache. A change invalidates the lists
  it concerns; a read that is replaced never arrives, and whoever awaits it awaits the next one; only a
  first read, while nothing is cached yet, is not replaced. A mark as seen is written into the cached
  lists (`use-entity-views.tsx:92`).
  Local state (hidden rows, the canvas, highlights, drafts) is laid over what is cached and
  has to survive what arrives late. Tabs share the refresh cookie and nothing else.

Hard behaviour, with its lines in `PROJECT.json` ("hazards"): checks made before a
transaction and used after it; rows that vanish between two statements; cascades
that reach a table one service knows nothing about; lock cycles; a token presented
twice; transactions that stop half-way; objects in a bucket that no transaction
covers; answers that never arrive, or arrive after a later change; pages that redirect to
each other by what each has cached; a cookie that several tabs spend.

What makes each component correct:

- *Campaign content*: members see on the board only what they may see; each source has
  one card; links are between two cards and unique; a mark belongs to a member and to
  something that exists; one owner; one active character per player; a deleted campaign
  leaves nothing. And all of it although requests run in several steps.
- *Invitations*: a link makes one user a member, once; it is never used up for nothing, and
  nobody gets in without one.
- *Sessions*: a login has one working token; an ended sign-in never comes back.
- *Media*: what is shown can be served, uploads in flight survive the reconciliation,
  and a report without errors left no orphan.
- *Autosave*: one save at a time, "saved" means saved, the last change is not lost.
- *Browser session*: a tab never signs itself out, shows one account only its own answers, and
  every request ends.
- *Addresses*: redirects end, links lead where they say, an invitation survives signing in.
- *Browser state*: what was not seen is not recorded as seen, and what was seen is; a row that is
  being deleted stays hidden, and comes back only for a cause; what the user wrote, moved or drew is kept or
  the page says why not.

## 2. Modules

| Module | What it is |
|---|---|
| `CampaignContent` | the rows of one campaign, and what they say: readable, editable, visible |
| `CampaignOperations` | each request: the check before the transaction, the check under the lock, what the database refuses, what is written |
| `CampaignAtomic` | **abstract specification**: a request is one authorised step; type invariant and consistency properties |
| `CampaignRequests` | the handlers: pre-check, lock and read, commit, unlocked writes, failures |
| `Invitations` | **abstract specification** of joining by a link |
| `InvitationRequests` | the handlers with row locks, expiry, deadlock detection and failures |
| `SignIns` | **abstract specification**: sign-ins begin, end and stay ended |
| `AuthSessions` | session rows, conditional claims, rotations, password changes |
| `MediaLifecycle` | uploads, replacement, removal and reconciliation, with crashes between the steps |
| `Autosave` | the hook, its timer, its flushes and the requests on the wire |
| `BrowserSession` | tabs, their requests and refreshes, the cookie and the server's sessions |
| `BrowserSignIns` | the same, with the login each session stems from: it implements `SignIns` too |
| `Navigation` | the address, the redirects of every page, the links that lead to them |
| `EntityViews` | the board page's batches of view marks against the server's record |
| `Materials` | the list of materials, the details opened beside it, deferred deletions, the access dialogs |
| `QuickNote` | the draft, its stored copy and the request that saves it |
| `CharacterSheet` | the fields and their limits on both sides; the queue of saves |
| `BoardPage` | one card and the pairs of cards that are linked, on the canvas, in the cache and on the server |
| `MC*` | instances for TLC: symmetry and operation sets; constants are in the `.cfg` files |
| `*_proofs` | theorems and proofs of the module whose name they bear |

`MCCampaignAtomic`, `MCCampaignRequests`, `MCInvitations`, `MCAuthSessions`, `MCAutosave` and
`MCMedia` extend the modules named in them. `MCBrowser` (`BrowserSignIns`, `Navigation`,
`EntityViews`, `Materials`) and `MCEditors` (`Autosave`, `QuickNote`, `CharacterSheet`, `BoardPage`)
explore several modules that share no variable, one per behaviour: the variable `part` is chosen
at the start and the others stay as they are. So the states add up instead of multiplying. In the
program these components do meet, in the cache of TanStack Query, and what one of them does
to the others' part of it is in the module it disturbs: the mark as seen that ends the failure of a list
is the step `Marked` of `Materials`; changes by other pages that invalidate the board are `RefreshBoard` and
`Rebuild` of `BoardPage`; the role and the material that redirects look at change freely in `Navigation`. Fairness is stated for the
chosen part only (`WF(part = "views" /\ Render)`): an action of another part, enabled and never taken,
must not make a behaviour unfair. `Editors_proofs` is about `Autosave`, `QuickNote`, `CharacterSheet` and
`BoardPage`, `Browser_proofs` about `Navigation`, `EntityViews` and `Materials`, `BrowserSession_proofs`
about `BrowserSession` and `BrowserSignIns`.

### Campaign content

A table is a function from ids to rows; `Unused` marks an id not issued yet, `Deleted`
a row that has gone. Ids are uuids and never used again. A request is a record; for
each of the fifteen operations, `PreCheck` is what the service reads before its
transaction, `Granted` what it reads under the campaign lock, `Accepted` what foreign
keys, unique indexes and missing rows refuse, `Doomed` the entities whose view marks it
will delete (read under the lock, before the writes), and `Writes` the rows after the
commit, cascades included.

`CampaignRequests` runs a request as the services do: `Start` (pre-check), `Begin` (lock,
second check), `Commit`; or `Start`, `Write` for the operations without a lock; `Fail`
at any point, which stands for an error, a lost connection and a stopped process alike,
since the transaction rolls back. Writes of an open transaction are invisible until
its commit, so they are made in the commit step. `PROPERTY AtomicSpec` says that every
commit is one authorised step of `CampaignAtomic`.

### Invitations

Three handlers' steps matter: `accept` looks the link up without a lock (`Start`), checks
for a membership inside its transaction (`CheckMember`), claims the invitation row by a
conditional update (`Claim`, which keeps the row locked), and inserts the membership
(`Join`, which needs the campaign row through its foreign key, and the unique index). The
deletion of the campaign takes the campaign row first and the invitations next, so the two
can wait for each other; `BreakDeadlock` is the database ending one of them. Changing a member's role
and removing a member (`CampaignMemberService`) write the same membership rows, under the campaign
lock: they are `changeRole` and `removeMember` here, `ChangeRole` and `RemoveMember` in `Invitations`. So the
role of the link is what a user joins with, and not necessarily the role of a member.

### Sessions

`session` holds the `auth_sessions` rows of one account. The fields `origin` and `password`
are ghosts: the login a session descends from and the password it was verified with.
`Claim` is the conditional `updateMany` of a rotation, `Rotate` its insertion and commit;
`FindSessions` takes the snapshot that the revoking statement of `changePassword` works
on, `ChangePassword` waits for the rows and commits. The refinement mapping to `SignIns`
takes a sign-in for live while some session of its login can still be exchanged.
`SignInsEndForCause` is the other half: a live sign-in ends only by a logout with one of its
tokens, by a password change, or because the token it has left has expired.

### Media

An upload is `Put` (object), then `Attach` (transaction), then `Cleanup` of what was
replaced; `AttachFails` and `AttachUnanswered` are the two ways into the `catch`: the
transaction did not commit, or it did and the answer was lost. The variable `doubtful`
remembers the second case, and the guarantee about objects excludes exactly these
assets: the handler then deletes an object whose row is committed. `ReadMap` and
`SetMapUrl` are the two statements of `ElementService.update`, which takes no lock on
the element; the other requests that take a picture away hold the owner's row or the
campaign and are one step. `RemoveOwner` removes any set of slots, as the deletion of a
campaign does; the avatar of a user's account never loses its owner in the program, so
for that slot the model allows more than the code. `StartJob` ... `EndJob` are the loops of
`reconcile --apply`, one round trip a step; errors of the bucket and of the database may
happen at each. The fields `due` and `cutoff` record what was an orphan and what was old
enough at the start.

### Autosave

One step is one turn of the event loop. `Send` puts a request on the wire, `Apply` is the
server, `Succeed` and `Lose` are the two answers, and `GoOn` is the loop of `flush` in
which every waiting caller continues when the request in flight settles.

### The session of the browser

A session of the server and the access token issued with it have one number. `Rotate`, `Refuse`
are the server's side of a refresh; `TakeToken`, `Refreshed` and `RefreshFails` the client's, which
sets the token first and asks for the profile next. `shared` is `refreshPromise`: whoever gets a 401
joins it and is resumed by `EndRefresh` with the tab's new token, or fails with it. `Show` is
`setProfile`: `SessionWorkspace` gives another account a `QueryClient` of its own, so answers
to requests sent before (`kept` is false) go to a client that nobody sees. `fate` is a ghost that
remembers who spent a session; `crossed` remembers the tabs in which two sign-ins, or a sign-in and a
refresh, were under way at once (see Observations). The server is that of `AuthSessions`, reduced to
what a tab can tell: a live session is exchanged once. `BrowserSignIns` adds a history variable, `origin`,
the login a session stems from, and with it the mapping of `AuthSessions` to `SignIns`: the two
models of the server keep one promise.

### Addresses

An address is a page, an opened material and whether it carries an invitation. Each `<Navigate>` of
the code is a disjunct of `Redirect`, guarded by what the page has cached (`session`, `seen`, `opened`);
answers and moves start the count of redirects anew. `via` tells an address from a link the
program has offered, which is what `MenuLeadsStraight` is about.

### View marks

`Mark` is the effect of `useBoardViews` after a commit: what is new of the snapshot is highlighted,
what was not tracked is sent, in batches. `Error`, `NotFound`, `Fetched`, `GiveUp` and `Recorded` are the
ways of one request: one retry of the same payload, a new look at the board after a 404, the
rest of the batch, and the failure the page shows.

### Lists of materials

A deletion is a notification (`toasts`), then a request (`deletes`) with the steps "sent", "applied"
and then "list" or "joined", while the list is read again. `hiding` is the page's `pendingDeletes`. The notifications
outlive the page (`by` names it), but not the session; requests outlive both, and those of an ended session
(`before`) no longer reach the caches that are shown. A material is deleted from its detail (`DetailShown`), which
can be open while the list is read for the first time: the invalidation after the deletion then
joins that read instead of replacing it (`JoinsRead`), and the list it brings may be older than the deletion.
`Marked` is the mark of an opened material written into the cached lists, which turns a list that failed
back into one that is shown. `taken` holds the materials whose list was asked for after the deletion and
has arrived.

### Quick note, sheet, canvas

`QuickNote` has a draft in memory, its copy in `sessionStorage`, and a request that may be answered
after its provider has gone. `CharacterSheet` has one edited field, any of the 28, whose entries are
numbers at and beside the limits; `FormFields` are the inputs' attributes and `RuleFields` the
server's rules. `BoardPage` has a card that is moved and pairs of cards that are linked: `Reconcile` rebuilds
the canvas only for data that differ from the cached ones, which is what structural sharing does.
`error` is one state for the whole page: any link that is created clears it. `message` is a history variable
that tells, for the last failed link of each pair, whether its message is still the page's or was taken away by the
success of another pair.

## 3. Runs

| Run | Instance | States | What it shows |
|---|---|---|---|
| `campaign_atomic` | master and one user, one element, one character, two cards, two links; all operations | 153,936 | every history of requests keeps the rows consistent |
| `board_requests` | two handlers of the master, one element, three cards, two links | 334,601 | reads under the lock hold until the commit; commits are atomic requests |
| `member_requests` | two handlers, master and one user, one element, two characters | 208,568 | the same for roles, removals, views and characters, unlocked requests included |
| `late_text` | two texts | violation | see Findings |
| `invitations` | two handlers, three users, two links, two roles | 374,667 | links are used once and never burnt, whatever becomes of the member's role; no request waits for ever |
| `auth_sessions` | three handlers, three sessions, two passwords | 239,418 | one token per login; sign-ins end once and for a cause |
| `password_change` | the same | violation | see Findings |
| `editors` | the autosave with four drafts, one invalid; the quick note with two texts; every field of the sheet; one card, two pairs of cards | 884,727 | what the user writes, moves and draws is kept, or the page says why not; `flush` is right unless an answer was lost |
| `browser` | two tabs with two requests and a sign-in; three moves; two entities; two materials, one to be created | 254,115 | sessions, addresses, view marks and lists of the browser; the tabs' sessions implement `SignIns` |
| `flush` | the autosave of `editors` | violation | see Findings |
| `media` | two handlers, a map and an avatar, two uploads | 467,593 | pictures can be served, uploads survive, a clean report is clean |
| `map_url` | the same | violation | see Findings |

**Bounds.** For the backend and the autosave all bounds are sizes of constant sets, besides `MaxBatch` (how many entities one
`recordViews` names; 1 or 2, since the check is per entity) and `MaxWaiting` (how many
flushes of the hook wait at once: the timer's and the unmount's). Two handlers are
what a race of a request with another one takes; sessions have three, for a login and two
exchanges of one token. Three cards let a link be created, and its card deleted, beside
another pair; two links let a pair be linked twice. Two characters of one user collide on
the index of active characters. Three users and two links let two users race for one link
and one user take two. Two assets let one picture replace another while the job looks at it;
the media model was also explored with one slot and three assets (1.5 million states). Where
ids run out, the invariants are proved for any number of them (section 5).

In `browser`, two tabs are what a race for the cookie takes, and two requests of one tab what joins
a refresh; four sessions are the first one, a sign-in and two rotations, so that a cookie can be spent
in both tabs. `TabsActAsShown` was also explored with two sign-ins of two accounts and five sessions
(4.0 million states). Three moves take a guest from an invitation through signing in to a page, or a
user through a link, a change of role and another link; the redirects between them are not
bounded. Two entities with batches of two are a batch of which one goes and the other stays; an
entity that appears later makes a second batch. Two materials and two pages let a page that left
a deletion behind meet the next; two of the materials' deletions and changes together
(`MaxDeskWork`) let a change run beside a deletion. In `editors`, three visits and two notes let an answer come to a later
visit with another draft; two saves of a sheet and one fault are a queue whose first fails; two moves
are what an older answer takes to arrive late; two pairs, linked three times, are what it takes that one link
fails, another succeeds late and the first is tried again. Moves, links and changes by others are three in
all (`MaxBoardSteps`).
Names of the bounds: `MaxSessions`, `MaxExpiries`, `MaxCalls`, `MaxOpen`, `MaxSignIns`, `MaxSteps`,
`MaxEntities`, `MaxFaults`, `MaxRefreshes`, `MaxPages`, `MaxDeleting`, `MaxDeskFaults`, `MaxVisits`,
`MaxSubmits`, `MaxRoleChanges`, `MaxSaves`, `MaxSheetFaults`, `MaxDrops`, `MaxLinkings`, `MaxOthers`,
`MaxDeskWork`, `MaxBoardSteps`; the last two belong to the instances.

**Deadlock.** `CHECK_DEADLOCK FALSE` stands where the system stops legitimately: the campaign
has been deleted (campaign runs, invitations), the editor is closed and everything is saved
(editors), or the user has nothing left to do within the bounds (browser). The session and media runs
check for deadlock.

**Mutants.** Every property of a passing run has a mutant next to the code it changes (its
comment begins "Mutant:"): a lock left out, a check not repeated, an index that sees too
little, a cascade forgotten, a claim outside its transaction, an error not counted. No
mutant is used by a specification.

## 4. Fairness

Five modules state liveness.

- `InvitationRequests`: strong fairness for the next statement of each handler. A handler
  that waits for a row is enabled only while the row is free; PostgreSQL queues waiters, so
  it is not overtaken for ever. Weak fairness for `BreakDeadlock`, the deadlock detector.
  Nothing is assumed about `Start`, `Fail` or `Expire`: requests need not come nor fail.
- `Autosave`: weak fairness for the timer, for the server and for its answer. Failures are never
  fair, and the property excepts a request in error, which the user sees.
- `BrowserSession`: weak fairness for `Proceed`: something that was sent goes on. A request has
  finitely many steps, and nobody can start more of them than the bounds allow, so every one of
  them ends. `Fail` is among the steps of `Proceed`: a request may as well fail, as `fetch` may.
- `EntityViews`: weak fairness for rendering, for the effect that marks, and for the requests. The
  user need not retry, refresh or stay.
- `Materials`: weak fairness for each deletion's next step: its timer, the request, the answer. A
  notification that is held by pointer or focus has no timer and no such step; the user need not
  close it (`Dismiss`), nor leave it.

The safety properties and the refinements use no fairness.

## 5. Proofs

All theorems hold for every value of the constants under the named assumptions:
`ContentAssumption`, `OperationsAssumption` and `RequestsAssumption` (ids are distinct
kinds of values, card ids are numbers the service can sort, marks are no rows),
`InvitationsAssumption`, `SessionsAssumption`, `MediaAssumption`, `AutosaveAssumption`,
`QuickNoteAssumption`, `BlankIsNoText`, `CharacterSheetAssumption`, `SheetKeysAssumption`,
`BoardPageAssumption`, `EntityViewsAssumption`,
`MaterialsAssumption`, `NavigationAssumption`, `BrowserSessionAssumption` (bounds are numbers).

- **Campaign content** (`CampaignAtomic_proofs`): `TypeCorrect`, then `AlwaysConsistent`. The
  consistency properties are inductive together with the types: that no card shows a
  hidden element needs that an element is hidden only together with its cards; that a mark
  names something that exists needs that the marks deleted are those of *all* cards and links
  that go, which is why `Doomed` has to look through `LinksAt`.
- **The handlers** (`CampaignRequests_proofs`): the inductive invariant is `RequestsInv`, types
  plus `LockedReadsHold`: while a handler holds the campaign row, what it was granted stays
  granted and what it will delete stays exactly what it has to delete. A step of
  another handler can only be unlocked: a text, or a pre-check; the creation of a
  character waits for the row. `ReadsHoldUnderLock` is that invariant,
  `RequestsImplementAtomic` the refinement, and `RequestsKeepConsistent` carries the
  consistency of the abstract specification over to the handlers. Its parts are stated one by
  one: `CardsStayVisible`, `SourcesHaveOneCard`, `LinksStayWellFormed`, `ViewsHaveOwners`,
  `CampaignOwnedOrGone`, `MasterKeepsNothingPrivate`, `PlayersHaveOneActiveCharacter`;
  `RequestsTypeCorrect` is the type invariant.
- **Invitations** (`Invitations_proofs`): `LinksAlwaysConsistent` for the abstract
  specification; `ClaimsAlwaysHold`: an acceptance between its claim and its commit owns the row
  and the link is open; from it `RequestsImplementInvitations` and `RequestsKeepLinks` (`LinksMatchMembers`).
  Changes of roles are steps of both specifications; the consistency says nothing of the role.
- **Sessions** (`AuthSessions_proofs`): one working token per login is not inductive: it needs
  that a rotation's claim is backed by the row lock (`ClaimsHold`), that row locks come only from
  claims, and that each session's origin is a session. `OneTokenAlways` and
  `SessionsImplementSignIns` follow. `SignInsAlwaysEndForCause` rests on the same invariant: a rotation
  that fails gives its claim back, one that commits leaves a successor of the same origin.
- **Media** (`MediaLifecycle_proofs`): `PicturesAlwaysServed` and `UploadsAlwaysSurvive`. The
  invariant says what is *condemned* (about to be deleted by some cleanup or by the job) and
  that nothing condemned is in use, except doubtful assets; that uploads in flight are new to
  the database and to the grace period; that no two slots share an asset; and that what
  an unlocked update has seen is in no other slot.
  `ReportsAreClean`: what was an orphan when the job started and is still there is still to be
  looked at, or an error was counted; and nothing that was old then can come into use again.
- **Editors** (`Editors_proofs`): `AutosaveTypeCorrect`, `OneSaveAlways`, `SavedAlwaysMeansSaved`, from the
  invariant that one save is on the wire exactly while the status is "saving", that an applied
  one is what the server has, and that an idle editor knows what the server has.
  `TextAlwaysKept`: a visit has one request at most, and while its provider is there the field still
  shows what it sent, so an answer can only take away what it saved. `MovesAlwaysStay`: saves are
  numbered by the moves, and the canvas holds the card at the last one. `LinksAlwaysExplained`: a link that was created is in `backed`, and
  the message of one that failed is the page's or is remembered as replaced, for any number of pairs (`CanvasInv`).
  `StatusAlwaysTrue` joins to it `UnsavedAlwaysUnderWay`, the safety half of `DraftReachesServer`, which
  needs that what an editor left behind is on the wire or awaited by a flush (`LeftBehind`).
  `FlushAlwaysTrueIfKnown`: a flush is right while the editor knows what the server has (`Known`),
  because whatever is sent after the call was a draft since the call (`FlushInv`). `FlushAlwaysTrue`
  adds that only a lost answer ends that knowledge: it assumes `"lost" \notin Faults`, and the run `flush`
  shows that without the assumption the promise does not hold. `SheetAlwaysKept`: the saves of the queue were sendable when they were made, what the
  form lets through the rules accept for each of the 28 fields, and the last save of the queue,
  or the row, is what the sheet shows while nothing waits to be sent.
- **Browser** (`Browser_proofs`): `RedirectsAlwaysEnd` is a ranking: after one redirect the page is settled
  or one of the few with one redirect left, after two it is settled (`OneLeft`, `Settled`).
  `InvitationAlwaysKept`. `LinksAlwaysLeadStraight`, an action property: where a link has led, what the page
  has cached of the role is still what the link was shown for. `OnlyDisplayedIsEverViewed`: requests and failed batches name only what was
  displayed. `HighlightsAlwaysSurvive`, an action property. `DeletedAlwaysStaysHidden`: a page
  holds the row back while the deletion can be undone or is under way; where its list was asked for after the
  deletion (`taken`), the row has gone on the server for good, and neither the cached list nor the read under way
  can have it (`DeskInv`).
  `TrackedAlwaysInHand` and `HiddenAlwaysPending` are the safety halves of `DisplayedIsRecorded` and
  `DeletionEnds`: nothing is left without a step that will decide it. The first needs that whatever the page
  names has appeared on the server, and that a request never sends more than its batch. With the two
  theorems before they make `ViewsAlwaysTrue` and `HiddenAlwaysWhileDeleting`.
- **Session of the browser** (`BrowserSession_proofs`): `NoTabSignsItselfOut`: a tab has one refresh, and
  the cookie in the browser is spent only while the answer with its successor is on the
  way, so a refresh starts with a cookie its own tab has not spent. `SnapshotsAlwaysOwn` rests on
  `OwnInv`: where nothing has crossed, the cached answers, the tab's token and the tokens of all requests
  whose answers will be kept belong to the account that is shown or to the one that a refresh
  is about to show; a tab that shows nobody keeps nothing; a sign-in has the tab to itself.
  `TokensAlwaysOwn` follows from the same invariant, and `TabsAlwaysActAsShown` joins the two. `WaitersAlwaysAwaited` is the safety half of
  `RequestsSettle`: who waits, waits for a refresh of its tab that is under way (`AwaitInv`), and `EndRefresh`
  wakes all who wait for it. `BrowserKeepsSignIns` is the refinement of `SignIns` by the tabs' sessions:
  every session stems from a login that stems from itself (`Rooted`), and a rotation spends
  a live session and adds its successor in one step.

**Only model-checked**: the liveness properties (`EveryRequestAnswered`, `DraftReachesServer`,
`RequestsSettle`, `DisplayedIsRecorded`, `DeletionEnds`), since TLAPS has no rules for fairness and
ENABLED, and the violations. Every invariant, action property and refinement of a passing run is a theorem.
`RequestsTypeCorrect` and `WaitersAlwaysAwaited` are the other way round: no run checks them, since
`LockedReadsHold` and `RequestsSettle` say more of the same instances.

## 6. Assumptions of the models

- READ COMMITTED, PostgreSQL's default: a statement that waits for a row looks at the row again
  when it gets it, and does not see rows inserted since it started.
- `lockCampaignMember` is the first write-lock of a transaction that uses it.
- Uuids, storage keys included, are never issued twice. Tokens are not guessed.
- The grace period of the reconciliation (one hour) is longer than an upload from `Put` to the
  end of its transaction (guard of `Age`). `UploadsSurvive` holds because of it.
- One reconciliation runs at a time.
- An answer to a commit may be lost in the uploads, where the handler reacts to it by deleting
  an object. Elsewhere a lost answer changes nothing more in the backend.
- A tab's script runs one callback at a time; a step of a browser module is what runs between two
  awaits. React commits a rendering before it runs the effects of it.
- TanStack Query runs one read of a query at a time; invalidating a query that is on the page
  replaces its read if it has data, and joins the read under way if it has none; whoever awaits a replaced read
  awaits the new one (so that a refresh of the board which a refetch replaces still resets the marks); equal data
  keep their identity; writing a query's data ends its error.
- The access token of a refresh is checked by its expiry only, as the server does.

## 7. Findings

Disagreements between the code and what the repository says of it, each a run that must find the
violation:

1. `late_text`: `ElementService.update` checks the author's role before it writes and never
   again. After a demotion to VIEWER has committed, an update that was checked before still
   changes the element, whereas `element-access.ts:8` says "Authors keep rights on their elements
   only while they remain the campaign owner or a PLAYER member."
2. `password_change`: a rotation (or a login that was verified) in flight while the password
   changes leaves an active session of the old password, whereas `auth.controller.ts:138` says
   "Change password and revoke all refresh sessions".
3. `flush`: after a save that was applied and not answered, taking the change back makes `flush`
   resolve to true while the server has the other text, whereas `use-autosave.ts:9` says that it
   resolves to "whether everything is saved".
4. `map_url`: an update with an external map URL that reads before an upload attaches leaves the
   uploaded map beside the URL, whereas `element.dto.ts:61` says "Setting it (or null) removes an
   uploaded map file."

### Observations

Met while modelling; no line of the repository promises otherwise in so many words, or the property
that is checked excepts the case, so they are no runs:

- *Two sign-ins, or a sign-in and a refresh, crossing in one tab* may leave the profile of one account
  with the token of another (`auth-context.tsx:58` sets the token before it asks for the profile,
  `:89` does the same for a refresh), against the sentence of `session-workspace.tsx:8`.
  `TabsActAsShown` leaves those tabs out (`crossed`).
- A request that waits for a refresh is sent again with the token of whatever account that refresh
  gives (`client.ts:85`): what the page of one account sent is then done as another one that has signed in
  in another tab. Its answer is kept out of the other account's cache (`SnapshotsAreOwn`).
- A refresh in flight when the user signs out can sign the tab in again: its answer sets the token and
  the profile.
- `toast.tsx:74`: pausing is one flag, so the pointer's leaving resumes a notification that the
  keyboard's focus still holds. After leaving and coming back within the delay a material can be deleted a
  second time; undoing one notification does not stop the other. Signing out drops
  scheduled deletions.
- *Board*: layout saves are not ordered on the server, so the cache can differ from it until the next
  read; a read that was served before a save and arrives after its answer moves the card back. A link
  refused with 409 because another member made it, and deleted by that member before the board is read
  again, stays drawn (`backed` excepts it). Clearing the text, label or colour of a card is not sent
  (`|| undefined`).
- *Links on the board*: the page has one error for all of them. A link that failed stays drawn with no
  error once another one, created before, is answered (`board-page.tsx:1006`) and the board that is read again
  equals the cached one. `DrawnLinksExplained` says where exactly: `message` is "replaced".
- *Materials*: deleted from its detail while the list is first read, a material can come back into the list
  for a while: that read is older than the deletion and the invalidation does not replace it. A deletion whose list
  fails is over too; a mark as seen that is recorded after it shows the list as it was, the deleted row included.
  `DeletedStaysHidden` promises the row away for good only where a list asked for after the deletion has arrived.
- *Sheet*: reopening a character while a save is in flight shows the old values, and two queues may
  then race; a name of spaces counts as saved; leaving without a blur loses the last
  change; "saved" is shown while a later change waits for its delay.
- *Quick note*: leaving and coming back while a note is sent shows its text again, and sending it
  makes a second note.
- Two access changes of one material at once may leave its cached detail behind the list.

## 8. Not modelled, and why

- Titles, type data, coordinates, sort orders: data that no modelled property tells apart.
- The refusal of a title or a text on a card that stands for a material (`updateCard`): the text operation of a
  card stands for its tags, colour and place as well, which every card has.
- A member who is removed and joins again with the board open all the while: the marks deleted at the
  removal are not sent again by that page, which has them on record as seen.
- Counts of new material, previews, lists: reads, whose answers nothing in the backend keeps.
- Image normalisation, limits and streaming: pure computation and I/O.
- Temporary upload files, and the report-only mode of the reconciliation.
- Access tokens in the backend: stateless, nothing is kept of them (`BrowserSession` models that they expire).
- In the browser: the history of addresses, the pages of characters in `Navigation`, the single
  material's view, search and filters, previews, the editor of a card's text and the placing of new cards,
  registration (as sign-in), `updateProfile` (it sets the profile of the account that is shown).
- Pages that are forms over one request (members, invitations, settings, account), configuration, health,
  game systems, migrations: see the inventory.

## 9. Plan

Done, in the order of importance: campaign content and its handlers, invitations and sessions with
their abstract specifications, refinements and proofs; the media life cycle; the autosave; the session
of the browser, its addresses, view marks, lists, quick note, sheet and canvas; the proofs of every
invariant, action property and refinement that a passing run checks.

Left:

1. The media model: temporary files, the report-only mode, and a slot of a user that keeps its owner.
2. `BrowserSession`: `updateProfile`, and registration as an operation of its own.
3. `BoardPage`: the editor of a card's text, placing new cards; several cards that move.
   `EntityViews`: removal and joining again while the board is open.
4. `Navigation`: the browser's history.
