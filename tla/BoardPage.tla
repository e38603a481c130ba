------------------------------- MODULE BoardPage -------------------------------
(***************************************************************************)
(* The canvas of the investigation board (BoardPage in board-page.tsx):    *)
(* one card that the user and others move, and the pairs of cards that     *)
(* they link.  The canvas has its own nodes and edges; they are rebuilt    *)
(* from the cached board when that changes, and a read that brings the     *)
(* same board rebuilds nothing.  Saves of the layout and creations of      *)
(* links do not wait for each other, and share one message on the page.    *)
(***************************************************************************)
EXTENDS Naturals, FiniteSets

CONSTANTS
    Places,         \* positions (and sizes) of the card
    FirstPlace,
    Pairs,          \* pairs of cards that can be linked
    MaxDrops,       \* times the user moves or resizes the card
    MaxLinkings,    \* times the user draws a link
    MaxOthers       \* changes by other members

ASSUME BoardPageAssumption ==
    /\ FirstPlace \in Places
    /\ {MaxDrops, MaxLinkings, MaxOthers} \subseteq Nat

VARIABLES
    stored,     \* [place, links] on the server
    cached,     \* the ['board'] query: [place, links]
    boardRead,  \* the read under way: [step: "none", "asked" or "answered", got]
    readError,  \* board.isError: the page says that the refresh failed
    place,      \* where the canvas shows the card
    drawn,      \* the links that the canvas shows
    saves,      \* layout saves on the wire: [id, to, applied]
    pendingLayout,  \* the save the canvas holds the card at, 0 for none
    drops,
    linkings,   \* requests to create a link: [id, pair, applied]
    unlinking,  \* the request to delete a link, [pair, applied]: one at most
    drawnLinks, \* links the user has drawn so far
    backed,     \* pairs the server has had linked since the user began to draw the link
    error,      \* the page shows an error: one for all its cards and links
    message,    \* of the last creation of a link that failed: "none", "shown", or "replaced"
    others      \* changes by other members so far

boardVars == <<stored, cached, boardRead, readError, place, drawn, saves, pendingLayout, drops,
               linkings, unlinking, drawnLinks, backed, error, message, others>>
creationVars == <<linkings, drawnLinks, backed, error, message>>

Board == [place |-> FirstPlace, links |-> {}]
NoBoardRead == [step |-> "none", got |-> Board]
NewBoardRead == [step |-> "asked", got |-> Board]

BoardInit ==
    /\ stored = Board /\ cached = Board /\ boardRead = NoBoardRead /\ readError = FALSE
    /\ place = FirstPlace /\ drawn = {}
    /\ saves = {} /\ pendingLayout = 0 /\ drops = 0
    /\ linkings = {} /\ unlinking = {} /\ drawnLinks = 0 /\ backed = {}
    /\ error = FALSE /\ message = [k \in Pairs |-> "none"] /\ others = 0

-----------------------------------------------------------------------------
\* New data rebuilds the canvas, except where a save has not been confirmed.
Reconcile(data) ==
    /\ cached' = data
    /\ IF data = cached THEN UNCHANGED <<place, drawn>>
       ELSE /\ place' = IF pendingLayout' # 0 THEN place ELSE data.place
            /\ drawn' = data.links

\* Another role, new highlights or the conditions of a character rebuild the canvas as well.
Rebuild ==
    /\ place' = IF pendingLayout # 0 THEN place ELSE cached.place
    /\ drawn' = cached.links
    /\ UNCHANGED <<stored, cached, boardRead, readError, saves, pendingLayout, drops, unlinking,
                   creationVars, others>>

\* The user refreshes, or a change of the board or of a material invalidates it.
RefreshBoard ==
    /\ boardRead' = NewBoardRead
    /\ UNCHANGED <<stored, cached, readError, place, drawn, saves, pendingLayout, drops, unlinking,
                   creationVars, others>>

ServeBoard ==
    /\ boardRead.step = "asked"
    /\ boardRead' = [step |-> "answered", got |-> stored]
    /\ UNCHANGED <<stored, cached, readError, place, drawn, saves, pendingLayout, drops, unlinking,
                   creationVars, others>>

BoardArrives ==
    /\ boardRead.step = "answered"
    /\ boardRead' = NoBoardRead /\ readError' = FALSE
    /\ UNCHANGED pendingLayout
    /\ Reconcile(boardRead.got)
    /\ UNCHANGED <<stored, saves, drops, unlinking, creationVars, others>>

BoardFails ==
    /\ boardRead # NoBoardRead
    /\ boardRead' = NoBoardRead /\ readError' = TRUE
    /\ UNCHANGED <<stored, cached, place, drawn, saves, pendingLayout, drops, unlinking,
                   creationVars, others>>

\* Another member moves the card, links a pair or deletes a link.
Other ==
    /\ others < MaxOthers /\ others' = others + 1
    /\ \/ \E p \in Places \ {stored.place} : stored' = [stored EXCEPT !.place = p]
       \/ \E k \in Pairs \ stored.links : stored' = [stored EXCEPT !.links = @ \cup {k}]
       \/ \E k \in stored.links : stored' = [stored EXCEPT !.links = @ \ {k}]
    /\ backed' = backed \cup stored'.links
    /\ UNCHANGED <<cached, boardRead, readError, place, drawn, saves, pendingLayout, drops,
                   linkings, unlinking, drawnLinks, error, message>>

-----------------------------------------------------------------------------
(* The layout: PATCH /investigation-board/nodes/:cardId *)

\* onNodeDragStop, onResizeEnd.
Drop(p) ==
    /\ drops < MaxDrops /\ p # place
    /\ place' = p /\ drops' = drops + 1
    /\ saves' = saves \cup {[id |-> drops', to |-> p, applied |-> FALSE]}
    /\ pendingLayout' = drops'
    /\ UNCHANGED <<stored, cached, boardRead, readError, drawn, unlinking, creationVars, others>>

SaveLayout(s) ==
    /\ ~s.applied
    /\ stored' = [stored EXCEPT !.place = s.to]
    /\ saves' = (saves \ {s}) \cup {[s EXCEPT !.applied = TRUE]}
    /\ UNCHANGED <<cached, boardRead, readError, place, drawn, pendingLayout, drops, unlinking,
                   creationVars, others>>

\* Mutant: any answer releases the card.
ReleaseAny(s) == pendingLayout' = 0

\* onSettled: only the last save releases the card.
Release(s) == pendingLayout' = IF pendingLayout = s.id THEN 0 ELSE pendingLayout

\* The cached board takes the saved layout.
LayoutSaved(s) ==
    /\ s.applied /\ saves' = saves \ {s}
    /\ Release(s)
    /\ Reconcile([cached EXCEPT !.place = s.to])
    /\ UNCHANGED <<stored, boardRead, readError, drops, unlinking, creationVars, others>>

LayoutFails(s) ==
    /\ saves' = saves \ {s} /\ Release(s) /\ error' = TRUE
    /\ UNCHANGED <<stored, cached, boardRead, readError, place, drawn, drops, linkings, unlinking,
                   drawnLinks, backed, message, others>>

-----------------------------------------------------------------------------
(* A link: drawn at once, created by POST /campaigns/:id/investigation-links *)

Creating(k) == \E q \in linkings : q.pair = k

\* onConnect: no second link between two cards the canvas shows linked.
Connect(k) ==
    /\ k \notin drawn /\ drawnLinks < MaxLinkings
    /\ drawn' = drawn \cup {k} /\ drawnLinks' = drawnLinks + 1
    /\ linkings' = linkings \cup {[id |-> drawnLinks', pair |-> k, applied |-> FALSE]}
    /\ backed' = IF k \in stored.links \/ Creating(k) THEN backed ELSE backed \ {k}
    /\ message' = [message EXCEPT ![k] = "none"]
    /\ UNCHANGED <<stored, cached, boardRead, readError, place, saves, pendingLayout, drops,
                   unlinking, error, others>>

CreateLink(q) ==
    /\ ~q.applied /\ q.pair \notin stored.links
    /\ stored' = [stored EXCEPT !.links = @ \cup {q.pair}] /\ backed' = backed \cup {q.pair}
    /\ linkings' = (linkings \ {q}) \cup {[q EXCEPT !.applied = TRUE]}
    /\ UNCHANGED <<cached, boardRead, readError, place, drawn, saves, pendingLayout, drops,
                   unlinking, drawnLinks, error, message, others>>

\* Created, which takes the message of the page away, whatever it was about; or answered
\* 409 because the pair is linked: the board shows it.
Linked(q) ==
    /\ \/ /\ q.applied /\ error' = FALSE
          /\ message' = [k \in Pairs |-> IF message[k] = "shown" THEN "replaced" ELSE message[k]]
       \/ ~q.applied /\ q.pair \in stored.links /\ UNCHANGED <<error, message>>
    /\ linkings' = linkings \ {q} /\ boardRead' = NewBoardRead
    /\ UNCHANGED <<stored, cached, readError, place, drawn, saves, pendingLayout, drops, unlinking,
                   drawnLinks, backed, others>>

\* Mutant: every error is left to the board to show.
LinkFailsQuietly(q) ==
    /\ linkings' = linkings \ {q} /\ boardRead' = NewBoardRead
    /\ UNCHANGED <<stored, cached, readError, place, drawn, saves, pendingLayout, drops, unlinking,
                   drawnLinks, backed, error, message, others>>

\* Any other error, or an answer that is lost.
LinkFails(q) ==
    /\ linkings' = linkings \ {q} /\ boardRead' = NewBoardRead
    /\ error' = TRUE /\ message' = [message EXCEPT ![q.pair] = "shown"]
    /\ UNCHANGED <<stored, cached, readError, place, drawn, saves, pendingLayout, drops, unlinking,
                   drawnLinks, backed, others>>

\* removeLink: the cached board loses the link at once, and is read again in the end.
RemoveLink(k) ==
    /\ k \in cached.links /\ unlinking = {}
    /\ unlinking' = {[pair |-> k, applied |-> FALSE]}
    /\ UNCHANGED pendingLayout
    /\ Reconcile([cached EXCEPT !.links = @ \ {k}])
    /\ UNCHANGED <<stored, boardRead, readError, saves, drops, creationVars, others>>

DeleteLink(u) ==
    /\ ~u.applied /\ unlinking' = {[u EXCEPT !.applied = TRUE]}
    /\ stored' = [stored EXCEPT !.links = @ \ {u.pair}]
    /\ UNCHANGED <<cached, boardRead, readError, place, drawn, saves, pendingLayout, drops,
                   creationVars, others>>

\* Deleted, or failed with a message of the editor's own.
RemovalEnds ==
    /\ unlinking # {} /\ unlinking' = {} /\ boardRead' = NewBoardRead
    /\ UNCHANGED <<stored, cached, readError, place, drawn, saves, pendingLayout, drops,
                   creationVars, others>>

BoardNext ==
    \/ Rebuild \/ RefreshBoard \/ ServeBoard \/ BoardArrives \/ BoardFails \/ Other
    \/ \E p \in Places : Drop(p)
    \/ \E s \in saves : SaveLayout(s) \/ LayoutSaved(s) \/ LayoutFails(s)
    \/ \E k \in Pairs : Connect(k) \/ RemoveLink(k)
    \/ \E q \in linkings : CreateLink(q) \/ Linked(q) \/ LinkFails(q)
    \/ \E u \in unlinking : DeleteLink(u)
    \/ RemovalEnds

BoardSpec == BoardInit /\ [][BoardNext]_boardVars

-----------------------------------------------------------------------------
\* Until the save of its last move is answered the card stays where the user put it, whatever
\* reads of the board and answers to earlier saves arrive ("A board refetch must not move
\* these cards back to their stale server position", board-page.tsx:879).
UnconfirmedStaysPut == \A s \in saves : s.id = drops => place = s.to

\* A link on the canvas that the server has not had since the user began to draw it is still
\* being created, or the page shows an error since its creation failed: the canvas is not
\* rebuilt when a read brings the same board, so nothing else would take the link away
\* (board-page.tsx:966-1014).  The error is gone only when a link of any pair has been created
\* since (line 1006); then the failed one stays on the canvas without a word.
DrawnLinksExplained ==
    \A k \in drawn \ (backed \cup cached.links) :
        Creating(k) \/ (message[k] = "shown" /\ error) \/ message[k] = "replaced"
=============================================================================
