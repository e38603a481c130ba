----------------------------- MODULE EntityViews ------------------------------
(***************************************************************************)
(* How the board page of one member records what it has shown              *)
(* (useBoardViews in use-entity-views.ts, EntityViewService.record).  The  *)
(* page marks the cards and links of a snapshot in batches once they are   *)
(* rendered; meanwhile others add and hide entities, answers are lost and  *)
(* older reads of the board arrive late.                                   *)
(***************************************************************************)
EXTENDS Naturals, FiniteSets

CONSTANTS
    MaxEntities,    \* cards and links, in the order of the board
    BatchSize,      \* entities in one request
    MaxFaults,      \* requests that fail with a network or server error
    MaxRefreshes    \* reads of the board in all

ASSUME EntityViewsAssumption ==
    /\ {MaxEntities, MaxFaults, MaxRefreshes} \subseteq Nat
    /\ BatchSize \in Nat \ {0}

VARIABLES
    life,       \* life[e] on the server: "absent", "visible", "gone"
    member,     \* the user is in the campaign
    viewed,     \* entity_views of the user
    board,      \* the ['board'] query: entities and those marked isNew
    reads,      \* reads of the board that the server has served and the page has not got
    onPage,     \* renderedIds: what React Flow has committed
    tracked,    \* entities the page has sent or is sending
    highlight,  \* entities the page shows as new
    posts,      \* requests to record views
    failures,   \* batches that failed
    boardOpen,  \* the page is mounted
    displayed,  \* entities that were ever on the user's screen
    faults, refreshed

viewVars == <<life, member, viewed, board, reads, onPage, tracked, highlight, posts, failures,
              boardOpen, displayed, faults, refreshed>>
serverVars == <<life, member, viewed>>
pageVars == <<onPage, tracked, highlight, failures, boardOpen, displayed>>

Entities == 1 .. MaxEntities
Visible == {e \in Entities : life[e] = "visible"}
Snapshot == [shown |-> Visible, new |-> Visible \ viewed]
Empty == [shown |-> {}, new |-> {}]

ViewsInit ==
    /\ life = [e \in Entities |-> IF e = MaxEntities THEN "absent" ELSE "visible"]
    /\ member = TRUE /\ viewed = {}
    /\ board = Empty /\ reads = {} /\ onPage = {} /\ tracked = {} /\ highlight = {}
    /\ posts = {} /\ failures = {} /\ boardOpen = TRUE /\ displayed = {}
    /\ faults = 0 /\ refreshed = 0

-----------------------------------------------------------------------------
\* Another member adds an entity, hides one (its views are cleared), or the master removes
\* the user.
Add(e) ==
    /\ life[e] = "absent" /\ life' = [life EXCEPT ![e] = "visible"]
    /\ UNCHANGED <<member, viewed, board, reads, pageVars, posts, faults, refreshed>>

Hide(e) ==
    /\ life[e] = "visible" /\ life' = [life EXCEPT ![e] = "gone"]
    /\ viewed' = viewed \ {e}
    /\ UNCHANGED <<member, board, reads, pageVars, posts, faults, refreshed>>

RemoveMember ==
    /\ member /\ member' = FALSE /\ viewed' = {}
    /\ UNCHANGED <<life, board, reads, pageVars, posts, faults, refreshed>>

-----------------------------------------------------------------------------
\* The page asks for the board: when it opens, after a change (a refetch), or because the
\* user refreshes; withViewStatus computes isNew.  A refresh whose read is replaced by another
\* goes on with that one.
Read(how) ==
    /\ boardOpen /\ member /\ refreshed < MaxRefreshes
    /\ refreshed' = refreshed + 1
    /\ LET refreshing == how = "refresh" \/ \E r \in reads : r.how = "refresh"
       IN  reads' = {[how |-> IF refreshing THEN "refresh" ELSE "refetch", got |-> Snapshot]}
    /\ UNCHANGED <<serverVars, board, pageVars, posts, faults>>

Stale(open) == {[p EXCEPT !.current = FALSE] : p \in open}

\* A read arrives; after a refresh by the user, reset() starts over.
Arrive(r) ==
    /\ r \in reads /\ boardOpen
    /\ reads' = reads \ {r} /\ board' = r.got
    /\ IF r.how = "refresh"
       THEN /\ tracked' = {} /\ highlight' = {} /\ failures' = {} /\ posts' = Stale(posts)
       ELSE UNCHANGED <<tracked, highlight, failures, posts>>
    /\ UNCHANGED <<serverVars, onPage, boardOpen, displayed, faults, refreshed>>

Render ==
    /\ boardOpen /\ onPage # board.shown
    /\ onPage' = board.shown
    /\ displayed' = displayed \cup board.shown
    /\ UNCHANGED <<serverVars, board, reads, tracked, highlight, posts, failures, boardOpen,
                   faults, refreshed>>

Batches(added) ==
    LET Rank(e) == Cardinality({f \in added : f < e})
    IN  {{f \in added : Rank(f) \div BatchSize = Rank(e) \div BatchSize} : e \in added}

Post(batch) == [all |-> batch, sent |-> batch, step |-> "post", again |-> FALSE, current |-> TRUE]

\* Mutant: the snapshot is marked before it is rendered.
MarkEarly ==
    LET added == board.shown \ tracked IN
    /\ boardOpen
    /\ added # {} \/ ~(highlight \subseteq board.shown)
    /\ tracked' = tracked \cup added
    /\ highlight' = (highlight \cap board.shown) \cup (added \cap board.new)
    /\ posts' = posts \cup {Post(b) : b \in Batches(added)}
    /\ UNCHANGED <<serverVars, board, reads, onPage, failures, boardOpen, displayed, faults,
                   refreshed>>

\* Mutant: the highlights are those of the snapshot at hand.
MarkNewest ==
    LET added == board.shown \ tracked IN
    /\ boardOpen /\ board.shown \subseteq onPage
    /\ added # {} \/ highlight # board.new
    /\ tracked' = tracked \cup added
    /\ highlight' = board.new
    /\ posts' = posts \cup {Post(b) : b \in Batches(added)}
    /\ UNCHANGED <<serverVars, board, reads, onPage, failures, boardOpen, displayed, faults,
                   refreshed>>

\* The effect: once the whole snapshot is rendered, what was not tracked is sent, and
\* highlighted if it is new.
Mark ==
    LET added == board.shown \ tracked IN
    /\ boardOpen /\ board.shown \subseteq onPage
    /\ added # {} \/ ~(highlight \subseteq board.shown)
    /\ tracked' = tracked \cup added
    /\ highlight' = (highlight \cap board.shown) \cup (added \cap board.new)
    /\ posts' = posts \cup {Post(b) : b \in Batches(added)}
    /\ UNCHANGED <<serverVars, board, reads, onPage, failures, boardOpen, displayed, faults,
                   refreshed>>

-----------------------------------------------------------------------------
\* EntityViewService.record: all of the request's entities are visible, or none is recorded.
Records(p) == p.step # "fetch" /\ member /\ p.sent \subseteq Visible

Recorded(p) ==
    /\ Records(p)
    /\ viewed' = viewed \cup p.sent /\ posts' = posts \ {p}
    /\ UNCHANGED <<life, member, board, reads, pageVars, faults, refreshed>>

Failed(p) ==
    /\ posts' = posts \ {p}
    /\ failures' = IF p.current THEN failures \cup {p.all} ELSE failures
    /\ UNCHANGED <<board, reads, onPage, tracked, highlight, boardOpen, displayed, refreshed>>

\* A network or server error, before or after the server recorded the views: one retry of
\* the same payload, then the batch is kept for the user to retry.
Error(p) ==
    /\ faults < MaxFaults /\ faults' = faults + 1
    /\ viewed' \in {viewed} \cup (IF Records(p) THEN {viewed \cup p.sent} ELSE {})
    /\ UNCHANGED <<life, member>>
    /\ \/ /\ p.step # "fetch" /\ ~p.again
          /\ posts' = (posts \ {p}) \cup {[p EXCEPT !.again = TRUE]}
          /\ UNCHANGED <<board, reads, pageVars, refreshed>>
       \/ (p.step = "fetch" \/ p.again) /\ Failed(p)

\* 404: something of the batch is gone, or the user is; the page looks at the board again.
NotFound(p) ==
    /\ p.step = "post" /\ ~Records(p)
    /\ posts' = (posts \ {p}) \cup {[p EXCEPT !.step = "fetch", !.again = FALSE]}
    /\ UNCHANGED <<serverVars, board, reads, pageVars, faults, refreshed>>

\* 404 on the rest of a batch, or no campaign any more.
GiveUp(p) ==
    /\ \/ p.step = "rest" /\ ~Records(p)
       \/ p.step = "fetch" /\ ~member
    /\ Failed(p)
    /\ UNCHANGED <<serverVars, faults>>

\* Mutant: the fresh board is shown and the rest of the batch forgotten.
FetchedOnly(p) ==
    /\ p.step = "fetch" /\ member
    /\ board' = IF p.current /\ boardOpen THEN Snapshot ELSE board
    /\ posts' = posts \ {p}
    /\ UNCHANGED <<serverVars, reads, pageVars, faults, refreshed>>

\* The fresh board is shown, and what is left of the batch is sent, unless the page has
\* started over.
Fetched(p) ==
    LET rest == p.sent \cap Visible IN
    /\ p.step = "fetch" /\ member
    /\ board' = IF p.current THEN Snapshot ELSE board
    /\ posts' = (posts \ {p}) \cup
           (IF p.current /\ rest # {} THEN {[p EXCEPT !.sent = rest, !.step = "rest"]} ELSE {})
    /\ UNCHANGED <<serverVars, reads, pageVars, faults, refreshed>>

PostStep(p) == Recorded(p) \/ Error(p) \/ NotFound(p) \/ GiveUp(p) \/ Fetched(p)

-----------------------------------------------------------------------------
Retry ==
    /\ boardOpen /\ failures # {}
    /\ failures' = {} /\ posts' = posts \cup {Post(b) : b \in failures}
    /\ UNCHANGED <<serverVars, board, reads, onPage, tracked, highlight, boardOpen, displayed,
                   faults, refreshed>>

Leave ==
    /\ boardOpen /\ boardOpen' = FALSE
    /\ posts' = Stale(posts) /\ onPage' = {} /\ highlight' = {} /\ failures' = {} /\ tracked' = {}
    /\ reads' = {}
    /\ UNCHANGED <<serverVars, board, displayed, faults, refreshed>>

ViewsNext ==
    \/ \E e \in Entities : Add(e) \/ Hide(e)
    \/ RemoveMember
    \/ \E how \in {"refetch", "refresh"} : Read(how)
    \/ \E r \in reads : Arrive(r)
    \/ Render \/ Mark
    \/ \E p \in posts : PostStep(p)
    \/ Retry \/ Leave

\* React renders and runs effects; requests are answered or fail.
ViewsFairness ==
    /\ WF_viewVars(Render)
    /\ WF_viewVars(Mark)
    /\ WF_viewVars(\E p \in posts : PostStep(p))

ViewsSpec == ViewsInit /\ [][ViewsNext]_viewVars /\ ViewsFairness

-----------------------------------------------------------------------------
\* Nothing is recorded as seen that was never on the screen ("Reconciliation must have
\* committed every card and link before marking the response", use-entity-views.tsx:207).
OnlyDisplayedIsViewed == viewed \subseteq displayed

\* What stays on the screen is recorded, unless it disappears, the page says that saving
\* failed, or the user leaves: one entity that is gone does not cost its batch the mark.
DisplayedIsRecorded ==
    \A e \in Entities :
        boardOpen /\ e \in onPage ~>
            e \in viewed \/ e \notin onPage \/ life[e] = "gone" \/ failures # {} \/ ~boardOpen \/ ~member

\* No entity that the page has taken in hand is forgotten, though the effect will never look at
\* it again: while it can be seen it is recorded, in a request whose failure the page will notice,
\* or in a batch the page offers to retry; also when others of its batch have gone.
InHand(e) ==
    \/ e \in viewed
    \/ \E p \in posts : p.current /\ e \in p.sent
    \/ \E batch \in failures : e \in batch

TrackedIsInHand == member => \A e \in tracked \cap Visible : InHand(e)

\* What the server has recorded was seen, and what was seen is not lost on the way there.
ViewsAreTrue == OnlyDisplayedIsViewed /\ TrackedIsInHand

\* "Board highlights survive technical refetches until manual refresh or leaving"
\* (README.md:94), also when the refetch answers later than the marks were recorded.
HighlightSurvives ==
    [][\A e \in highlight :
           e \in highlight' \/ e \notin board'.shown \/ ~boardOpen'
           \/ \E r \in reads : r.how = "refresh" /\ reads' = reads \ {r}]_viewVars
=============================================================================
