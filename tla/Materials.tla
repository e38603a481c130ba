------------------------------- MODULE Materials -------------------------------
(***************************************************************************)
(* The list of a campaign's materials (ElementsPage, NotesPage), and the   *)
(* material opened beside it: creating one, changing who sees it through   *)
(* the reveal and hide dialogs, and deleting it once the notification with *)
(* "Undo" has gone (toast.tsx).  The page keeps what it hides in its own   *)
(* state; the notifications and the requests outlive it.                   *)
(* Queries are TanStack Query's: one read of the list at a time; an        *)
(* invalidation replaces the read of a list that is on the page, and who   *)
(* awaits the replaced read awaits the new one; but the first read, while  *)
(* there is nothing cached, goes on and is awaited as it is.               *)
(***************************************************************************)
EXTENDS Naturals, FiniteSets

CONSTANTS
    MaterialIds,
    Existing,       \* the materials that are there at first
    MaxPages,       \* times a list page is opened
    MaxDeleting,    \* deletions that are offered for "Undo" or under way at once
    MaxDeskFaults   \* requests that fail with a network or server error

ASSUME MaterialsAssumption ==
    /\ Existing \subseteq MaterialIds
    /\ {MaxPages, MaxDeleting, MaxDeskFaults} \subseteq Nat

VARIABLES
    row,        \* row[m] on the server: "NEW" (to be created), "THERE" or "GONE"
    detail,     \* detail[m], the query ['element', m]: "none", "cached" or "removed"
    list,       \* the cached ['elements']
    loaded,     \* it has been read: elements.data is there
    listRead,   \* the read of it: [step: "none", "asked" or "answered", got: the answer]
    listError,  \* elements.isError
    page,       \* the mounted page, 0 for none
    pages,
    before,     \* the pages up to this one belong to sessions that have ended
    hiding,     \* its pendingDeletes
    toasts,     \* notifications of deletions: [of, by, paused]
    deletes,    \* DELETE requests: [of, by, step]
    taken,      \* materials deleted by the page whose list has been read again since
    dialog,     \* the materials whose reveal or hide dialog is open: one at most
    change,     \* the access change or creation under way, [of, by]: one at most
    deskFaults

materialVars == <<row, detail, list, loaded, listRead, listError, page, pages, before, hiding,
                  toasts, deletes, taken, dialog, change, deskFaults>>
listVars == <<list, loaded, listRead, listError>>
deskVars == <<page, pages, before>>

There == {m \in MaterialIds : row[m] = "THERE"}
NoRead == [step |-> "none", got |-> {}]
NewRead == [step |-> "asked", got |-> {}]
RowShown(m) == page # 0 /\ ~listError /\ m \in list /\ m \notin hiding
DetailShown(m) == page # 0 /\ ~listError /\ detail[m] = "cached" /\ m \notin hiding

\* A request was sent in the session that still lasts: its caches are those on the page.
Current(x) == x.by > before

\* A read of a list that failed with nothing cached shows the list as loading again.
ReadList ==
    /\ listRead' = NewRead
    /\ listError' = (listError /\ loaded)

\* A list on the page is read again at once, any other the next time it is mounted; a
\* first read that is under way is not replaced.
JoinsRead == ~loaded /\ listRead # NoRead
Invalidate == IF page # 0 /\ ~JoinsRead THEN ReadList ELSE UNCHANGED <<listRead, listError>>

MaterialsInit ==
    /\ row = [m \in MaterialIds |-> IF m \in Existing THEN "THERE" ELSE "NEW"]
    /\ detail = [m \in MaterialIds |-> "none"]
    /\ list = {} /\ loaded = FALSE /\ listRead = NoRead /\ listError = FALSE
    /\ page = 0 /\ pages = 0 /\ before = 0 /\ hiding = {}
    /\ toasts = {} /\ deletes = {} /\ taken = {}
    /\ dialog = {} /\ change = {} /\ deskFaults = 0

-----------------------------------------------------------------------------
OpenPage ==
    /\ page = 0 /\ pages < MaxPages
    /\ pages' = pages + 1 /\ page' = pages' /\ hiding' = {}
    /\ IF listRead = NoRead THEN ReadList ELSE UNCHANGED <<listRead, listError>>
    /\ UNCHANGED <<row, detail, list, loaded, before, toasts, deletes, taken, dialog, change,
                   deskFaults>>

ClosePage ==
    /\ page # 0
    /\ page' = 0 /\ hiding' = {} /\ dialog' = {} /\ taken' = {}
    /\ UNCHANGED <<row, detail, listVars, pages, before, toasts, deletes, change, deskFaults>>

\* Signing out, or in as someone else, replaces the query client and the notifications.
\* Requests go on; what they do to the old client's caches is seen by nobody.
EndSession ==
    /\ page # 0 \/ toasts # {}
    /\ page' = 0 /\ before' = pages /\ hiding' = {} /\ toasts' = {} /\ dialog' = {} /\ taken' = {}
    /\ list' = {} /\ loaded' = FALSE /\ listRead' = NoRead /\ listError' = FALSE
    /\ detail' = [m \in MaterialIds |-> "none"]
    /\ deletes' = {d \in deletes : d.step \in {"sent", "applied"}}
    /\ UNCHANGED <<row, pages, change, deskFaults>>

\* The user opens a material: its detail is read, and marked as seen.
OpenDetail(m) ==
    /\ page # 0 /\ ~listError /\ detail[m] = "none" /\ row[m] = "THERE"
    /\ detail' = [detail EXCEPT ![m] = "cached"]
    /\ UNCHANGED <<row, listVars, deskVars, hiding, toasts, deletes, taken, dialog, change,
                   deskFaults>>

\* useElementView: the mark of a material that was opened is recorded, however late, and
\* taken over into the cached list, which ends the failure of its last read.
Marked ==
    /\ \E m \in MaterialIds : detail[m] # "none"
    /\ loaded /\ listError /\ listError' = FALSE
    /\ UNCHANGED <<row, detail, list, loaded, listRead, deskVars, hiding, toasts, deletes, taken,
                   dialog, change, deskFaults>>

AnswerList ==
    /\ listRead.step = "asked"
    /\ listRead' = [step |-> "answered", got |-> There]
    /\ UNCHANGED <<row, detail, list, loaded, listError, deskVars, hiding, toasts, deletes, taken,
                   dialog, change, deskFaults>>

\* Those who await the read under way: "list" asked for it, "joined" found it going on.
Awaiting == {d \in deletes : d.step \in {"list", "joined"}}
Own(ds) == {d.of : d \in {x \in ds : x.by = page}}

\* They go on: the deletion is over and its row no longer held back.
Settle(waiting) ==
    /\ deletes' = deletes \ waiting
    /\ hiding' = hiding \ Own(waiting)

ListArrives ==
    /\ listRead.step = "answered"
    /\ list' = listRead.got /\ loaded' = TRUE /\ listRead' = NoRead /\ listError' = FALSE
    /\ Settle(Awaiting)
    /\ taken' = taken \cup Own({d \in deletes : d.step = "list"})
    /\ UNCHANGED <<row, detail, deskVars, toasts, dialog, change, deskFaults>>

\* The whole page is replaced by the error, until the list is read again or written.
ListFails ==
    /\ listRead # NoRead /\ deskFaults < MaxDeskFaults
    /\ deskFaults' = deskFaults + 1
    /\ listRead' = NoRead /\ listError' = TRUE /\ dialog' = {}
    /\ Settle(Awaiting)
    /\ UNCHANGED <<row, detail, list, loaded, deskVars, toasts, taken, change>>

RetryList ==
    /\ page # 0 /\ listError
    /\ ReadList
    /\ UNCHANGED <<row, detail, list, loaded, deskVars, hiding, toasts, deletes, taken, dialog,
                   change, deskFaults>>

-----------------------------------------------------------------------------
(* Deleting: nothing is sent before the notification ends. *)

ScheduleDelete(m) ==
    /\ DetailShown(m) /\ dialog = {} /\ Cardinality(toasts \cup deletes) < MaxDeleting
    /\ hiding' = hiding \cup {m}
    /\ toasts' = toasts \cup {[of |-> m, by |-> page, paused |-> FALSE]}
    /\ UNCHANGED <<row, detail, listVars, deskVars, deletes, taken, dialog, change, deskFaults>>

PutBack(x) == hiding' = IF x.by = page THEN hiding \ {x.of} ELSE hiding

Undo(t) ==
    /\ toasts' = toasts \ {t} /\ PutBack(t)
    /\ UNCHANGED <<row, detail, listVars, deskVars, deletes, taken, dialog, change, deskFaults>>

\* The pointer or the focus comes or goes.
Pause(t) ==
    /\ toasts' = (toasts \ {t}) \cup {[t EXCEPT !.paused = ~t.paused]}
    /\ UNCHANGED <<row, detail, listVars, deskVars, hiding, deletes, taken, dialog, change,
                   deskFaults>>

Finish(t) ==
    /\ toasts' = toasts \ {t}
    /\ deletes' = deletes \cup {[of |-> t.of, by |-> t.by, step |-> "sent"]}
    /\ UNCHANGED <<row, detail, listVars, deskVars, hiding, taken, dialog, change, deskFaults>>

\* Mutant: the time of a notification ends with the page.
RunsOutOnPage(t) == ~t.paused /\ t.by = page /\ Finish(t)

\* Its time runs out, unless it is held.
RunsOut(t) == ~t.paused /\ Finish(t)

\* The user closes it, which is not "Undo".
Dismiss(t) == Finish(t)

Delete(d) ==
    /\ d.step = "sent" /\ row[d.of] = "THERE"
    /\ row' = [row EXCEPT ![d.of] = "GONE"]
    /\ deletes' = (deletes \ {d}) \cup {[d EXCEPT !.step = "applied"]}
    /\ UNCHANGED <<detail, listVars, deskVars, hiding, toasts, taken, dialog, change, deskFaults>>

Forget(d) == detail' = IF Current(d) THEN [detail EXCEPT ![d.of] = "removed"] ELSE detail

\* Mutant: the row is no longer held back while the list is read again.
DeletedAtOnce(d) ==
    /\ d.step = "applied"
    /\ Forget(d) /\ Invalidate /\ Settle({d})
    /\ taken' = taken \cup Own({d})
    /\ UNCHANGED <<row, list, loaded, deskVars, toasts, dialog, change, deskFaults>>

\* The deletion is confirmed: its detail is dropped, and the list is read again before the
\* row stops being held back.
RowDeleted(d) ==
    /\ d.step = "applied"
    /\ Forget(d)
    /\ IF page # 0 /\ Current(d)
       THEN /\ Invalidate
            /\ deletes' = (deletes \ {d})
                    \cup {[d EXCEPT !.step = IF JoinsRead THEN "joined" ELSE "list"]}
            /\ UNCHANGED hiding
       ELSE Settle({d}) /\ UNCHANGED <<listRead, listError>>
    /\ UNCHANGED <<row, list, loaded, deskVars, toasts, taken, dialog, change, deskFaults>>

\* Mutant: the row does not come back.
DeleteFailsHidden(d) ==
    /\ \/ d.step = "sent" /\ row[d.of] = "GONE" /\ UNCHANGED deskFaults
       \/ /\ d.step \in {"sent", "applied"} /\ deskFaults < MaxDeskFaults
          /\ deskFaults' = deskFaults + 1
    /\ deletes' = deletes \ {d}
    /\ UNCHANGED <<row, detail, listVars, deskVars, hiding, toasts, taken, dialog, change>>

\* 404, or a network or server error: a message, and the row comes back.
DeleteFails(d) ==
    /\ \/ d.step = "sent" /\ row[d.of] = "GONE" /\ UNCHANGED deskFaults
       \/ /\ d.step \in {"sent", "applied"} /\ deskFaults < MaxDeskFaults
          /\ deskFaults' = deskFaults + 1
    /\ deletes' = deletes \ {d} /\ PutBack(d)
    /\ UNCHANGED <<row, detail, listVars, deskVars, toasts, taken, dialog, change>>

-----------------------------------------------------------------------------
(* Creating a material, and changing who sees it. *)

\* A change from or to everyone opens a dialog, after the pending edits are saved
\* (beforeChange); one between the hidden states is sent at once.
AskAccess(m) ==
    /\ DetailShown(m) /\ dialog = {}
    /\ \/ dialog' = {m} /\ UNCHANGED change
       \/ change = {} /\ change' = {[of |-> m, by |-> page]} /\ UNCHANGED dialog
    /\ UNCHANGED <<row, detail, listVars, deskVars, hiding, toasts, deletes, taken, deskFaults>>

Cancel ==
    /\ dialog # {} /\ dialog' = {}
    /\ UNCHANGED <<row, detail, listVars, deskVars, hiding, toasts, deletes, taken, change,
                   deskFaults>>

Confirm ==
    /\ dialog # {} /\ change = {}
    /\ change' = {[of |-> m, by |-> page] : m \in dialog}
    /\ UNCHANGED <<row, detail, listVars, deskVars, hiding, toasts, deletes, taken, dialog,
                   deskFaults>>

Create(m) ==
    /\ page # 0 /\ ~listError /\ row[m] = "NEW" /\ dialog = {} /\ change = {}
    /\ change' = {[of |-> m, by |-> page]}
    /\ UNCHANGED <<row, detail, listVars, deskVars, hiding, toasts, deletes, taken, dialog,
                   deskFaults>>

\* PATCH and POST: the row, the caches of the session that sent it and the dialog of the
\* page, in one step.
Changed(c) ==
    /\ row[c.of] # "GONE"
    /\ row' = [row EXCEPT ![c.of] = "THERE"]
    /\ change' = {}
    /\ dialog' = IF c.by = page THEN dialog \ {c.of} ELSE dialog
    /\ IF Current(c)
       THEN Invalidate /\ detail' = [detail EXCEPT ![c.of] = "cached"]
       ELSE UNCHANGED <<listRead, listError, detail>>
    /\ UNCHANGED <<list, loaded, deskVars, hiding, toasts, deletes, taken, deskFaults>>

\* The dialog stays open with the error.
ChangeFails(c) ==
    /\ \/ row[c.of] = "GONE" /\ UNCHANGED deskFaults
       \/ deskFaults < MaxDeskFaults /\ deskFaults' = deskFaults + 1
    /\ change' = {}
    /\ UNCHANGED <<row, detail, listVars, deskVars, hiding, toasts, deletes, taken, dialog>>

-----------------------------------------------------------------------------
MaterialsNext ==
    \/ OpenPage \/ ClosePage \/ EndSession
    \/ Marked \/ AnswerList \/ ListArrives \/ ListFails \/ RetryList
    \/ \E m \in MaterialIds : OpenDetail(m) \/ ScheduleDelete(m) \/ AskAccess(m) \/ Create(m)
    \/ Cancel \/ Confirm
    \/ \E c \in change : Changed(c) \/ ChangeFails(c)
    \/ \E t \in toasts : Undo(t) \/ Pause(t) \/ RunsOut(t) \/ Dismiss(t)
    \/ \E d \in deletes : Delete(d) \/ RowDeleted(d) \/ DeleteFails(d)

\* The timer of a notification, and an answer or an error for every request.
Deleting(m, p) ==
    \/ \E t \in toasts : t.of = m /\ t.by = p /\ RunsOut(t)
    \/ \E d \in deletes : d.of = m /\ d.by = p /\ (Delete(d) \/ RowDeleted(d) \/ DeleteFails(d))

MaterialsFairness == \A m \in MaterialIds, p \in 1 .. MaxPages : WF_materialVars(Deleting(m, p))

MaterialsSpec == MaterialsInit /\ [][MaterialsNext]_materialVars /\ MaterialsFairness

-----------------------------------------------------------------------------
\* On the page where it was deleted a material is not seen while "Undo" is offered nor while
\* the request is under way, and not again once a list has arrived that was asked for after the
\* deletion was confirmed ("Deleting waits for the notification to expire",
\* elements-page.tsx:255): the row is held back until then, also when other changes, the error
\* page or a mark as seen bring the list back in between.  Where that list fails, or an older
\* first read was awaited in its place, the row is held back no longer and may be seen again.
DeletedStaysHidden ==
    /\ \A x \in toasts \cup deletes : x.by = page => ~RowShown(x.of)
    /\ \A m \in taken : ~RowShown(m)

\* And a row is held back for a cause: the page that hides it has a deletion of it that can be
\* undone or is under way, so that one that fails, is undone, or ends with the session brings
\* the row back (elements-page.tsx:255-284).
HiddenIsPending ==
    \A m \in hiding : \E x \in toasts \cup deletes : x.of = m /\ x.by = page

\* A page hides what it deletes, and nothing else.
HiddenWhileDeleting == DeletedStaysHidden /\ HiddenIsPending

\* A deletion whose notification is not held ends: undone, or sent and answered, or lost with
\* the session; leaving the page does not stop it.
Deletion(m, p) == {t \in toasts : t.of = m /\ t.by = p}
                  \cup {d \in deletes : d.of = m /\ d.by = p /\ d.step \in {"sent", "applied"}}
Held(m, p) == \E t \in toasts : t.of = m /\ t.by = p /\ t.paused

DeletionEnds ==
    \A m \in MaterialIds, p \in 1 .. MaxPages :
        Deletion(m, p) # {} ~> Deletion(m, p) = {} \/ Held(m, p)
=============================================================================
