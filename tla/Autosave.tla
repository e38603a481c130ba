------------------------------- MODULE Autosave -------------------------------
(***************************************************************************)
(* The autosave hook of the element and note editors (use-autosave.ts).    *)
(* The draft changes while a save is in flight; saves start when the delay *)
(* after a change runs out, when a caller flushes, and when the editor is  *)
(* left.  A save may be refused, or be applied and its answer lost.        *)
(***************************************************************************)
EXTENDS Naturals, FiniteSets

CONSTANTS
    Drafts,         \* values of the draft
    Invalid,        \* those the editor does not send
    Original,       \* what the editor opens with: the server's text
    Faults,         \* how a save can fail: "refused" before or "lost" after it is applied
    MaxWaiting      \* how many flushes of the hook itself wait at once

ASSUME AutosaveAssumption ==
    /\ Invalid \subseteq Drafts
    /\ Original \in Drafts \ Invalid
    /\ Faults \subseteq {"refused", "lost"}
    /\ MaxWaiting \in Nat

VARIABLES
    draft,      \* the value the editor shows
    saved,      \* savedRef, savedAs: the draft of the last save that was answered
    request,    \* "idle", "saving" or "error"
    inFlight,   \* inFlight.current is set
    wire,       \* saves sent and not answered: <<draft, has the server applied it>>
    timer,      \* the delay after the last change is running
    waiting,    \* flushes of the timer and the unmount that await inFlight
    flush,      \* the last flush of a caller: "none", "waiting" for inFlight, "saving",
                \* or resolved: "true", "false"
    since,      \* the drafts of the editor since that caller's call
    mounted,    \* the editor is open
    server      \* the text the server has

vars == <<draft, saved, request, inFlight, wire, timer, waiting, flush, since, mounted, server>>

Valid(d) == d \notin Invalid

AutosaveInit ==
    /\ draft = Original /\ saved = Original /\ server = Original
    /\ request = "idle" /\ inFlight = FALSE /\ wire = {}
    /\ timer = FALSE /\ waiting = 0
    /\ flush = "none" /\ since = {}
    /\ mounted = TRUE

-----------------------------------------------------------------------------
(* The body of flush(), once nothing is in flight, when "last" is saved and   *)
(* "open" are the saves that have not been answered.                          *)

NothingToSend(last) == draft = last \/ ~Valid(draft)

Send(open) ==
    /\ wire' = open \cup {<<draft, FALSE>>}
    /\ inFlight' = TRUE
    /\ request' = "saving"

\* Mutant: a flush does not wait for the save in flight.
FlushAtOnce ==
    /\ IF NothingToSend(saved) THEN UNCHANGED <<wire, inFlight, request>> ELSE Send(wire)
    /\ UNCHANGED waiting

\* The hook flushes: the delay has run out, or the editor is left.
FlushByHook ==
    \/ /\ inFlight
       /\ waiting' = waiting + 1
       /\ UNCHANGED <<wire, inFlight, request>>
    \/ /\ ~inFlight
       /\ IF NothingToSend(saved) THEN UNCHANGED <<wire, inFlight, request>> ELSE Send(wire)
       /\ UNCHANGED waiting

\* The user edits; the effect starts the delay again.
Change(d) ==
    /\ mounted /\ d # draft
    /\ draft' = d
    /\ timer' = (Valid(d) /\ d # saved)
    /\ since' = since \cup {d}
    /\ UNCHANGED <<saved, request, inFlight, wire, waiting, flush, mounted, server>>

DelayEnds ==
    /\ timer
    /\ waiting < MaxWaiting
    /\ timer' = FALSE
    /\ FlushByHook
    /\ UNCHANGED <<draft, saved, flush, since, mounted, server>>

\* Mutant: the cleanup only clears the delay.
LeaveAtOnce ==
    /\ mounted
    /\ waiting < MaxWaiting
    /\ mounted' = FALSE /\ timer' = FALSE
    /\ UNCHANGED <<draft, saved, request, inFlight, wire, waiting, flush, since, server>>

Leave ==
    /\ mounted
    /\ waiting < MaxWaiting
    /\ mounted' = FALSE /\ timer' = FALSE
    /\ FlushByHook
    /\ UNCHANGED <<draft, saved, flush, since, server>>

\* Mutant: a flush resolves to what becomes of the save in flight, whatever that save sent.
FlushJoining ==
    /\ flush \notin {"waiting", "saving"}
    /\ mounted
    /\ since' = {draft}
    /\ \/ inFlight /\ flush' = "saving" /\ UNCHANGED <<wire, inFlight, request>>
       \/ /\ ~inFlight /\ NothingToSend(saved)
          /\ flush' = IF draft = saved THEN "true" ELSE "false"
          /\ UNCHANGED <<wire, inFlight, request>>
       \/ ~inFlight /\ ~NothingToSend(saved) /\ flush' = "saving" /\ Send(wire)
    /\ UNCHANGED <<draft, saved, timer, waiting, mounted, server>>

\* A caller flushes (retry, a change of access); one at a time.
Flush ==
    /\ flush \notin {"waiting", "saving"}
    /\ mounted
    /\ since' = {draft}
    /\ \/ inFlight /\ flush' = "waiting" /\ UNCHANGED <<wire, inFlight, request>>
       \/ /\ ~inFlight /\ NothingToSend(saved)
          /\ flush' = IF draft = saved THEN "true" ELSE "false"
          /\ UNCHANGED <<wire, inFlight, request>>
       \/ ~inFlight /\ ~NothingToSend(saved) /\ flush' = "saving" /\ Send(wire)
    /\ UNCHANGED <<draft, saved, timer, waiting, mounted, server>>

\* The server applies a save.
Apply(d) ==
    /\ <<d, FALSE>> \in wire
    /\ server' = d
    /\ wire' = (wire \ {<<d, FALSE>>}) \cup {<<d, TRUE>>}
    /\ UNCHANGED <<draft, saved, request, inFlight, timer, waiting, flush, since, mounted>>

\* Every flush that awaited the save goes on, one after the other: the first that
\* finds something to send sends it and the others wait again.  "own" is what the
\* caller's flush resolves to if the answered save was its own.
GoOn(last, open, status, own) ==
    LET called == flush = "waiting"
    IN  \/ /\ waiting = 0 /\ ~called
           /\ flush' = own /\ wire' = open
           /\ inFlight' = FALSE /\ request' = status /\ UNCHANGED waiting
        \/ /\ waiting > 0 \/ called
           /\ NothingToSend(last)
           /\ flush' = IF ~called THEN own ELSE IF draft = last THEN "true" ELSE "false"
           /\ wire' = open /\ inFlight' = FALSE /\ request' = status /\ waiting' = 0
        \/ /\ ~NothingToSend(last)
           /\ Send(open)
           /\ \/ waiting > 0 /\ waiting' = waiting - 1 /\ flush' = own
              \/ called /\ flush' = "saving" /\ UNCHANGED waiting

\* Mutant: the draft that counts as saved is the one shown now, not the one sent.
AnsweredAsShown(save, ok) ==
    LET last == IF ok THEN draft ELSE saved
        own == IF flush # "saving" THEN flush ELSE IF ok THEN "true" ELSE "false"
    IN  /\ saved' = last
        /\ timer' = IF ok THEN mounted /\ Valid(draft) /\ draft # last ELSE timer
        /\ GoOn(last, wire \ {save}, IF ok THEN "idle" ELSE "error", own)
        /\ UNCHANGED <<draft, since, mounted, server>>

\* Mutant: savedAs is not set, so that no effect looks at the draft again.
AnsweredUnseen(save, ok) ==
    LET last == IF ok THEN save[1] ELSE saved
        own == IF flush # "saving" THEN flush ELSE IF ok THEN "true" ELSE "false"
    IN  /\ saved' = last
        /\ GoOn(last, wire \ {save}, IF ok THEN "idle" ELSE "error", own)
        /\ UNCHANGED <<draft, timer, since, mounted, server>>

\* The attempt settles: what was sent is saved, or the request is in error.
Answered(save, ok) ==
    LET last == IF ok THEN save[1] ELSE saved
        own == IF flush # "saving" THEN flush ELSE IF ok THEN "true" ELSE "false"
    IN  /\ saved' = last
        /\ timer' = IF ok THEN mounted /\ Valid(draft) /\ draft # last ELSE timer
        /\ GoOn(last, wire \ {save}, IF ok THEN "idle" ELSE "error", own)
        /\ UNCHANGED <<draft, since, mounted, server>>

Succeed(d) == <<d, TRUE>> \in wire /\ Answered(<<d, TRUE>>, TRUE)

\* The save is refused, or it is applied and the answer does not arrive.
Lose(d) ==
    \/ "refused" \in Faults /\ <<d, FALSE>> \in wire /\ Answered(<<d, FALSE>>, FALSE)
    \/ "lost" \in Faults /\ <<d, TRUE>> \in wire /\ Answered(<<d, TRUE>>, FALSE)

AutosaveNext ==
    \/ \E d \in Drafts : Change(d) \/ Apply(d) \/ Succeed(d) \/ Lose(d)
    \/ DelayEnds \/ Leave \/ Flush

\* The browser's timers run out, and the requests it sent are answered or fail.
Fairness ==
    /\ WF_vars(DelayEnds)
    /\ WF_vars(\E d \in Drafts : Apply(d))
    /\ WF_vars(\E d \in Drafts : Succeed(d))

AutosaveSpec == AutosaveInit /\ [][AutosaveNext]_vars /\ Fairness

-----------------------------------------------------------------------------
AutosaveTypeOK ==
    /\ {draft, saved, server} \subseteq Drafts
    /\ request \in {"idle", "saving", "error"}
    /\ {inFlight, timer, mounted} \subseteq BOOLEAN
    /\ wire \subseteq Drafts \X BOOLEAN
    /\ waiting \in 0 .. MaxWaiting
    /\ flush \in {"none", "waiting", "saving", "true", "false"}
    /\ since \subseteq Drafts

\* "one request at a time" (use-autosave.ts), so that the server never applies two
\* drafts in the wrong order.
OneSaveAtATime == Cardinality(wire) <= 1

\* The status the user sees: while it says "saved", the server has the draft.
SavedMeansSaved == request = "idle" /\ draft = saved => server = draft

\* A valid draft reaches the server unless the user changes it again or sees an
\* error, also when the editor is left at once ("Leaving the editor keeps the last
\* change instead of dropping it").
DraftReachesServer ==
    \A d \in Drafts \ Invalid :
        draft = d ~> server = d \/ draft # d \/ request = "error"

\* A valid draft that the server lacks is on its way, or the user sees an error: the delay is
\* running, the draft is on the wire, or somebody looks at it again once the save in flight is
\* answered: the editor, while it is open, or a flush that waits.
UnsavedIsUnderWay ==
    Valid(draft) /\ server # draft /\ request # "error" =>
        timer \/ <<draft, FALSE>> \in wire \/ (inFlight /\ (mounted \/ waiting > 0))

\* What the editor says of the draft is true: "saved", or on its way, or an error.
StatusIsTrue == SavedMeansSaved /\ UnsavedIsUnderWay

\* flush() "resolves to whether everything is saved": when it says so, the server
\* has a draft the editor had since the call.
FlushTellsTheTruth == flush = "true" => server \in since

\* So it does while the editor knows what the server has, but for an applied save whose answer
\* is still to come: only a lost answer can make it wrong, whichever saves and flushes cross.
Known == server = saved \/ \E save \in wire : save[2] = TRUE

FlushIsTrueIfKnown == Known => FlushTellsTheTruth
=============================================================================
