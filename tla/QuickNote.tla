------------------------------- MODULE QuickNote -------------------------------
(***************************************************************************)
(* The quick note of a campaign (quick-note-context.tsx): the draft in     *)
(* memory, its copy in sessionStorage, and the request that saves it,      *)
(* which may be answered after the user has left the campaign and come     *)
(* back, or has lost the right to write notes.                             *)
(***************************************************************************)
EXTENDS Naturals, FiniteSets

CONSTANTS
    NoteTexts,      \* what the user may write
    MaxVisits,      \* times the campaign is opened
    MaxSubmits,     \* notes that are sent
    MaxRoleChanges  \* changes of the user's role by the master

ASSUME QuickNoteAssumption ==
    {MaxVisits, MaxSubmits, MaxRoleChanges} \subseteq Nat

VARIABLES
    noteRole,       \* the user's role on the server: "PLAYER", "VIEWER" or "NONE"
    roleChanges,
    noteSeen,       \* the role in the cached ['campaign']
    visit,          \* the mounted provider, 0 outside the campaign
    visits,
    note,           \* the text of the draft
    hydrated,       \* draftHydrated.current
    unavailable,
    sending,        \* inFlight.current of the mounted provider
    kept,           \* the text in sessionStorage
    submits,        \* requests not answered yet: [text, by, applied]
    submitted,
    notes,          \* texts of the notes the server has created
    wrote           \* the last text the user left in the field

noteVars == <<noteRole, roleChanges, noteSeen, visit, visits, note, hydrated, unavailable,
              sending, kept, submits, submitted, notes, wrote>>
noteServer == <<noteRole, roleChanges, notes>>

Blank == ""
ASSUME BlankIsNoText == Blank \notin NoteTexts

\* noteProfile: only a player's note is modelled; the master's never loses its profile.
Profile == visit # 0 /\ noteSeen = "PLAYER" /\ ~unavailable

QuickNoteInit ==
    /\ noteRole = "PLAYER" /\ noteSeen = "PLAYER" /\ roleChanges = 0
    /\ visit = 0 /\ visits = 0 /\ note = Blank /\ hydrated = FALSE
    /\ unavailable = FALSE /\ sending = FALSE /\ kept = Blank
    /\ submits = {} /\ submitted = 0 /\ notes = {} /\ wrote = Blank

-----------------------------------------------------------------------------
ChangeRole(r) ==
    /\ roleChanges < MaxRoleChanges /\ r # noteRole /\ noteRole # "NONE"
    /\ roleChanges' = roleChanges + 1 /\ noteRole' = r
    /\ UNCHANGED <<noteSeen, visit, visits, note, hydrated, unavailable, sending, kept, submits,
                   submitted, notes, wrote>>

\* The provider mounts with the cached campaign and reads the stored draft.
EnterCampaign ==
    /\ visit = 0 /\ visits < MaxVisits
    /\ visits' = visits + 1 /\ visit' = visits'
    /\ hydrated' = (noteSeen = "PLAYER")
    /\ note' = IF hydrated' THEN kept ELSE Blank
    /\ unavailable' = FALSE /\ sending' = FALSE
    /\ UNCHANGED <<noteServer, noteSeen, kept, submits, submitted, wrote>>

Unmount ==
    /\ visit' = 0 /\ note' = Blank /\ hydrated' = FALSE /\ unavailable' = FALSE /\ sending' = FALSE

LeaveCampaign ==
    /\ visit # 0 /\ Unmount
    /\ UNCHANGED <<noteServer, noteSeen, visits, kept, submits, submitted, wrote>>

\* The campaign is fetched again: a new role brings a new profile, which hydrates the draft
\* the first time; a campaign that answers 404 closes.
Refetch ==
    /\ visit # 0 /\ noteSeen # noteRole
    /\ noteSeen' = noteRole
    /\ IF noteRole = "NONE" THEN Unmount
       ELSE LET ready == noteRole = "PLAYER"
            IN  /\ unavailable' = FALSE
                /\ note' = IF ready /\ ~hydrated THEN kept ELSE note
                /\ hydrated' = (hydrated \/ ready)
                /\ UNCHANGED <<visit, sending>>
    /\ UNCHANGED <<noteServer, visits, kept, submits, submitted, wrote>>

\* The field is read-only while a note is sent; an effect stores the draft.
Write(t) ==
    /\ Profile /\ ~sending /\ t # note
    /\ note' = t /\ kept' = t /\ wrote' = t
    /\ UNCHANGED <<noteServer, noteSeen, visit, visits, hydrated, unavailable, sending, submits,
                   submitted>>

Submit ==
    /\ Profile /\ ~sending /\ note # Blank /\ submitted < MaxSubmits
    /\ submitted' = submitted + 1 /\ sending' = TRUE
    /\ submits' = submits \cup {[text |-> note, by |-> visit, applied |-> FALSE]}
    /\ UNCHANGED <<noteServer, noteSeen, visit, visits, note, hydrated, unavailable, kept, wrote>>

-----------------------------------------------------------------------------
Alive(p) == p.by = visit

\* POST /campaigns/:id/elements, answered 404 to those who may not write.
CreateNote(p) ==
    /\ ~p.applied /\ noteRole = "PLAYER"
    /\ notes' = notes \cup {p.text}
    /\ submits' = (submits \ {p}) \cup {[p EXCEPT !.applied = TRUE]}
    /\ UNCHANGED <<noteRole, roleChanges, noteSeen, visit, visits, note, hydrated, unavailable,
                   sending, kept, submitted, wrote>>

\* Mutant: the stored draft is removed without comparing it with what was sent.
SavedAny(p) ==
    /\ p.applied /\ submits' = submits \ {p}
    /\ kept' = Blank
    /\ IF Alive(p) THEN note' = Blank /\ sending' = FALSE ELSE UNCHANGED <<note, sending>>
    /\ UNCHANGED <<noteServer, noteSeen, visit, visits, hydrated, unavailable, submitted, wrote>>

\* The stored draft goes only if it is still what was sent; the draft in memory only if the
\* provider that sent it is still there.
Saved(p) ==
    /\ p.applied /\ submits' = submits \ {p}
    /\ kept' = IF kept = p.text THEN Blank ELSE kept
    /\ IF Alive(p) THEN note' = Blank /\ sending' = FALSE ELSE UNCHANGED <<note, sending>>
    /\ UNCHANGED <<noteServer, noteSeen, visit, visits, hydrated, unavailable, submitted, wrote>>

\* 404: the note is closed until the campaign, which is fetched again, changes.
RefusedNote(p) ==
    /\ ~p.applied /\ noteRole # "PLAYER"
    /\ submits' = submits \ {p}
    /\ IF Alive(p) THEN unavailable' = TRUE /\ sending' = FALSE ELSE UNCHANGED <<unavailable, sending>>
    /\ UNCHANGED <<noteServer, noteSeen, visit, visits, note, hydrated, kept, submitted, wrote>>

\* A network or server error, before or after the note was created.
LostNote(p) ==
    /\ submits' = submits \ {p}
    /\ sending' = (sending /\ ~Alive(p))
    /\ UNCHANGED <<noteServer, noteSeen, visit, visits, note, hydrated, unavailable, kept,
                   submitted, wrote>>

QuickNoteNext ==
    \/ \E r \in {"PLAYER", "VIEWER", "NONE"} : ChangeRole(r)
    \/ EnterCampaign \/ LeaveCampaign \/ Refetch
    \/ \E t \in NoteTexts \cup {Blank} : Write(t)
    \/ Submit
    \/ \E p \in submits : CreateNote(p) \/ Saved(p) \/ RefusedNote(p) \/ LostNote(p)

QuickNoteSpec == QuickNoteInit /\ [][QuickNoteNext]_noteVars

-----------------------------------------------------------------------------
\* What the user wrote last and the server has not is in the stored draft, and in the field
\* whenever the field is shown, whatever the order of answers, navigation and changes of
\* role (the draft survives a reload, quick-note-context.tsx:25-53, and another's answer,
\* :238-252).
TextIsKept ==
    wrote \notin notes \cup {Blank} => kept = wrote /\ (Profile => note = wrote)
=============================================================================
