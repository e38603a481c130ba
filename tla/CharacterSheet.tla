---------------------------- MODULE CharacterSheet -----------------------------
(***************************************************************************)
(* The sheet of a player's own character (TalesFromTheLoopDetail): every   *)
(* change saves the whole sheet, after a delay, when a field loses the     *)
(* focus, or at once for a condition, and the saves of one sheet go one    *)
(* after the other.  One field is edited, any of those of the system; the  *)
(* form lets through what the browser finds valid, the server checks the   *)
(* data by its own rules (character.service.ts).                           *)
(***************************************************************************)
EXTENDS Integers, Sequences

CONSTANTS
    MaxSaves,       \* saves that wait or are under way at once
    MaxSheetFaults, \* saves that are lost, before or after they are applied
    SheetKeys       \* the fields that are edited, of AllKeys

ASSUME CharacterSheetAssumption == {MaxSaves, MaxSheetFaults} \subseteq Nat

-----------------------------------------------------------------------------
(* The fields.  An entry is a number, the length of a text, or the place of   *)
(* an option; NoEntry an empty field; Spaces a text of nothing but spaces.    *)

NoEntry == -1
Spaces == -2

Attributes == {"body", "tech", "heart", "mind"}
Skills == {"force", "move", "sneak", "tinker", "program", "calculate", "contact", "charm",
           "lead", "investigate", "comprehend", "empathize"}
LongTexts == {"drive", "pride", "problem", "anchor"}
Notes == {"relationships", "inventory"}
AllKeys == {"age", "type", "iconicItem", "favoriteSong", "luckPoints", "name", "description"}
           \cup Attributes \cup Skills \cup LongTexts \cup Notes

ASSUME SheetKeysAssumption == SheetKeys \subseteq AllKeys

Number(lo, hi, required) == [kind |-> "number", lo |-> lo, hi |-> hi, required |-> required]
Text(hi, required) == [kind |-> "text", lo |-> 0, hi |-> hi, required |-> required]
Select(hi) == [kind |-> "select", lo |-> 1, hi |-> hi, required |-> TRUE]

\* The inputs of the sheet; the name is a field of its own, and required.
FormFields == [k \in AllKeys |->
    CASE k = "age" -> Number(10, 19, TRUE)
      [] k = "type" -> Select(7)
      [] k \in Attributes -> Number(1, 5, FALSE)
      [] k \in Skills -> Number(0, 5, FALSE)
      [] k = "luckPoints" -> Number(0, 6, FALSE)
      [] k \in LongTexts -> Text(500, FALSE)
      [] k = "iconicItem" -> Text(100, FALSE)
      [] k = "favoriteSong" -> Text(200, FALSE)
      [] k \in Notes -> Text(2000, FALSE)
      [] k = "name" -> Text(100, TRUE)
      [] k = "description" -> Text(2000, FALSE)]

\* Mutant: the server allows no skill of 5.
StricterFields == [k \in AllKeys |->
    IF k \in Skills THEN Number(0, 4, FALSE) ELSE FormFields[k]]

\* talesFromTheLoopRules, and the DTO's rules for the name and the description.
RuleFields == [k \in AllKeys |->
    CASE k = "age" -> Number(10, 19, TRUE)
      [] k = "type" -> Select(7)
      [] k \in Attributes -> Number(1, 5, FALSE)
      [] k \in Skills -> Number(0, 5, FALSE)
      [] k \in LongTexts -> Text(500, FALSE)
      [] k = "iconicItem" -> Text(100, FALSE)
      [] k \in Notes -> Text(2000, FALSE)
      [] k = "favoriteSong" -> Text(200, FALSE)
      [] k = "luckPoints" -> Number(0, 6, FALSE)
      [] k = "name" -> Text(100, TRUE)
      [] k = "description" -> Text(2000, FALSE)]

\* What can be entered: the limits of the field and beyond; a text input takes no more than
\* its length, a select no other option.
Entries(k) ==
    LET f == FormFields[k]
    IN  {NoEntry, f.lo, f.hi}
        \cup (IF f.kind = "number" THEN {f.lo - 1, f.hi + 1} ELSE {})
        \cup (IF f.kind = "text" THEN {1, Spaces} \ {f.lo} ELSE {})

\* form.checkValidity()
FormValid(k, entry) ==
    LET f == FormFields[k]
    IN  /\ f.required => entry # NoEntry /\ ~(f.kind = "text" /\ entry = 0)
        /\ f.kind = "number" /\ entry # NoEntry => entry \in f.lo .. f.hi

\* readFieldValue: trimmed, and left out when empty.
ReadField(k, entry) ==
    IF FormFields[k].kind = "text" /\ entry \in {Spaces, 0} THEN NoEntry ELSE entry

\* validateData for the field, and the DTO.
ServerAccepts(k, value) ==
    LET f == RuleFields[k]
    IN  IF value = NoEntry THEN ~f.required ELSE value \in f.lo .. f.hi

-----------------------------------------------------------------------------
VARIABLES
    key,        \* the field that is edited
    entry,      \* what it holds
    condition,  \* a condition of the character, toggled by a button
    sheetTimer, \* the delay after a change is running
    dirty,      \* dirty.current
    queue,      \* saves in their order: [value, condition, applied]
    status,     \* what the page says: "idle", "saving", "saved" or "error"
    character,  \* the row on the server: [value, condition], or DeletedRow
    sheetOpen,  \* the sheet is on the page
    refused,    \* the server refused a save for its data
    sheetFaults

sheetVars == <<key, entry, condition, sheetTimer, dirty, queue, status, character, sheetOpen,
               refused, sheetFaults>>

FirstEntry(k) == FormFields[k].lo + (IF FormFields[k].kind = "text" THEN 1 ELSE 0)
DeletedRow == [value |-> NoEntry, condition |-> TRUE, there |-> FALSE]
Row(value, cond) == [value |-> value, condition |-> cond, there |-> TRUE]

SheetInit ==
    /\ key \in SheetKeys /\ entry = FirstEntry(key) /\ condition = FALSE
    /\ character = Row(FirstEntry(key), FALSE)
    /\ sheetTimer = FALSE /\ dirty = FALSE /\ queue = <<>> /\ status = "idle"
    /\ sheetOpen = TRUE /\ refused = FALSE /\ sheetFaults = 0

\* save(): nothing without a valid form, or, after the change counts as saved, without a name.
Named == ~(key = "name" /\ ReadField(key, entry) = NoEntry)

SaveSheet(cond) ==
    /\ Len(queue) < MaxSaves
    /\ IF ~FormValid(key, entry) THEN UNCHANGED <<dirty, queue, status>>
       ELSE /\ dirty' = FALSE
            /\ IF ~Named THEN UNCHANGED <<queue, status>>
               ELSE /\ status' = "saving"
                    /\ queue' = Append(queue, [value |-> ReadField(key, entry),
                                               condition |-> cond, applied |-> FALSE])

\* onChange of the form.
Edit(e) ==
    /\ sheetOpen /\ e # entry
    /\ entry' = e /\ dirty' = TRUE /\ sheetTimer' = TRUE
    /\ UNCHANGED <<key, condition, queue, status, character, sheetOpen, refused, sheetFaults>>

SheetDelayEnds ==
    /\ sheetTimer /\ sheetTimer' = FALSE
    /\ SaveSheet(condition)
    /\ UNCHANGED <<key, entry, condition, character, sheetOpen, refused, sheetFaults>>

Blur ==
    /\ sheetOpen /\ dirty /\ sheetTimer' = FALSE
    /\ SaveSheet(condition)
    /\ UNCHANGED <<key, entry, condition, character, sheetOpen, refused, sheetFaults>>

\* Mutant: the save reads the condition of the last rendering.
ToggleOfRender ==
    /\ sheetOpen /\ condition' = ~condition /\ sheetTimer' = FALSE
    /\ SaveSheet(condition)
    /\ UNCHANGED <<key, entry, character, sheetOpen, refused, sheetFaults>>

Toggle ==
    /\ sheetOpen /\ condition' = ~condition /\ sheetTimer' = FALSE
    /\ SaveSheet(condition')
    /\ UNCHANGED <<key, entry, character, sheetOpen, refused, sheetFaults>>

\* The page is left; the delay ends with it, the queue does not.
CloseSheet ==
    /\ sheetOpen /\ sheetOpen' = FALSE /\ sheetTimer' = FALSE
    /\ UNCHANGED <<key, entry, condition, dirty, queue, status, character, refused, sheetFaults>>

\* CharactersPage removes the character, after a confirmation.
RemoveCharacter ==
    /\ sheetOpen /\ character # DeletedRow
    /\ character' = DeletedRow
    /\ UNCHANGED <<key, entry, condition, sheetTimer, dirty, queue, status, sheetOpen, refused,
                   sheetFaults>>

-----------------------------------------------------------------------------
(* PATCH /characters/:characterId, the first of the queue. *)

Acceptable(s) == character # DeletedRow /\ ServerAccepts(key, s.value)

UpdateCharacter ==
    /\ queue # <<>> /\ ~Head(queue).applied /\ Acceptable(Head(queue))
    /\ character' = Row(Head(queue).value, Head(queue).condition)
    /\ queue' = [queue EXCEPT ![1].applied = TRUE]
    /\ UNCHANGED <<key, entry, condition, sheetTimer, dirty, status, sheetOpen, refused, sheetFaults>>

SheetSaved ==
    /\ queue # <<>> /\ Head(queue).applied
    /\ queue' = Tail(queue) /\ status' = "saved"
    /\ UNCHANGED <<key, entry, condition, sheetTimer, dirty, character, sheetOpen, refused, sheetFaults>>

\* 400 or 404, or a network or server error: the next save of the queue goes on.
SaveFails ==
    /\ queue # <<>>
    /\ \/ /\ ~Head(queue).applied /\ ~Acceptable(Head(queue))
          /\ refused' = (refused \/ character # DeletedRow)
          /\ UNCHANGED sheetFaults
       \/ /\ sheetFaults < MaxSheetFaults /\ sheetFaults' = sheetFaults + 1
          /\ UNCHANGED refused
    /\ queue' = Tail(queue) /\ status' = "error"
    /\ UNCHANGED <<key, entry, condition, sheetTimer, dirty, character, sheetOpen>>

SheetNext ==
    \/ \E e \in Entries(key) : Edit(e)
    \/ SheetDelayEnds \/ Blur \/ Toggle
    \/ CloseSheet \/ RemoveCharacter
    \/ UpdateCharacter \/ SheetSaved \/ SaveFails

SheetSpec == SheetInit /\ [][SheetNext]_sheetVars

-----------------------------------------------------------------------------
\* When the page says "saved", no change waits and the form can be saved, the row is what the
\* sheet shows, whatever saves failed before (the queue, tales-from-the-loop-sheet.tsx:352-377);
\* and the server's rules never refuse what the form lets through.
SheetIsKept ==
    /\ status = "saved" /\ queue = <<>> /\ ~dirty /\ FormValid(key, entry) /\ Named =>
           character \in {Row(ReadField(key, entry), condition), DeletedRow}
    /\ ~refused
=============================================================================
