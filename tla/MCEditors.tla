------------------------------- MODULE MCEditors -------------------------------
(***************************************************************************)
(* What the user writes, for TLC, one editor at a time: the autosave of    *)
(* materials and notes, the quick note, the sheet of a character and the   *)
(* canvas of the board.  They share no variable; a behaviour explores one, *)
(* chosen at the start, while the others stay in their initial state, and  *)
(* fairness is stated for the autosave when it is the chosen one.          *)
(***************************************************************************)
EXTENDS Autosave, QuickNote, CharacterSheet, BoardPage

CONSTANT MaxBoardSteps  \* moves, links drawn and changes by others, all together

VARIABLE part   \* the editor that is explored

EditorsInit ==
    /\ part \in {"autosave", "note", "sheet", "board"}
    /\ AutosaveInit /\ QuickNoteInit /\ SheetInit /\ BoardInit
    /\ part # "sheet" => key = CHOOSE k \in SheetKeys : TRUE

EditorsNext ==
    \/ /\ part = "autosave" /\ AutosaveNext
       /\ UNCHANGED <<part, noteVars, sheetVars, boardVars>>
    \/ /\ part = "note" /\ QuickNoteNext
       /\ UNCHANGED <<part, vars, sheetVars, boardVars>>
    \/ /\ part = "sheet" /\ SheetNext
       /\ UNCHANGED <<part, vars, noteVars, boardVars>>
    \/ /\ part = "board" /\ BoardNext /\ drops' + drawnLinks' + others' <= MaxBoardSteps
       /\ UNCHANGED <<part, vars, noteVars, sheetVars>>

editorVars == <<part, vars, noteVars, sheetVars, boardVars>>

\* The fairness of AutosaveSpec.
EditorsFairness ==
    /\ WF_vars(part = "autosave" /\ DelayEnds)
    /\ WF_vars(part = "autosave" /\ \E d \in Drafts : Apply(d))
    /\ WF_vars(part = "autosave" /\ \E d \in Drafts : Succeed(d))

EditorsSpec == EditorsInit /\ [][EditorsNext]_editorVars /\ EditorsFairness
=============================================================================
