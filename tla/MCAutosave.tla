------------------------------ MODULE MCAutosave ------------------------------
(* One editor, two valid drafts beside the original and an invalid one. *)
EXTENDS Autosave
=============================================================================
