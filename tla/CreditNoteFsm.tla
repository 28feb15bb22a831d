--------------------------- MODULE CreditNoteFsm ---------------------------
(***************************************************************************)
(* The transition table of a credit note                                   *)
(* (crates/core/src/state/creditnote.rs).                                  *)
(***************************************************************************)

\* CreditNoteState.
NoteStates == {"Draft", "Issued"}

\* CreditNoteEvent::Issue is the only event and Draft the only state it leaves.
NoteNextState(s) == IF s = "Draft" THEN "Issued" ELSE "Illegal"
=============================================================================
