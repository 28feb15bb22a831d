--------------------------- MODULE StateMachines ---------------------------
(***************************************************************************)
(* The statig adapters of invoices (crates/core/src/state/                 *)
(* adapter_statig.rs) and of credit notes (state/creditnote.rs).  An       *)
(* adapter holds the canonical state in a shadow, because the statig       *)
(* machine inside always starts in Draft, whatever state the document was  *)
(* loaded in.  BareMachine and CreditNoteAdapter are the transition tables *)
(* with a state, and are left out.                                         *)
(***************************************************************************)
EXTENDS InvoiceFsm, CreditNoteFsm

CONSTANTS
    Amounts   \* the operands that a payment event may carry

ASSUME AmountsAssumption == Amounts \subseteq Nat

VARIABLES
    kind,     \* "invoice" or "creditnote"
    seed,     \* the state that the adapter was built with
    shadow,   \* the canonical state
    inner,    \* the state of the statig machine
    moved     \* an event was applied

machineVars == <<kind, seed, shadow, inner, moved>>

\* StatigAdapter::new
MachineInit ==
    /\ kind \in {"invoice", "creditnote"}
    /\ seed \in (IF kind = "invoice" THEN States ELSE NoteStates)
    /\ shadow = seed
    /\ inner = "Draft"
    /\ moved = FALSE

\* statig's dispatch, given the table's verdict on the inner state: the leaf
\* transitions if the verdict is a state; otherwise the event goes to the
\* superstate, which has it handled, or is dropped.
Dispatch(verdict) == IF verdict \in Rejections THEN inner ELSE verdict

\* Mutant of StatigApply: the shadow is moved before it is compared.
StatigApplyMoved(next, handled) ==
    IF next \in Rejections THEN UNCHANGED machineVars
    ELSE /\ inner' = IF inner = next THEN Dispatch(handled) ELSE inner
         /\ shadow' = next /\ moved' = TRUE
         /\ UNCHANGED <<kind, seed>>

\* The table's verdict on the shadow counts (next); the statig machine, for
\* which the verdict is handled, is driven only while it is where the shadow is.
StatigApply(next, handled) ==
    IF next \in Rejections THEN UNCHANGED machineVars
    ELSE /\ inner' = IF inner = shadow THEN Dispatch(handled) ELSE inner
         /\ shadow' = next /\ moved' = TRUE
         /\ UNCHANGED <<kind, seed>>

\* StatigAdapter::apply of an invoice
InvoiceApply(e, paid, total) ==
    /\ kind = "invoice"
    /\ StatigApply(NextState(shadow, e, paid, total), NextState(inner, e, paid, total))

\* StatigAdapter::apply_event of a credit note; Issue is the only event.
NoteApply ==
    /\ kind = "creditnote"
    /\ StatigApply(NoteNextState(shadow), NoteNextState(inner))

MachineNext ==
    NoteApply \/ \E e \in Events, paid, total \in Amounts : InvoiceApply(e, paid, total)

MachineSpec == MachineInit /\ [][MachineNext]_machineVars
-----------------------------------------------------------------------------
\* The statig machine walks in step with the shadow if the document began its
\* life with it; for a document that was loaded in a later state it is never
\* driven, by no sequence of events, so that no entry action runs for a state
\* that the document left in a previous life (StatigAdapter::apply).
StatigInStep ==
    /\ seed = "Draft" => inner = shadow
    /\ seed # "Draft" => inner = "Draft"
-----------------------------------------------------------------------------
(* What the documentation says and the code does not do *)

\* StatigAdapter::new: for a machine seeded past Draft "apply reconciles per
\* call".
Reconciled == moved => inner = shadow
=============================================================================
