----------------------------- MODULE InvoiceFsm -----------------------------
(***************************************************************************)
(* The pure transition table of the invoice lifecycle                      *)
(* (crates/core/src/state/transitions.rs): every command asks it for the   *)
(* state that an event leads to.  Money is a natural number of the         *)
(* currency's minor units.                                                 *)
(***************************************************************************)
EXTENDS Naturals

\* InvoiceState.
States == {"Draft", "Issued", "Sent", "Viewed", "PartiallyPaid", "Paid", "Voided"}

\* The states that accept a payment or a void.
Payable == {"Issued", "Sent", "Viewed", "PartiallyPaid"}

\* The states that reject every event.
Terminal == {"Paid", "Voided"}

\* InvoiceEvent; Pay's two operands are parameters of NextState.
Events == {"Issue", "Send", "Remind", "View", "Pay", "Void"}

\* TransitionError: Illegal, NonPositivePayment.
Rejections == {"Illegal", "NonPositive"}

\* Full and partial are told apart by the cumulative amount paid.
ClassifyPayment(paid, total) ==
    IF paid = 0 THEN "NonPositive" ELSE IF paid >= total THEN "Full" ELSE "Partial"

PayFromOpen(paid, total) ==
    IF ClassifyPayment(paid, total) = "Full" THEN "Paid"
    ELSE IF ClassifyPayment(paid, total) = "Partial" THEN "PartiallyPaid"
    ELSE "NonPositive"

\* next_state: the target of an event, or a rejection.  paid and total are
\* read for Pay only, and paid is the amount after this payment.
NextState(current, event, paid, total) ==
    IF      current = "Draft"   /\ event = "Issue"  THEN "Issued"
    ELSE IF current = "Issued"  /\ event = "Send"   THEN "Sent"
    ELSE IF current = "Sent"    /\ event = "Remind" THEN "Sent"
    ELSE IF current = "Sent"    /\ event = "View"   THEN "Viewed"
    ELSE IF current \in Payable /\ event = "Pay"    THEN PayFromOpen(paid, total)
    ELSE IF current \in Payable /\ event = "Void"   THEN "Voided"
    ELSE "Illegal"

\* The transitions that a command may record.
CommandEdge(event, f, t) ==
    \/ event = "draft" /\ f = "Absent" /\ t = "Draft"
    \/ event = "issue" /\ f = "Draft" /\ t = "Issued"
    \/ event = "send"  /\ f \in {"Issued", "Sent"} /\ t = "Sent"
    \/ event = "view"  /\ f = "Sent" /\ t = "Viewed"
    \/ event = "pay"   /\ f \in Payable /\ t \in {"PartiallyPaid", "Paid"}
    \/ event = "void"  /\ f \in Payable /\ t = "Voided"
=============================================================================
