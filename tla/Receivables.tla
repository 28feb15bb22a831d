----------------------------- MODULE Receivables -----------------------------
(***************************************************************************)
(* What the invoice commands promise a bookkeeper, without workers,        *)
(* snapshots, rows or documents: an account per invoice on which each      *)
(* command is one atomic posting.  Sending and viewing post nothing, nor   *)
(* does a command that is refused, repeated or cut short.                  *)
(***************************************************************************)
EXTENDS Naturals

CONSTANTS
    Invoices,    \* invoice ids, one account each
    Subtotals,   \* what a draft may come to before tax
    Taxes,       \* what an issue may add
    Amounts      \* what a payment may bring

VARIABLE account   \* by invoice: where it stands, what is due, what was received

NoAccount == [status |-> "none", due |-> 0, received |-> 0]

Init == account = [i \in Invoices |-> NoAccount]

Post(i, status, due, received) ==
    account' = [account EXCEPT ![i] = [status |-> status, due |-> due, received |-> received]]

Draft(i, subtotal) ==
    /\ account[i].status = "none"
    /\ Post(i, "draft", subtotal, 0)

\* The amount due is fixed here, once.
Issue(i, tax) ==
    /\ account[i].status = "draft"
    /\ Post(i, "open", account[i].due + tax, 0)

\* Settled by the payment that reaches the amount due, and by no other.
Receive(i, amount) ==
    LET received == account[i].received + amount
    IN  /\ account[i].status = "open" /\ amount > 0
        /\ Post(i, IF received >= account[i].due THEN "settled" ELSE "open",
                account[i].due, received)

\* What was received so far stays on the account.  There may be something: the
\* documents say that a payment rules a void out, void_invoice does not look.
Void(i) ==
    /\ account[i].status = "open"
    /\ Post(i, "void", account[i].due, account[i].received)

Next ==
    \E i \in Invoices :
        \/ \E s \in Subtotals : Draft(i, s)
        \/ \E t \in Taxes : Issue(i, t)
        \/ \E a \in Amounts : Receive(i, a)
        \/ Void(i)

Spec == Init /\ [][Next]_account
=============================================================================
