--------------------------- MODULE MCBackground ---------------------------
(* What runs behind the requests, for TLC: the announcing loops, the bus    *)
(* consumer and the calculations, side by side.  They share no state, and a *)
(* behaviour works on one of them; part is "reminders", "overdue",          *)
(* "consumer", or as in MCCalculations.                                     *)
EXTENDS Reminders, OverdueTicker, BusConsumer, MCCalculations, TLC

allVars == <<calcVars, remVars, overdueVars, vars>>

\* One invoice is due on the first day, one on the second.
Dues == [i \in Billed |-> IF i = "i1" THEN 1 ELSE 2]

CONSTANTS e1, e2, e3, rf

Full(key, refund, inv) == [key |-> key, refundId |-> refund, invoiceRef |-> inv]

\* A refund under a topic that the operator renamed, a charge without a key of
\* its own, and a payment that names no invoice.
Inbound == e1 :> "finance.refunds" @@ e2 :> "charge.created" @@ e3 :> "payment.received"
Payloads == e1 :> Full(NoKey, rf, TRUE) @@ e2 :> Full(NoKey, NoKey, TRUE)
                @@ e3 :> Full(NoKey, NoKey, FALSE)
Renamed == "finance.refunds" :> "payment.refunded"

TwoYears == [t \in Instants |-> IF t = 1 THEN 1 ELSE 2]

CalcRest == SaleRest /\ CadenceRest /\ MachinesRest
OverdueRest == state = [i \in Billed |-> "Draft"] /\ OverdueInit

AllInit ==
    \/ part \in {"reminders", "consumer"} /\ RemInit /\ OverdueRest /\ CalcRest /\ Init
    \/ part = "overdue" /\ RemInit /\ OverdueInit /\ CalcRest /\ Init
    \/ CalcInit /\ RemInit /\ OverdueRest /\ Init

Remind == part = "reminders" /\ RemNext /\ UNCHANGED <<calcVars, overdueVars, vars>>

Flag == part = "overdue" /\ OverdueNext /\ UNCHANGED <<calcVars, remVars, vars>>

Consume == part = "consumer" /\ Next /\ UNCHANGED <<calcVars, remVars, overdueVars>>

Calculate == CalcNext /\ UNCHANGED <<remVars, overdueVars, vars>>

AllNext == Remind \/ Flag \/ Consume \/ Calculate

\* The server's loop of reminders ticks for ever and awaits each tick.
AllSpec ==
    /\ AllInit /\ [][AllNext]_allVars
    /\ \A t \in RemTickers : WF_remVars(part = "reminders" /\ RemTickStep(t))
=============================================================================
