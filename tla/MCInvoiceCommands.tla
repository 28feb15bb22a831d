------------------------- MODULE MCInvoiceCommands -------------------------
(* Instances of InvoiceCommands for TLC. *)
EXTENDS InvoiceCommands, TLC

\* Workers and invoices are interchangeable in every run without liveness.
Symmetry == Permutations(Workers) \union Permutations(Invoices)

OneYear == [t \in Instants |-> 1]

\* A change of year between the first and the second instant.
TwoYears == [t \in Instants |-> IF t = 1 THEN 1 ELSE 2]
=============================================================================
