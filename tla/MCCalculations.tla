--------------------------- MODULE MCCalculations ---------------------------
(* The pure parts of the system for TLC, each against a reference: the tax  *)
(* engine, the totals of an invoice, the cadence, and the statig adapters.  *)
(* A behaviour works on one part.                                           *)
EXTENDS TaxEngine, Cadence, StateMachines

VARIABLES part

calcVars == <<part, sale, cadenceVars, machineVars>>
-----------------------------------------------------------------------------
SomeCodes == {"", "CA", "ca", "QC", "qc", "ON", "US", "DE", "NY", "ny", "DZ", "16", "31"}
SomeUpper == [c \in SomeCodes |-> CASE c = "ca" -> "CA" [] c = "qc" -> "QC"
                                    [] c = "ny" -> "NY" [] OTHER -> c]

Buyers == {[country |-> a[1], region |-> a[2]] : a \in
    {<<"", None>>, <<"CA", "QC">>, <<"ca", "qc">>, <<"CA", "ON">>, <<"CA", None>>,
     <<"US", "DE">>, <<"US", "NY">>, <<"US", "ny">>, <<"US", None>>,
     <<"DZ", "16">>, <<"DZ", "31">>, <<"DZ", None>>}}

Row(id, seller, country, region, category, rate, from, to) ==
    [id |-> id, seller |-> seller, country |-> country, region |-> region,
     category |-> category, rate |-> rate, from |-> from, to |-> to]

StandardRows ==
    << Row("gst", "CA-QC", "CA", None, "Standard", 5000, 1, 1),
       Row("gst2", "CA-QC", "CA", None, "Standard", 10000, 2, 0),
       Row("qst", "CA-QC", "ca", "qc", "Standard", 9975, 1, 0),
       Row("ny", "US-DE", "US", "NY", "Standard", 7250, 1, 2),
       Row("tva", "DZ-16", "DZ", None, "Standard", 5000, 1, 0) >>
OtherRows ==
    << Row("qc-low", "CA-QC", "CA", "QC", "Reduced", 5000, 2, 2),
       Row("food", "CA-QC", None, None, "ZeroRated", 0, 1, 0),
       Row("ny-low", "US-DE", None, "ny", "Reduced", 5000, 1, 1),
       Row("care", "DZ-16", "DZ", "31", "Exempt", 0, 1, 0) >>
Tables == {<<>>, StandardRows, OtherRows \o StandardRows}

Threshold(enabled, revenue, txns) == [enabled |-> enabled, revenue |-> revenue, txn_count |-> txns]
Nexuses == {[s \in {} |-> Threshold(FALSE, -1, -1)],
            [s \in {"NY"} |-> Threshold(TRUE, -1, -1)],
            [s \in {"NY"} |-> Threshold(FALSE, -1, 0)],
            [s \in {"ny"} |-> Threshold(TRUE, 3, 2)],
            [s \in {"NY"} |-> Threshold(TRUE, 3, -1)]}
Figures == [revenue : {2, 3}, txn_count : {1, 2}]

Untaxed == [s \in {} |-> Threshold(FALSE, -1, -1)]
Few == [revenue |-> 2, txn_count |-> 1]

OneLine(bases, categories) == {<<l>> : l \in [base : bases, category : categories]}
SomeLines == [base : {5, 15, 100, 300, 305, 500}, category : {"Standard", "Exempt"}]

\* Base amounts are thousandths of a unit and rates thousandths of a percent.
\* Every scope and category; every threshold; ties; several lines.
SomeSales ==
    [seller : Sellers, buyer : Buyers, lines : OneLine({100, 300}, Categories), currency : {"CAD"},
     table : Tables, nexus : {Untaxed}, figures : {Few}, at : 0..3]
    \cup [seller : {"US-DE"}, buyer : {b \in Buyers : b.country = "US"},
          lines : OneLine({100}, Categories), currency : {"USD"},
          table : Tables, nexus : Nexuses, figures : Figures, at : {1, 2}]
    \cup [seller : {"DZ-16"}, buyer : {[country |-> "DZ", region |-> "16"]},
          lines : OneLine({25 * n : n \in 1..400}, {"Standard"}), currency : {"DZD", "CAD"},
          table : {StandardRows}, nexus : {Untaxed}, figures : {Few}, at : {1}]
    \cup [seller : {"CA-QC"}, buyer : {[country |-> "CA", region |-> "QC"]},
          lines : {<<a, b>> : a, b \in SomeLines} \cup {<<a, b, b>> : a, b \in SomeLines} \cup {<<>>},
          currency : {"CAD", "DZD"}, table : {StandardRows}, nexus : {Untaxed}, figures : {Few}, at : {1, 2}]

Starts == {Date(y, m, d) : y \in {2023, 2024}, m \in {1, 2, 11, 12}, d \in {1, 14, 15, 28}}
              \cup {Date(2024, 2, 29), Date(2023, 12, 31), Date(2023, 10, 31)}
SomeCadences == {c \in Cadences : c.day \in {1, 15, 28} /\ c.month \in {1, 2, 12}}
MaxRuns == 6
-----------------------------------------------------------------------------
MachinesRest == kind = "invoice" /\ seed = "Draft" /\ MachineInit
CadenceRest == cadence = [kind |-> "monthly", month |-> 1, day |-> 1] /\ runs = <<>>
SaleRest == sale = [seller |-> "CA-QC", buyer |-> [country |-> "", region |-> None], lines |-> <<>>,
                    currency |-> "CAD", table |-> <<>>, nexus |-> Untaxed, figures |-> Few, at |-> 0]

CalcInit ==
    \/ part = "tax" /\ sale \in SomeSales /\ CadenceRest /\ MachinesRest
    \/ /\ part = "cadence" /\ SaleRest /\ MachinesRest
       /\ cadence \in SomeCadences /\ runs \in {<<s>> : s \in Starts}
    \/ part = "machines" /\ SaleRest /\ CadenceRest /\ MachineInit

Bill == part = "cadence" /\ Len(runs) < MaxRuns /\ Run /\ UNCHANGED <<part, sale, machineVars>>

Drive == part = "machines" /\ MachineNext /\ UNCHANGED <<part, sale, cadenceVars>>

CalcNext == Bill \/ Drive

CalcSpec == CalcInit /\ [][CalcNext]_calcVars
=============================================================================
