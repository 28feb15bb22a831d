----------------------------- MODULE TaxEngine -----------------------------
(***************************************************************************)
(* The tax engine (crates/core/src/tax) and the totals that the draft and  *)
(* issue commands compute with it (crates/commands/src/draft.rs, issue.rs),*)
(* as pure operators.  Quantities, prices and rates are decimals of any    *)
(* precision: a line's base (quantity times unit price) and a rate are     *)
(* whole numbers of its parts, a rate of 100 % being RateUnit, and money is*)
(* a whole number of their products, Cent for a hundredth of a currency    *)
(* unit.  So every product is exact as it is with rust_decimal.  The engine*)
(* keeps no state: a behaviour is one sale after another.                  *)
(***************************************************************************)
EXTENDS Integers, Sequences

CONSTANTS
    Codes,      \* country and region codes as they are written
    Upper,      \* to_ascii_uppercase on them
    RateUnit,   \* 100 %, in the parts of a rate
    Cent        \* a hundredth of a currency unit, in the parts of money

ASSUME TaxAssumption ==
    /\ Upper \in [Codes -> Codes]
    /\ \A c \in Codes : Upper[Upper[c]] = Upper[c]
    /\ "" \in Codes /\ Upper[""] = "" /\ "none" \notin Codes

ASSUME PrecisionAssumption == RateUnit \in Nat \ {0} /\ Cent \in Nat \ {0}

VARIABLES
    sale     \* what the engine and the commands are given

\* A region, a filter or a category of a row that is absent.
None == "none"

\* Jurisdiction: the three sellers, their country and their region.
Sellers == {"CA-QC", "US-DE", "DZ-16"}
Country == [s \in Sellers |-> CASE s = "CA-QC" -> "CA" [] s = "US-DE" -> "US" [] s = "DZ-16" -> "DZ"]
Region  == [s \in Sellers |-> CASE s = "CA-QC" -> "QC" [] s = "US-DE" -> "DE" [] s = "DZ-16" -> "16"]

Categories == {"Standard", "Reduced", "ZeroRated", "Exempt"}

\* A row of the table; to = 0 is a row without an end.
TaxRate == [id : STRING, seller : Sellers, country : Codes \cup {None},
            region : Codes \cup {None}, category : Categories, rate : Nat,
            from : Nat, to : Nat]

\* NexusConfig: a threshold that is not configured is -1.
Thresholds == [enabled : BOOLEAN, revenue : Nat \cup {-1}, txn_count : Nat \cup {-1}]

Lines == [base : Int, category : Categories]

Sales == [seller : Sellers, buyer : [country : Codes, region : Codes \cup {None}],
          lines : Seq(Lines), currency : {"CAD", "USD", "DZD", "other"}, table : Seq(TaxRate),
          nexus : UNION {[D -> Thresholds] : D \in SUBSET Codes},
          figures : [revenue : Nat, txn_count : Nat], at : Nat]
-----------------------------------------------------------------------------
(* Money *)

\* The sum of a sequence of amounts.
SumOf(s) ==
    LET upTo[k \in 0..Len(s)] == IF k = 0 THEN 0 ELSE upTo[k - 1] + s[k]
    IN  upTo[Len(s)]

\* Currency::scale: the minor unit.
Scale(currency) == IF currency = "DZD" THEN 100 * Cent ELSE Cent

\* Mutant of Round: a half is rounded up.
RoundHalfUp(currency, n) ==
    LET u == Scale(currency) IN u * ((2 * n + u) \div (2 * u))

\* Currency::round, banker's rounding to the minor unit.
Round(currency, n) ==
    LET u == Scale(currency)
        q == n \div u
        r == n % u
    IN  u * (IF 2 * r < u \/ (2 * r = u /\ q % 2 = 0) THEN q ELSE q + 1)
-----------------------------------------------------------------------------
(* The table *)

\* TaxRate::is_effective_on, inclusive on both sides.
IsEffectiveOn(r, at) == r.from <= at /\ (r.to = 0 \/ at <= r.to)

\* TaxTable::lookup: the rows of the seller that admit the buyer, by position.
Lookup(table, seller, buyer, category, at) ==
    {i \in DOMAIN table :
        LET r == table[i]
        IN  /\ r.seller = seller
            /\ r.country # None => Upper[r.country] = Upper[buyer.country]
            /\ r.region # None => buyer.region # None /\ Upper[r.region] = Upper[buyer.region]
            /\ r.category = category
            /\ IsEffectiveOn(r, at)}

\* NexusConfig::get: the upper-case key, then the code as it is written.
NexusGet(nexus, state) ==
    IF Upper[state] \in DOMAIN nexus THEN Upper[state]
    ELSE IF state \in DOMAIN nexus THEN state ELSE None

\* NexusThreshold::has_nexus.
HasNexus(t, figures) ==
    /\ t.enabled
    /\ \/ t.revenue = -1 /\ t.txn_count = -1
       \/ t.revenue # -1 /\ figures.revenue >= t.revenue
       \/ t.txn_count # -1 /\ figures.txn_count >= t.txn_count
-----------------------------------------------------------------------------
(* The resolver *)

\* classify: the buyer's scope; a buyer without a country is an error.
Classify(seller, buyer) ==
    IF buyer.country = "" THEN "InvalidBuyerCountry"
    ELSE IF Upper[buyer.country] # Country[seller] THEN "Export"
    ELSE IF buyer.region = None
         THEN IF seller = "DZ-16" THEN "DomesticLocal" ELSE "DomesticOther"
    ELSE IF Upper[buyer.region] = Region[seller] THEN "DomesticLocal" ELSE "DomesticOther"

\* pick_rates: a reduced line without a reduced row is taxed at the standard rate.
PickRates(seller, buyer, category, table, at) ==
    LET found == Lookup(table, seller, buyer, category, at)
    IN  IF category = "Reduced" /\ found = {} THEN Lookup(table, seller, buyer, "Standard", at)
        ELSE found

\* ResolvedTax; the applied rates are positions in the table, the warnings'
\* wording is left out.
ResolvedTax(amount, rates, review, export) ==
    [amount |-> amount, rates |-> rates, review |-> review, export |-> export]

\* The rates' shares of the base, added up and rounded once.
TaxAt(rates, base, currency, table) ==
    Round(currency, SumOf([i \in DOMAIN table |-> IF i \in rates THEN base * table[i].rate ELSE 0]))

\* resolve_tax, for a line of the invoice; a buyer without a country is refused.
ResolveTax(seller, buyer, line, currency, table, nexus, figures, at) ==
    LET scope == Classify(seller, buyer)
        picked == PickRates(seller, buyer, line.category, table, at)
        zero == Round(currency, 0)
        taxed == ResolvedTax(TaxAt(picked, line.base, currency, table), picked, FALSE, FALSE)
        reviewed == ResolvedTax(zero, {}, TRUE, FALSE)
        state == NexusGet(nexus, buyer.region)
    IN  IF scope = "InvalidBuyerCountry" THEN [error |-> scope]
        ELSE IF line.category \in {"ZeroRated", "Exempt"}
        THEN ResolvedTax(zero, picked, FALSE, scope = "Export")
        ELSE IF scope = "Export" THEN ResolvedTax(zero, {}, FALSE, TRUE)
        ELSE IF scope = "DomesticLocal" \/ seller # "US-DE" THEN taxed
        ELSE IF buyer.region # None /\ state # None /\ HasNexus(nexus[state], figures) THEN taxed
        ELSE reviewed
-----------------------------------------------------------------------------
(* The totals of an invoice *)

Subtotal(line, currency) == Round(currency, RateUnit * line.base)

\* draft_invoice: the subtotal that a draft shows.
DraftSubtotal(lines, currency) ==
    Round(currency, SumOf([i \in DOMAIN lines |-> Subtotal(lines[i], currency)]))

\* NexusFigures::default.
NoFigures == [revenue |-> 0, txn_count |-> 0]

\* Mutant of IssueLine: the line's total is rounded once, at the end.
IssueLineOnce(seller, buyer, line, currency, table, nexus, at) ==
    LET resolved == ResolveTax(seller, buyer, line, currency, table, nexus,
                               NoFigures, at)
    IN  [subtotal |-> Subtotal(line, currency), tax |-> resolved.amount,
         total |-> Round(currency, RateUnit * line.base + resolved.amount)]

\* issue_invoice, step 4, for one line; the seller's figures are the defaults.
IssueLine(seller, buyer, line, currency, table, nexus, at) ==
    LET resolved == ResolveTax(seller, buyer, line, currency, table, nexus,
                               NoFigures, at)
    IN  [subtotal |-> Subtotal(line, currency), tax |-> resolved.amount,
         total |-> Round(currency, Subtotal(line, currency) + resolved.amount)]

\* issue_invoice, step 4: the totals that the issued invoice shows.
IssueTotals(seller, buyer, lines, currency, table, nexus, at) ==
    LET priced == [i \in DOMAIN lines |->
                      IssueLine(seller, buyer, lines[i], currency, table, nexus, at)]
        subtotal == Round(currency, SumOf([i \in DOMAIN lines |-> priced[i].subtotal]))
        taxes == Round(currency, SumOf([i \in DOMAIN lines |-> priced[i].tax]))
    IN  [lines |-> priced, subtotal |-> subtotal, tax_total |-> taxes,
         total |-> Round(currency, subtotal + taxes)]
-----------------------------------------------------------------------------
TaxSpec == sale \in Sales /\ [][sale' \in Sales]_sale
-----------------------------------------------------------------------------
(* What the tax of a line should be, from what the tables say. *)

\* n is a multiple of the minor unit nearest to x, the even one of two.
IsNearest(currency, n, x) ==
    LET u == Scale(currency)
        d == IF n > x THEN n - x ELSE x - n
    IN  n % u = 0 /\ (2 * d < u \/ (2 * d = u /\ (n \div u) % 2 = 0))

\* The rows in force for a sale and a category.
Due(s, category) ==
    {i \in DOMAIN s.table :
        LET r == s.table[i]
        IN  /\ r.seller = s.seller /\ r.category = category
            /\ r.country = None \/ Upper[r.country] = Upper[s.buyer.country]
            /\ r.region = None \/ (s.buyer.region # None /\ Upper[r.region] = Upper[s.buyer.region])
            /\ s.at \in r.from .. (IF r.to = 0 THEN s.at ELSE r.to)}

DueRows(s, line) ==
    IF line.category = "Reduced" /\ Due(s, "Reduced") = {} THEN Due(s, "Standard")
    ELSE Due(s, line.category)

Abroad(s) == Upper[s.buyer.country] # Country[s.seller]

\* The seller's figures cross the threshold of the buyer's state: the one under
\* its upper-case code, or else under the code as it is written.
Crossed(s, figures) ==
    \E key \in DOMAIN s.nexus \cap {Upper[s.buyer.region], s.buyer.region} :
        LET t == s.nexus[key]
        IN  /\ Upper[s.buyer.region] \in DOMAIN s.nexus => key = Upper[s.buyer.region]
            /\ t.enabled
            /\ \/ {t.revenue, t.txn_count} = {-1}
               \/ t.revenue \in 0..figures.revenue
               \/ t.txn_count \in 0..figures.txn_count

\* A line that is taxed at all: a sale at home, and for the seller in Delaware
\* outside its state only once that state's threshold is crossed.
Taxable(s, line, figures) ==
    /\ line.category \in {"Standard", "Reduced"} /\ ~Abroad(s)
    /\ s.seller = "US-DE" => /\ s.buyer.region # None
                             /\ Upper[s.buyer.region] = "DE" \/ Crossed(s, figures)

\* The tax on a line unrounded.
ExactTax(s, line, figures) ==
    IF Taxable(s, line, figures)
    THEN line.base * SumOf([i \in DOMAIN s.table |-> IF i \in DueRows(s, line) THEN s.table[i].rate ELSE 0])
    ELSE 0

\* resolve_tax explains the tax of a line: the recorded rates are all the rows
\* in force for this seller, buyer and category (standard ones if no reduced
\* one is), the amount is what they make of the line's base, rounded once and
\* fairly; nothing else is taxed, and what stays open is flagged for review.
TaxExplained ==
    sale.buyer.country # "" => \A n \in DOMAIN sale.lines :
        LET line == sale.lines[n]
            r == ResolveTax(sale.seller, sale.buyer, line, sale.currency, sale.table, sale.nexus,
                            sale.figures, sale.at)
        IN  /\ Taxable(sale, line, sale.figures) => r.rates = DueRows(sale, line)
            /\ IsNearest(sale.currency, r.amount, ExactTax(sale, line, sale.figures))
            /\ r.export <=> Abroad(sale)
            /\ r.review <=> /\ ~Taxable(sale, line, sale.figures) /\ ~Abroad(sale)
                            /\ line.category \in {"Standard", "Reduced"}

\* An issued invoice adds up to the minor unit: its total is the sum of the line
\* totals printed above it, its subtotal the one the draft showed, and it stays
\* within the rounding of two amounts a line of the exact figure.  The rates are
\* those issue_invoice asks for, with default figures: whether these are the
\* right rates is the question of ThresholdTaxed.
TotalsAddUp ==
    sale.buyer.country # "" =>
        LET t == IssueTotals(sale.seller, sale.buyer, sale.lines, sale.currency, sale.table,
                             sale.nexus, sale.at)
            exact == SumOf([n \in DOMAIN sale.lines |->
                              RateUnit * sale.lines[n].base + ExactTax(sale, sale.lines[n], NoFigures)])
            slack == Scale(sale.currency) * Len(sale.lines)
        IN  /\ t.total = SumOf([n \in DOMAIN sale.lines |-> t.lines[n].total])
            /\ t.total = t.subtotal + t.tax_total
            /\ t.subtotal = DraftSubtotal(sale.lines, sale.currency)
            /\ t.total - exact \in -slack .. slack
-----------------------------------------------------------------------------
(* What the documentation says and the code does not do *)

\* how-to-tax-config.md: in an enabled state the rate applies whenever either
\* threshold is crossed.  So an issued line bears the tax that the seller's
\* figures make due.
ThresholdTaxed ==
    sale.buyer.country # "" =>
        LET t == IssueTotals(sale.seller, sale.buyer, sale.lines, sale.currency, sale.table,
                             sale.nexus, sale.at)
        IN  \A n \in DOMAIN sale.lines :
                IsNearest(sale.currency, t.lines[n].tax, ExactTax(sale, sale.lines[n], sale.figures))
=============================================================================
