\* One request at a time, at the turn of a year.
CONSTANTS
    Workers = {w1}
    Invoices = {i1}
    NoInvoice = NoInvoice
    Keys = {k1}
    NoKey = NoKey
    Subtotals = {1}
    Taxes = {1}
    Amounts = {1, 2}
    Dests = {"local"}
    BlobStore = TRUE
    MaxInstant = 2
    YearOf <- TwoYears
    FirstSecond = {2}
    MaxCommands = 4
SPECIFICATION Spec
SYMMETRY Symmetry
CHECK_DEADLOCK FALSE
INVARIANT NextNumberFree
