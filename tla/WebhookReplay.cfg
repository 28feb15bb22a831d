\* One request at a time; sends go to a webhook only.
CONSTANTS
    Workers = {w1}
    Invoices = {i1}
    NoInvoice = NoInvoice
    Keys = {k1}
    NoKey = NoKey
    Subtotals = {1}
    Taxes = {1}
    Amounts = {1, 2}
    Dests = {"webhook"}
    BlobStore = TRUE
    MaxInstant = 1
    YearOf <- OneYear
    FirstSecond = {}
    MaxCommands = 4
SPECIFICATION Spec
SYMMETRY Symmetry
CHECK_DEADLOCK FALSE
INVARIANT PostedOncePerKey
