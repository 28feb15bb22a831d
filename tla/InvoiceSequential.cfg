CONSTANTS
    Workers = {w1}
    Invoices = {i1, i2}
    NoInvoice = NoInvoice
    Keys = {k1}
    NoKey = NoKey
    Subtotals = {1}
    Taxes = {1}
    Amounts = {0, 1, 2}
    Dests = {"local", "webhook"}
    BlobStore = TRUE
    MaxInstant = 3
    YearOf <- TwoYears
    FirstSecond = {2}
    MaxCommands = 5
SPECIFICATION Spec
SYMMETRY Symmetry
CHECK_DEADLOCK FALSE
INVARIANTS
    LedgerExact
    HistoryChain
    NumbersDense
PROPERTIES
    TerminalForGood
    AccountsKept
