CONSTANTS
    Workers = {w1, w2}
    Invoices = {i1, i2}
    NoInvoice = NoInvoice
    Keys = {k1}
    NoKey = NoKey
    Subtotals = {1}
    Taxes = {1}
    Amounts = {0, 1, 2}
    Dests = {"local"}
    BlobStore = TRUE
    MaxInstant = 1
    YearOf <- OneYear
    FirstSecond = {}
    MaxCommands = 5
SPECIFICATION Spec
SYMMETRY Symmetry
CHECK_DEADLOCK FALSE
INVARIANTS
    TypeOK
    RowCoherent
    AuditAgrees
    AuditTrailSound
    NoMoneyInvented
    AtMostOncePerKey
    UniqueNumbers
    RecordedEffects
PROPERTIES
    IssuedForGood
