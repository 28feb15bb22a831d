\* As Background.cfg: commands that overlap write over each other's state.
SPECIFICATION AllSpec
CONSTANTS
    Reminders = {r1}
    RemTickers = {t1}
    Cancellers = {}
    MaxTime = 1
    MaxCuts = 0
    Billed = {"i1", "i2"}
    DueAt <- Dues
    Commands = {w1, w2}
    LastDay = 3
    e1 = e1
    e2 = e2
    e3 = e3
    rf = rf
    Workers = {w1, w2}
    Refs = {rf}
    NoRef = NoRef
    MaxInstant = 2
    YearOf <- TwoYears
    FirstSecond = {}
    MaxNotes = 2
    MaxRequests = 5
    EventIds = {e1, e2, e3}
    TopicOf <- Inbound
    Remap <- Renamed
    Payload <- Payloads
    BadPayload = BadPayload
    NoKey = NoKey
    Receivers = {v1, v2}
    MaxCrashes = 1
    Codes <- SomeCodes
    Upper <- SomeUpper
    RateUnit = 100000
    Cent = 1000000
    Amounts = {0, 1, 2}
CHECK_DEADLOCK FALSE
INVARIANT OverdueAllFlagged
