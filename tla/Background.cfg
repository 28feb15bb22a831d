\* Two ticking processes, two reminders, one cancellation in flight, one tick or
\* announcement lost; two invoices under the overdue tick and two commands.
\* Five requests from outside: deliveries of three events to two receivers, one
\* of which stops; notes created by hand; two issues at the turn of a year.
\* Every scope, category and threshold of the tax engine, ties of both kinds of
\* rounding, six runs of a schedule, and every seed of the statig adapters.
SPECIFICATION AllSpec
CONSTANTS
    Reminders = {r1, r2}
    RemTickers = {t1, t2}
    Cancellers = {c1}
    MaxTime = 3
    MaxCuts = 1
    Billed = {"i1", "i2"}
    DueAt <- Dues
    Commands = {w1, w2}
    LastDay = 3
    e1 = e1
    e2 = e2
    e3 = e3
    rf = rf
    Workers = {w1, w2}
    Refs = {rf}
    NoRef = NoRef
    MaxInstant = 2
    YearOf <- TwoYears
    FirstSecond = {}
    MaxNotes = 2
    MaxRequests = 5
    EventIds = {e1, e2, e3}
    TopicOf <- Inbound
    Remap <- Renamed
    Payload <- Payloads
    BadPayload = BadPayload
    NoKey = NoKey
    Receivers = {v1, v2}
    MaxCrashes = 1
    Codes <- SomeCodes
    Upper <- SomeUpper
    RateUnit = 100000
    Cent = 1000000
    Amounts = {0, 1, 2}
CHECK_DEADLOCK FALSE
INVARIANTS AnnouncedBounded CancelledIsQuiet NoneMissed TypeOK AppliedAtMostOnce
           ProcessedMeansApplied NoteNumbersDense TaxExplained TotalsAddUp
           RunsOnCadence StatigInStep
PROPERTY DueIsAnnounced
