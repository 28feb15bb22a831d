\* Two ticks and one request on two schedules, one failure, two days.
SPECIFICATION Spec
CONSTANTS
    s1 = s1
    s2 = s2
    Schedules = {s1, s2}
    Tickers = {t1, t2}
    Requests = {q1}
    AutoIssue = {s1}
    MaxDay = 2
    StartDate <- Starts
    EndDate <- Ends
    Advance <- Daily
    MaxFailures = 1
INVARIANTS OneInvoicePerRun NoRunSkipped BilledWhenDue
PROPERTY OnlyStuckBlocks
