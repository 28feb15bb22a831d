\* One process ticks while a request cancels a schedule; nothing fails.
SPECIFICATION Spec
CONSTANTS
    s1 = s1
    s2 = s2
    Schedules = {s1, s2}
    Tickers = {t1}
    Requests = {q1}
    AutoIssue = {s1}
    MaxDay = 2
    StartDate <- Starts
    EndDate <- Ends
    Advance <- Daily
    MaxFailures = 0
PROPERTY CancelledForGood
CHECK_DEADLOCK FALSE
