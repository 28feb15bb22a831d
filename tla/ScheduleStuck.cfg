\* One process ticks; it stops once, between the issue and the save.
SPECIFICATION Spec
CONSTANTS
    s1 = s1
    s2 = s2
    Schedules = {s1, s2}
    Tickers = {t1}
    Requests = {}
    AutoIssue = {s1}
    MaxDay = 2
    StartDate <- Starts
    EndDate <- Ends
    Advance <- Daily
    MaxFailures = 1
PROPERTY EveryDueRunBilled
CHECK_DEADLOCK FALSE
