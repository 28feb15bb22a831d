\* The schedules of Background.cfg, against the quarters of the calendar.
SPECIFICATION CalcSpec
CONSTANTS
    Codes <- SomeCodes
    Upper <- SomeUpper
    RateUnit = 100000
    Cent = 1000000
    Amounts = {0, 1, 2}
CHECK_DEADLOCK FALSE
INVARIANT QuarterStart
