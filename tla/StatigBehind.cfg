\* The adapters of Background.cfg, seeded in every state.
SPECIFICATION CalcSpec
CONSTANTS
    Codes <- SomeCodes
    Upper <- SomeUpper
    RateUnit = 100000
    Cent = 1000000
    Amounts = {0, 1, 2}
CHECK_DEADLOCK FALSE
INVARIANT Reconciled
