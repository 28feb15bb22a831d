\* The sales of Background.cfg, against what the seller's figures make due.
SPECIFICATION CalcSpec
CONSTANTS
    Codes <- SomeCodes
    Upper <- SomeUpper
    RateUnit = 100000
    Cent = 1000000
    Amounts = {0, 1, 2}
CHECK_DEADLOCK FALSE
INVARIANT ThresholdTaxed
