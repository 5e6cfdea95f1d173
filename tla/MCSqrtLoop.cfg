SPECIFICATION FairLoopSpec
CONSTANTS
    MAX_SUPPLY_CAP = 8
    MINIMUM_LIQUIDITY = 1
    FEE_DENOMINATOR = 10
    MAX_FEE_BPS = 1
    U128_MAX = 1023
    TOP_BIT = 256
    Bits <- EvenPowers
INVARIANTS
    RootIsExact
    SumsFitTheWord
PROPERTY Returns
CHECK_DEADLOCK FALSE
