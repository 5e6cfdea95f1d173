SPECIFICATION Spec
CONSTANTS
    MAX_SUPPLY_CAP = 10100
    MINIMUM_LIQUIDITY = 1000
    FEE_DENOMINATOR = 10000
    MAX_FEE_BPS = 100
    U128_MAX = 2147483647
    Amounts <- MCAmounts
    Reserves <- MCReserves
    Fees <- MCFees
INVARIANT LargerSwapsNeverGetABetterPrice
CHECK_DEADLOCK FALSE
