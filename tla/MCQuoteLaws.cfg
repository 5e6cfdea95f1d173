SPECIFICATION Spec
CONSTANTS
    MAX_SUPPLY_CAP = 16
    MINIMUM_LIQUIDITY = 2
    FEE_DENOMINATOR = 10
    MAX_FEE_BPS = 1
    U128_MAX = 2560
    Amounts <- MCAmounts
    Reserves <- MCReserves
    Fees <- MCFees
INVARIANTS
    ArithmeticNeverOverflows
    DepositWithinDesired
    DepositThenRemoveNeverProfits
    SplittingNeverPays
CHECK_DEADLOCK FALSE
