SPECIFICATION ClientSpec
CONSTANTS
    MAX_SUPPLY_CAP = 16
    MINIMUM_LIQUIDITY = 1
    FEE_DENOMINATOR = 10
    MAX_FEE_BPS = 1
    U128_MAX = 2560
    Vault = Vault
    Locked = Locked
    me = me
    other = other
    Me <- me
    Users <- Both
    Enrolled <- Both
    SupplyCap = 16
    Endowment = 8
    Amounts <- SomeAmounts
    LpAmounts <- One
    Minimums <- Zero
    Fees <- Zero
    GiftAmounts <- One
    IssueAmounts <- None
    PolicyMoves <- None
    PausableSides <- None
    FEE_BPS = 1
    DepositAmount <- FourOfEach
    SwapAmount <- TwoAndOne
    SLIPPAGE_BPS = 10
    MaxRivals = 5
INVARIANTS
    QuotesMatchTheProgram
PROPERTIES
    SwapsPaidWithinTolerance
CHECK_DEADLOCK FALSE
