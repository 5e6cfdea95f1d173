SPECIFICATION ClientSpec
CONSTANTS
    MAX_SUPPLY_CAP = 80
    MINIMUM_LIQUIDITY = 1
    FEE_DENOMINATOR = 10
    MAX_FEE_BPS = 1
    U128_MAX = 64000
    Vault = Vault
    Locked = Locked
    me = me
    other = other
    Me <- me
    Users <- Both
    Enrolled <- Both
    SupplyCap = 80
    Endowment = 40
    Amounts <- LargeAmounts
    LpAmounts <- One
    Minimums <- Zero
    Fees <- Zero
    GiftAmounts <- One
    IssueAmounts <- None
    PolicyMoves <- None
    PausableSides <- None
    FEE_BPS = 1
    DepositAmount <- TwelveOfEach
    SwapAmount <- TwoAndOne
    SLIPPAGE_BPS = 9
    MaxRivals = 2
PROPERTIES
    WithdrawalPaidWithinTolerance
CHECK_DEADLOCK FALSE
