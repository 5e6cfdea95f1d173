SPECIFICATION EventsSpec
CONSTANTS
    MAX_SUPPLY_CAP = 5
    MINIMUM_LIQUIDITY = 1
    FEE_DENOMINATOR = 10
    MAX_FEE_BPS = 1
    U128_MAX = 250
    Vault = Vault
    Locked = Locked
    u1 = u1
    Users <- OneUser
    Enrolled <- OneUser
    SupplyCap = 4
    Endowment = 3
    Amounts <- UpTo3
    LpAmounts <- UpTo3
    Minimums <- ZeroOrTwo
    Fees <- One
    GiftAmounts <- One
    IssueAmounts <- One
    PolicyMoves <- AnyPolicy
    PausableSides <- BothSides
INVARIANTS
    BooksBalance
    RechecksNeverFire
PROPERTIES
    ReservesMoveOnlyWhenPermitted
