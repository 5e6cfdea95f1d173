SPECIFICATION Spec
CONSTANTS
    MAX_SUPPLY_CAP = 4
    MINIMUM_LIQUIDITY = 1
    FEE_DENOMINATOR = 10
    MAX_FEE_BPS = 1
    U128_MAX = 250
    Vault = Vault
    Locked = Locked
    LostKey = LostKey
    DefaultKey = DefaultKey
    None = None
    k1 = k1
    u1 = u1
    Keys <- OneKey
    Users <- OneUser
    Authorities <- OneKey
    MaxGranted = 4
    Amounts <- UpTo2
    LpAmounts <- One
    Minimums <- Zero
    Fees <- Zero
    Caps <- CapOfBoth
    IssueAmounts <- IssueOfBoth
    Allowances <- AllowanceOfBoth
    PolicyMoves <- DecisionsOnBoth
    PauseFlags <- PausesOnBoth
    TransferAmounts <- UpToCap
INVARIANTS
    ReservesAreIssued
PROPERTIES
    ImplementsAmm
