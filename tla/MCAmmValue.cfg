SPECIFICATION Spec
CONSTANTS
    MAX_SUPPLY_CAP = 8
    MINIMUM_LIQUIDITY = 1
    FEE_DENOMINATOR = 10
    MAX_FEE_BPS = 1
    U128_MAX = 640
    Vault = Vault
    Locked = Locked
    u1 = u1
    u2 = u2
    Users <- TwoUsers
    Enrolled <- TwoUsers
    SupplyCap = 8
    Endowment = 4
    Amounts <- OneTwoFour
    LpAmounts <- UpTo2
    Minimums <- Zero
    Fees <- AnyFee
    GiftAmounts <- One
    IssueAmounts <- Nothing
    PolicyMoves <- VaultsAllowed
    PausableSides <- Nothing
INVARIANTS
    TypeOK
    EmptyOrSeeded
    LpBacked
    ExitNeverBlocked
PROPERTIES
    ShareValueNeverFalls
    ImplementsShareVault
    SurplusStaysStranded
    NobodyRunsFirst
SYMMETRY Symmetry
