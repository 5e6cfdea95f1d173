SPECIFICATION EventsSpec
CONSTANTS
    k1 = k1
    k2 = k2
    x1 = x1
    x2 = x2
    Keys <- TwoKeys
    LostKey = LostKey
    DefaultKey = DefaultKey
    None = None
    Accounts <- TwoAccounts
    MAX_SUPPLY_CAP = 2
    Caps <- UpTo3
    Amounts <- One
    TransferAmounts <- One
    Allowances <- UpTo2
    Authorities <- AnyOfThem
    PolicyMoves <- AnyPolicy
    PauseFlags <- OnAndOff
    MaxGranted = 2
INVARIANTS
    TypeOK
    DefaultDeny
    ComplianceNeverRefused
    AdminNeverStranded
    SupplyWithinCap
    OutstandingCoversSupply
    IssuanceAccounted
    LogTellsAll
PROPERTIES
    BlockedStaysPut
    PausedMeansStill
    ImplementsLedger
