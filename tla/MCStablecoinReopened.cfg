SPECIFICATION EventsSpec
CONSTANTS
    k1 = k1
    k2 = k2
    x1 = x1
    x2 = x2
    Keys <- TwoKeys
    LostKey = LostKey
    DefaultKey = DefaultKey
    None = None
    Accounts <- TwoAccounts
    MAX_SUPPLY_CAP = 2
    Caps <- One
    Amounts <- One
    TransferAmounts <- One
    Allowances <- One
    Authorities <- AnyOfThem
    PolicyMoves <- AnyPolicy
    PauseFlags <- OnAndOff
    MaxGranted = 1
INVARIANT PolicyMatchesFrozenState
