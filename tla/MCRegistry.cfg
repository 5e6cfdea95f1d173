SPECIFICATION Spec
CONSTANTS
    NUL = NUL
    letter = letter
    dash = dash
    Alphanumeric <- Letters
    Punctuation <- Others
    Width = 3
    Rank <- Shuffled
    k1 = k1
    k2 = k2
    Keys <- TwoKeys
    Fees <- ZeroAndTooHigh
    MAX_FEE_BPS = 1
    Decimals <- RightAndWrong
    STABLECOIN_DECIMALS = 6
    Lengths <- ZeroOneAndTooLong
    MAX_NAME_LEN = 1
    MAX_URI_LEN = 1
    None = None
INVARIANTS
    DisplayedSymbolsDistinct
    OnePoolPerPair
    EveryPairCanTrade
    RolesStayApart
