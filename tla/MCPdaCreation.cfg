SPECIFICATION CreationSpec
CONSTANTS
    Instructions <- PoolAndMint
    Owner <- Programs
    Space <- LengthAtCreation
    FinalSpace <- LengthAtTheEnd
    Overhead = 2
    GiftAmounts <- Gifts
    MaxLamports = 4
    Purses <- AnyPurse
INVARIANTS
    OnlyPovertyFails
    PayerPaysWhatIsMissing
    AllCreated
CHECK_DEADLOCK FALSE
