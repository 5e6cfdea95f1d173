----------------------------- MODULE MCRegistry -----------------------------
(* Symbols of three bytes over a NUL, one letter and one other byte; two   *)
(* people; and mint addresses in an order unrelated to the symbols.        *)
EXTENDS Registry

CONSTANTS k1, k2, letter, dash

TwoKeys == {k1, k2}
Letters == {letter}
Others == {dash}
ZeroAndTooHigh == {0, MAX_FEE_BPS, MAX_FEE_BPS + 1}
RightAndWrong == {STABLECOIN_DECIMALS, STABLECOIN_DECIMALS + 1}
ZeroOneAndTooLong == {0, 1, MAX_NAME_LEN + 1}

Digit(byte) == CASE byte = NUL -> 0 [] byte = letter -> 1 [] byte = dash -> 2
Shuffled == [s \in Symbol |-> (11 * (Digit(s[1]) + 3 * Digit(s[2]) + 9 * Digit(s[3]))) % 27]
=============================================================================
