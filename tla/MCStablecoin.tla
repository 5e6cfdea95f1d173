---------------------------- MODULE MCStablecoin ----------------------------
(* A mint with its log, two key holders and two token accounts.            *)
EXTENDS MintEvents

CONSTANTS k1, k2, x1, x2

TwoKeys == {k1, k2}
AnyOfThem == AnyKey
TwoAccounts == {x1, x2}
One == {1}
UpTo2 == 1 .. 2
UpTo3 == 0 .. 3
AnyPolicy == Accounts \X Status
OnAndOff == BOOLEAN
=============================================================================
