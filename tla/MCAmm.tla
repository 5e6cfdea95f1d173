------------------------------- MODULE MCAmm -------------------------------
(* A pool with two users, for whom nothing but value is at stake.          *)
EXTENDS Amm, TLC

CONSTANTS u1, u2

TwoUsers == {u1, u2}
Nothing == {}
Zero == {0}
One == {1}
OneTwoFour == {1, 2, 4}
UpTo2 == 1 .. 2
AnyFee == 0 .. MAX_FEE_BPS + 1
VaultsAllowed == {<<Vault, "Allowed">>}
Symmetry == Permutations(TwoUsers)
=============================================================================
