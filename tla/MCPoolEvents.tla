---------------------------- MODULE MCPoolEvents ----------------------------
(* A pool with one user, its log, and everything compliance and the        *)
(* issuers may decide between two instructions.                            *)
EXTENDS PoolEvents

CONSTANT u1

OneUser == {u1}
ZeroOrTwo == {0, 2}
One == {1}
UpTo3 == 0 .. 3
AnyPolicy == Accounts \X Status
BothSides == Side
=============================================================================
