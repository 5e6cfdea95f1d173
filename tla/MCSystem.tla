------------------------------ MODULE MCSystem ------------------------------
(* A small instance of System.  Both sides pause, issue and burn; side A   *)
(* also blocks.                                                            *)
EXTENDS System

CONSTANTS k1, u1

OneKey == {k1}
OneUser == {u1}
Nothing == {}
Zero == {0}
One == {1}
UpToCap == 1 .. MAX_SUPPLY_CAP
UpTo2 == 1 .. 2
CapOfBoth == BySide({4}, {4})
IssueOfBoth == BySide({2}, {4})
AllowanceOfBoth == BySide({2}, {4})
DecisionsOnBoth == BySide(Accounts \X {"Allowed", "Blocked"}, Accounts \X {"Allowed"})
PausesOnBoth == BySide(BOOLEAN, BOOLEAN)
=============================================================================
