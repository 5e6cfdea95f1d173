------------------------------ MODULE MCClient ------------------------------
(* The script against one other user of the pool.                          *)
EXTENDS Client

CONSTANTS me, other

Both == {me, other}
FourOfEach == [s \in Side |-> 4]
TwoAndOne == [s \in Side |-> IF s = "A" THEN 2 ELSE 1]
TwelveOfEach == [s \in Side |-> 12]
SomeAmounts == {2, 4}
LargeAmounts == {12, 24}
One == {1}
Zero == {0}
None == {}
=============================================================================
