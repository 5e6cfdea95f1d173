---------------------------- MODULE MCSwapPrice ----------------------------
(* QuoteLaws with the constants of the source for fees and liquidity, the  *)
(* smallest reserves the property tests of math.rs sample (MIN_SIDE), the  *)
(* 30 bps fee of the tests, and swaps of a few base units, so that every   *)
(* product fits the 32-bit integers of TLC.                                *)
EXTENDS QuoteLaws

MCAmounts == 1 .. 5
MCReserves == {10000}
MCFees == {30}
=============================================================================
