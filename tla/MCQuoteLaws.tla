---------------------------- MODULE MCQuoteLaws ----------------------------
(* Small instance of QuoteLaws: every pool up to a cap of sixteen tokens.     *)
EXTENDS QuoteLaws

MCAmounts == 0 .. MAX_SUPPLY_CAP + 1
MCReserves == 1 .. MAX_SUPPLY_CAP
MCFees == 0 .. MAX_FEE_BPS

ASSUME MCWord == WordFits
=============================================================================
