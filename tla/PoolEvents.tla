------------------------------ MODULE PoolEvents ------------------------------
(***************************************************************************)
(* The events the amm program writes to its log, and a reader who keeps    *)
(* the books of one pool from them alone: the reserves and the LP supply   *)
(* as reported, and beside them what the reported amounts and shares add   *)
(* up to.                                                                  *)
(* Donations, direct burns of LP tokens, and whatever the issuers do, are  *)
(* not in this log.                                                        *)
(***************************************************************************)
EXTENDS Amm

VARIABLES
    view,       \* fee_bps, reserve and lp_supply as last reported
    net,        \* net[s]: amounts reported in, less amounts reported out
    shares,     \* LP tokens reported as minted, less those reported as burned
    forfeited   \* history: LP tokens their holders have burned themselves

logVars == <<view, net, shares, forfeited>>

Zeros == [s \in Side |-> 0]

EventsInit ==
    /\ Init
    /\ view = [fee_bps |-> 0, reserve |-> Zeros, lp_supply |-> 0]
    /\ net = Zeros /\ shares = 0 /\ forfeited = 0

-----------------------------------------------------------------------------
(* What the reader knows after each event.                                 *)

PoolInitialized(fee) ==
    /\ view' = [view EXCEPT !.fee_bps = fee]
    /\ UNCHANGED <<net, shares>>

LiquidityAdded(amount, lp_minted, reserve_after, lp_supply_after) ==
    /\ view' = [view EXCEPT !.reserve = reserve_after, !.lp_supply = lp_supply_after]
    /\ net' = [s \in Side |-> net[s] + amount[s]]
    /\ shares' = shares + lp_minted

LiquidityRemoved(amount, lp_burned, reserve_after, lp_supply_after) ==
    /\ view' = [view EXCEPT !.reserve = reserve_after, !.lp_supply = lp_supply_after]
    /\ net' = [s \in Side |-> net[s] - amount[s]]
    /\ shares' = shares - lp_burned

(* A swap reports no LP supply: it changes none.                           *)
SwapExecuted(In, amount_in, amount_out, reserve_after) ==
    /\ view' = [view EXCEPT !.reserve = reserve_after]
    /\ net' = [net EXCEPT ![In] = @ + amount_in, ![Other(In)] = @ - amount_out]
    /\ UNCHANGED shares

-----------------------------------------------------------------------------
(* Each instruction with the event it writes.                              *)

InitializePoolEmits(fee) == InitializePool(fee) /\ PoolInitialized(fee)

AddLiquidityEmits_Faulty(u, a, b, a_min, b_min, min_lp_out) ==
    /\ AddLiquidity(u, a, b, a_min, b_min, min_lp_out)
    /\ LiquidityAdded(DepositOf(a, b), LpToUser(a, b) + LpToLock, reserve', ExpectedLpSupply(a, b))

(* The amounts taken, not those offered; lp_minted is the depositor's      *)
(* part, without what the first deposit locks.                             *)
AddLiquidityEmits(u, a, b, a_min, b_min, min_lp_out) ==
    /\ AddLiquidity(u, a, b, a_min, b_min, min_lp_out)
    /\ LiquidityAdded(DepositOf(a, b), LpToUser(a, b), reserve', ExpectedLpSupply(a, b))

RemoveLiquidityEmits(u, n, min_a_out, min_b_out) ==
    /\ RemoveLiquidity(u, n, min_a_out, min_b_out)
    /\ LiquidityRemoved(PayoutOf(n), n, reserve', NewLpSupply(n))

SwapEmits(u, In, amount_in, min_amount_out) ==
    /\ Swap(u, In, amount_in, min_amount_out)
    /\ SwapExecuted(In, amount_in, SwapOut(In, amount_in), reserve')

Announced ==
    /\ \/ \E fee \in Fees : InitializePoolEmits(fee)
       \/ \E u \in Users, a, b \in Amounts, a_min, b_min, min_lp_out \in Minimums :
              AddLiquidityEmits(u, a, b, a_min, b_min, min_lp_out)
       \/ \E u \in Users, n \in LpAmounts, min_a_out, min_b_out \in Minimums :
              RemoveLiquidityEmits(u, n, min_a_out, min_b_out)
       \/ \E u \in Users, In \in Side, amount_in \in Amounts, min_amount_out \in Minimums :
              SwapEmits(u, In, amount_in, min_amount_out)
    /\ UNCHANGED forfeited

Silent ==
    /\ OutsideStep
    /\ forfeited' = forfeited + (lp_supply - lp_supply')
    /\ UNCHANGED <<view, net, shares>>

EventsNext == Announced \/ Silent

EventsSpec == EventsInit /\ [][EventsNext]_<<vars, logVars>>

-----------------------------------------------------------------------------
(* The reader knows the fee, prices the pool exactly and finds the books   *)
(* to balance: the amounts reported add up to the reserves, whatever is    *)
(* donated.  The LP supply last reported is an upper bound, off by no more *)
(* than holders have burned themselves.  The shares reported add up to the *)
(* supply but for exactly those and for the minimum, which no event        *)
(* reports as minted (events.rs).                                          *)
BooksBalance ==
    /\ view.fee_bps = fee_bps
    /\ view.reserve = reserve
    /\ net = reserve
    /\ lp_supply <= view.lp_supply /\ view.lp_supply <= lp_supply + forfeited
    /\ shares + (IF lp_supply = 0 THEN 0 ELSE MINIMUM_LIQUIDITY) = lp_supply + forfeited
=============================================================================
