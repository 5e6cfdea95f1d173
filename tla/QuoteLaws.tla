----------------------------- MODULE QuoteLaws -----------------------------
(***************************************************************************)
(* The laws the quotes of AmmMath keep, for a pool of any shape the        *)
(* program can reach.  The state is all that the quotes read of a pool:    *)
(* its two reserves, the live LP supply and the fee fixed at creation.     *)
(* A step applies one quote the way the handlers do.  Accounts, policies   *)
(* and pauses are the business of module Amm.                              *)
(***************************************************************************)
EXTENDS AmmMath

CONSTANTS
    Amounts,    \* the amounts a caller asks for, 0 and values above the cap included
    Reserves,   \* the reserves a pool starts from
    Fees        \* the fee_bps a pool is created with

ASSUME QuoteAssumption ==
    /\ Amounts \subseteq Nat
    /\ Reserves \subseteq 0 .. MAX_SUPPLY_CAP
    /\ Fees \subseteq 0 .. MAX_FEE_BPS

(* The word has room for what the quotes compute: 10^34 in the source, and *)
(* u128 goes beyond 10^38.                                                 *)
WordFits ==
    /\ FEE_DENOMINATOR * MAX_SUPPLY_CAP * MAX_SUPPLY_CAP <= U128_MAX
    /\ 2 * FEE_DENOMINATOR * MAX_SUPPLY_CAP <= U128_MAX
    /\ 2 * MAX_SUPPLY_CAP * MAX_SUPPLY_CAP <= U128_MAX

VARIABLES reserve_a, reserve_b, lp_supply, fee_bps

vars == <<reserve_a, reserve_b, lp_supply, fee_bps>>

(* A first deposit leaves lp_supply = IntegerSqrt(a * b), and holders may  *)
(* then burn LP tokens down to the locked minimum: these are all the       *)
(* shapes a seeded pool can have.                                          *)
Seeded ==
    /\ reserve_a > 0 /\ reserve_b > 0
    /\ lp_supply >= MINIMUM_LIQUIDITY
    /\ lp_supply * lp_supply <= reserve_a * reserve_b

Init ==
    /\ reserve_a \in Reserves \cup {0}
    /\ reserve_b \in Reserves \cup {0}
    /\ lp_supply \in 0 .. MAX_SUPPLY_CAP
    /\ fee_bps \in Fees
    /\ Seeded \/ (reserve_a = 0 /\ reserve_b = 0 /\ lp_supply = 0)

FirstDeposit(a, b) ==
    /\ lp_supply = 0
    /\ QuoteInitialLiquidity(a, b) = "Ok"
    /\ reserve_a' = a
    /\ reserve_b' = b
    /\ lp_supply' = InitialLp(a, b)
    /\ UNCHANGED fee_bps

Deposit(a, b) ==
    /\ lp_supply > 0
    /\ QuoteAddLiquidity(a, b, reserve_a, reserve_b, lp_supply) = "Ok"
    /\ LET amount_a == DepositA(a, b, reserve_a, reserve_b)
           amount_b == DepositB(a, b, reserve_a, reserve_b)
       IN  /\ reserve_a' = reserve_a + amount_a
           /\ reserve_b' = reserve_b + amount_b
           /\ lp_supply' = lp_supply
                           + LpMinted(amount_a, amount_b, reserve_a, reserve_b, lp_supply)
    /\ UNCHANGED fee_bps

Withdraw(lp) ==
    /\ QuoteRemoveLiquidity(lp, reserve_a, reserve_b, lp_supply) = "Ok"
    /\ reserve_a' = reserve_a - WithdrawnOf(lp, reserve_a, lp_supply)
    /\ reserve_b' = reserve_b - WithdrawnOf(lp, reserve_b, lp_supply)
    /\ lp_supply' = lp_supply - lp
    /\ UNCHANGED fee_bps

SwapAtoB(amount_in) ==
    /\ QuoteSwap(amount_in, reserve_a, reserve_b, fee_bps) = "Ok"
    /\ reserve_a' = reserve_a + amount_in
    /\ reserve_b' = reserve_b - AmountOut(amount_in, reserve_a, reserve_b, fee_bps)
    /\ UNCHANGED <<lp_supply, fee_bps>>

SwapBtoA(amount_in) ==
    /\ QuoteSwap(amount_in, reserve_b, reserve_a, fee_bps) = "Ok"
    /\ reserve_b' = reserve_b + amount_in
    /\ reserve_a' = reserve_a - AmountOut(amount_in, reserve_b, reserve_a, fee_bps)
    /\ UNCHANGED <<lp_supply, fee_bps>>

Next ==
    \/ \E a, b \in Amounts : FirstDeposit(a, b) \/ Deposit(a, b)
    \/ \E n \in Amounts : Withdraw(n) \/ SwapAtoB(n) \/ SwapBtoA(n)

Spec == Init /\ [][Next]_vars

-----------------------------------------------------------------------------
(* No request whatever, out-of-range ones included, makes the checked u128 *)
(* arithmetic overflow: the range checks of widen come first and leave     *)
(* enough room (math.rs, capped_inputs_never_overflow tests the corners).  *)
ArithmeticNeverOverflows ==
    /\ \A n \in Amounts :
         /\ QuoteSwap(n, reserve_a, reserve_b, fee_bps) # "MathOverflow"
         /\ QuoteSwap(n, reserve_b, reserve_a, fee_bps) # "MathOverflow"
         /\ QuoteRemoveLiquidity(n, reserve_a, reserve_b, lp_supply) # "MathOverflow"
    /\ \A a, b \in Amounts :
         /\ QuoteInitialLiquidity(a, b) # "MathOverflow"
         /\ QuoteAddLiquidity(a, b, reserve_a, reserve_b, lp_supply) # "MathOverflow"

(* Rounding alone keeps the product from falling: the k check at the end   *)
(* of quote_swap can never reject a swap.                                  *)
ProductCheckNeverFires ==
    \A n \in Amounts :
        /\ QuoteSwap(n, reserve_a, reserve_b, fee_bps) # "InvalidLiquidityState"
        /\ QuoteSwap(n, reserve_b, reserve_a, fee_bps) # "InvalidLiquidityState"

(* A deposit never takes more of either side than the depositor offered,   *)
(* though the matching side is rounded up.                                 *)
DepositWithinDesired ==
    \A a, b \in Amounts :
        QuoteAddLiquidity(a, b, reserve_a, reserve_b, lp_supply) = "Ok" =>
            /\ DepositA(a, b, reserve_a, reserve_b) \in 1 .. a
            /\ DepositB(a, b, reserve_a, reserve_b) \in 1 .. b

(* Redeeming at once the shares a deposit earned returns at most what the  *)
(* deposit took, on each side (a_deposit_then_full_removal ... in math.rs).*)
DepositThenRemoveNeverProfits ==
    \A a, b \in Amounts :
        LET amount_a == DepositA(a, b, reserve_a, reserve_b)
            amount_b == DepositB(a, b, reserve_a, reserve_b)
            lp       == LpMinted(amount_a, amount_b, reserve_a, reserve_b, lp_supply)
        IN  QuoteAddLiquidity(a, b, reserve_a, reserve_b, lp_supply) = "Ok" =>
                /\ WithdrawnOf(lp, reserve_a + amount_a, lp_supply + lp) <= amount_a
                /\ WithdrawnOf(lp, reserve_b + amount_b, lp_supply + lp) <= amount_b

(* Splitting a swap in two never yields more than one swap of the total:   *)
(* no caller gains by slicing, although every slice is rounded on its own. *)
SplittingNeverPays ==
    \A n, m \in Amounts :
        LET first == AmountOut(n, reserve_a, reserve_b, fee_bps)
        IN  /\ QuoteSwap(n, reserve_a, reserve_b, fee_bps) = "Ok"
            /\ QuoteSwap(m, reserve_a + n, reserve_b - first, fee_bps) = "Ok"
            => first + AmountOut(m, reserve_a + n, reserve_b - first, fee_bps)
                   <= AmountOut(n + m, reserve_a, reserve_b, fee_bps)

(* The value behind one LP token never falls: k' * L^2 >= k * L'^2 for     *)
(* every quote applied to a seeded pool (README.md, security invariants).  *)
ShareValueNeverFalls ==
    [][ lp_supply > 0 =>
          reserve_a' * reserve_b' * lp_supply * lp_supply
            >= reserve_a * reserve_b * lp_supply' * lp_supply' ]_vars

(* A pool that was seeded stays one: no sequence of quotes empties a side  *)
(* or takes the supply below the locked minimum.                           *)
SeededForEver ==
    lp_supply > 0 => Seeded

(* math.rs:734-750, the property test larger_swaps_never_get_a_better_price *)
(* asserts that a larger swap never gets a better price per unit.           *)
LargerSwapsNeverGetABetterPrice ==
    \A smaller, larger \in Amounts :
        /\ smaller < larger
        /\ QuoteSwap(smaller, reserve_a, reserve_b, fee_bps) = "Ok"
        /\ QuoteSwap(larger, reserve_a, reserve_b, fee_bps) = "Ok"
        => AmountOut(smaller, reserve_a, reserve_b, fee_bps) * larger
             >= AmountOut(larger, reserve_a, reserve_b, fee_bps) * smaller
=============================================================================
