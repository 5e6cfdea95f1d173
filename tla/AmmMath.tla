------------------------------ MODULE AmmMath ------------------------------
(***************************************************************************)
(* The arithmetic of the pool: programs/amm/src/math.rs.                   *)
(*                                                                         *)
(* Every quote_* function of the source is two operators here.  The one    *)
(* that keeps the source's name returns the verdict of the call: "Ok", or  *)
(* the MathError of the first check that fails, in the order the source    *)
(* makes them.  The value operators beside it (AmountOut, DepositOf, ...)  *)
(* are what an "Ok" call returns.  Integers are TLA+ integers and the      *)
(* limits of the machine are explicit: u128 arithmetic is checked against  *)
(* U128_MAX, and every u64 that enters or leaves the module against        *)
(* MAX_SUPPLY_CAP (widen and narrow).                                      *)
(*                                                                         *)
(* An operator whose name ends in _Faulty is a wrong version of the one    *)
(* that follows it.  No specification uses it: it takes the place of the   *)
(* right one to confirm that a property would notice the mistake.          *)
(***************************************************************************)
EXTENDS Integers

CONSTANTS
    MAX_SUPPLY_CAP,     \* largest token amount, 10^15 in the source
    MINIMUM_LIQUIDITY,  \* LP tokens locked for ever by the first deposit
    FEE_DENOMINATOR,    \* 10_000: fees are in basis points
    MAX_FEE_BPS,        \* 100, that is 1 %
    U128_MAX            \* largest u128

ASSUME MathAssumption ==
    /\ MAX_SUPPLY_CAP \in Nat
    /\ MINIMUM_LIQUIDITY \in Nat \ {0}
    /\ FEE_DENOMINATOR \in Nat
    /\ MAX_FEE_BPS \in Nat
    /\ MAX_FEE_BPS < FEE_DENOMINATOR
    /\ U128_MAX \in Nat
    /\ MAX_SUPPLY_CAP * MAX_SUPPLY_CAP <= U128_MAX     \* a product of two amounts fits

InRange_Faulty(value) == value <= U128_MAX

(* widen on the way in, narrow on the way out: no amount above the cap.    *)
InRange(value) == value <= MAX_SUPPLY_CAP

(* A checked u128 operation fails when its result does not fit.            *)
Overflows(value) == value > U128_MAX

Lesser_Faulty(a, b) == IF a <= b THEN b ELSE a

Lesser(a, b) == IF a <= b THEN a ELSE b

CeilDiv(numerator, denominator) ==
    IF numerator % denominator = 0
    THEN numerator \div denominator
    ELSE (numerator \div denominator) + 1

(* What integer_sqrt returns: the largest root whose square fits.          *)
IntegerSqrt(value) ==
    CHOOSE root \in 0 .. value : root * root <= value /\ value < (root + 1) * (root + 1)

-----------------------------------------------------------------------------
(* Swaps.                                                                  *)

InWithFee(amount_in, fee_bps) == amount_in * (FEE_DENOMINATOR - fee_bps)

AmountOutFee_Faulty(amount_in, reserve_in, reserve_out, fee_bps) ==
    (InWithFee(amount_in, fee_bps) * reserve_out)
        \div ((reserve_in + amount_in) * FEE_DENOMINATOR)

(* The output is rounded down: the pool keeps the remainder.               *)
AmountOut(amount_in, reserve_in, reserve_out, fee_bps) ==
    (InWithFee(amount_in, fee_bps) * reserve_out)
        \div (reserve_in * FEE_DENOMINATOR + InWithFee(amount_in, fee_bps))

QuoteSwap(amount_in, reserve_in, reserve_out, fee_bps) ==
    LET in_with_fee == InWithFee(amount_in, fee_bps)
        amount_out  == AmountOut(amount_in, reserve_in, reserve_out, fee_bps)
        new_k       == (reserve_in + amount_in) * (reserve_out - amount_out)
    IN  IF amount_in = 0 THEN "ZeroAmount"
        ELSE IF reserve_in = 0 \/ reserve_out = 0 THEN "InsufficientLiquidity"
        ELSE IF fee_bps > MAX_FEE_BPS THEN "InvalidFee"
        ELSE IF ~(InRange(amount_in) /\ InRange(reserve_in) /\ InRange(reserve_out))
             THEN "ValueOutOfRange"
        ELSE IF \/ Overflows(in_with_fee * reserve_out)
                \/ Overflows(reserve_in * FEE_DENOMINATOR + in_with_fee)
             THEN "MathOverflow"
        ELSE IF amount_out = 0 THEN "ZeroOutput"
        ELSE IF amount_out >= reserve_out THEN "InsufficientLiquidity"
        ELSE IF Overflows(reserve_in * reserve_out) \/ Overflows(new_k) THEN "MathOverflow"
        ELSE IF new_k < reserve_in * reserve_out THEN "InvalidLiquidityState"
        ELSE IF ~InRange(reserve_in + amount_in) THEN "ValueOutOfRange"
        ELSE "Ok"

-----------------------------------------------------------------------------
(* The first deposit.                                                      *)

InitialLp(amount_a, amount_b) == IntegerSqrt(amount_a * amount_b)

QuoteInitialLiquidity(amount_a, amount_b) ==
    IF amount_a = 0 \/ amount_b = 0 THEN "ZeroAmount"
    ELSE IF ~(InRange(amount_a) /\ InRange(amount_b)) THEN "ValueOutOfRange"
    ELSE IF Overflows(amount_a * amount_b) THEN "MathOverflow"
    ELSE IF InitialLp(amount_a, amount_b) <= MINIMUM_LIQUIDITY
         THEN "InsufficientInitialLiquidity"
    ELSE IF ~InRange(InitialLp(amount_a, amount_b) - MINIMUM_LIQUIDITY)
         THEN "ValueOutOfRange"
    ELSE "Ok"

-----------------------------------------------------------------------------
(* Later deposits.  The required deposit is rounded up; the side that      *)
(* limits the deposit is taken whole.                                      *)

BOptimal(a_desired, reserve_a, reserve_b) == CeilDiv(a_desired * reserve_b, reserve_a)

AOptimal(b_desired, reserve_a, reserve_b) == CeilDiv(b_desired * reserve_a, reserve_b)

ALimits_Faulty(a_desired, b_desired, reserve_a, reserve_b) ==
    (a_desired * reserve_b) \div reserve_a <= b_desired

ALimits(a_desired, b_desired, reserve_a, reserve_b) ==
    BOptimal(a_desired, reserve_a, reserve_b) <= b_desired

DepositA(a_desired, b_desired, reserve_a, reserve_b) ==
    IF ALimits(a_desired, b_desired, reserve_a, reserve_b)
    THEN a_desired
    ELSE AOptimal(b_desired, reserve_a, reserve_b)

DepositB(a_desired, b_desired, reserve_a, reserve_b) ==
    IF ALimits(a_desired, b_desired, reserve_a, reserve_b)
    THEN BOptimal(a_desired, reserve_a, reserve_b)
    ELSE b_desired

LpMinted_Faulty(amount_a, amount_b, reserve_a, reserve_b, lp_supply) ==
    Lesser(CeilDiv(amount_a * lp_supply, reserve_a), CeilDiv(amount_b * lp_supply, reserve_b))

(* The shares a deposit earns, rounded down on the less favourable side.   *)
LpMinted(amount_a, amount_b, reserve_a, reserve_b, lp_supply) ==
    Lesser((amount_a * lp_supply) \div reserve_a, (amount_b * lp_supply) \div reserve_b)

QuoteAddLiquidity(a_desired, b_desired, reserve_a, reserve_b, lp_supply) ==
    LET amount_a  == DepositA(a_desired, b_desired, reserve_a, reserve_b)
        amount_b  == DepositB(a_desired, b_desired, reserve_a, reserve_b)
        lp_minted == LpMinted(amount_a, amount_b, reserve_a, reserve_b, lp_supply)
    IN  IF a_desired = 0 \/ b_desired = 0 THEN "ZeroAmount"
        ELSE IF reserve_a = 0 \/ reserve_b = 0 THEN "InsufficientLiquidity"
        ELSE IF lp_supply < MINIMUM_LIQUIDITY THEN "InvalidLiquidityState"
        ELSE IF ~(/\ InRange(a_desired) /\ InRange(b_desired)
                  /\ InRange(reserve_a) /\ InRange(reserve_b) /\ InRange(lp_supply))
             THEN "ValueOutOfRange"
        ELSE IF \/ Overflows(a_desired * reserve_b)
                \/ /\ ~ALimits(a_desired, b_desired, reserve_a, reserve_b)
                   /\ Overflows(b_desired * reserve_a)
             THEN "MathOverflow"
        ELSE IF amount_a > a_desired THEN "ValueOutOfRange"
        ELSE IF Overflows(amount_a * lp_supply) \/ Overflows(amount_b * lp_supply)
             THEN "MathOverflow"
        ELSE IF lp_minted = 0 THEN "ZeroOutput"
        ELSE IF ~(/\ InRange(reserve_a + amount_a)
                  /\ InRange(reserve_b + amount_b)
                  /\ InRange(lp_supply + lp_minted))
             THEN "ValueOutOfRange"
        ELSE "Ok"

-----------------------------------------------------------------------------
(* Withdrawals.  Both outputs are rounded down.                            *)

WithdrawnOf_Faulty(lp_amount, reserve, lp_supply) == CeilDiv(lp_amount * reserve, lp_supply)

WithdrawnOf(lp_amount, reserve, lp_supply) == (lp_amount * reserve) \div lp_supply

QuoteRemoveLiquidity(lp_amount, reserve_a, reserve_b, lp_supply) ==
    IF lp_amount = 0 THEN "ZeroAmount"
    ELSE IF reserve_a = 0 \/ reserve_b = 0 THEN "InsufficientLiquidity"
    ELSE IF lp_supply < MINIMUM_LIQUIDITY THEN "InvalidLiquidityState"
    ELSE IF lp_amount > lp_supply THEN "InsufficientLiquidity"
    ELSE IF ~(InRange(lp_supply) /\ InRange(reserve_a) /\ InRange(reserve_b))
         THEN "ValueOutOfRange"
    ELSE IF lp_supply - lp_amount < MINIMUM_LIQUIDITY THEN "InsufficientLiquidity"
    ELSE IF Overflows(lp_amount * reserve_a) \/ Overflows(lp_amount * reserve_b)
         THEN "MathOverflow"
    ELSE IF \/ WithdrawnOf(lp_amount, reserve_a, lp_supply) = 0
            \/ WithdrawnOf(lp_amount, reserve_b, lp_supply) = 0
         THEN "ZeroOutput"
    ELSE "Ok"
=============================================================================
