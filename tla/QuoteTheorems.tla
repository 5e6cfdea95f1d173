--------------------------- MODULE QuoteTheorems ---------------------------
(***************************************************************************)
(* Theorems about module QuoteLaws: the laws of the quotes, for any pool   *)
(* the program can reach, any amounts and any constants that satisfy       *)
(* MathAssumption and QuoteAssumption; overflow, for a word of any width   *)
(* that satisfies WordFits.  At the end module SqrtLoop: the loop of       *)
(* integer_sqrt computes the integer square root the quotes are stated     *)
(* with, and none of its sums overflows, for words of any even width.      *)
(***************************************************************************)
EXTENDS QuoteLaws, SqrtLoop, AmmMathTheorems

-----------------------------------------------------------------------------
(* Overflow.  A product of capped amounts fits the word.                   *)
LEMMA CappedProductFits ==
    ASSUME WordFits, NEW a \in Nat, NEW b \in Nat, InRange(a), InRange(b)
    PROVE  /\ a * b \in Nat /\ ~Overflows(a * b)
           /\ \A c \in 0 .. FEE_DENOMINATOR : ~Overflows((a * c) * b)
<1>1. MAX_SUPPLY_CAP \in Nat /\ FEE_DENOMINATOR \in Nat \ {0} /\ U128_MAX \in Nat
  BY MathAssumption
<1> DEFINE C == MAX_SUPPLY_CAP
           F == FEE_DENOMINATOR
<1>2. a <= C /\ b <= C /\ C \in Nat /\ F \in Nat \ {0}
  BY <1>1 DEF InRange
<1>3. F * C * C <= U128_MAX /\ U128_MAX \in Nat
  BY <1>1 DEF WordFits
<1> HIDE DEF C, F
<1>4. a * b <= C * b /\ C * b <= C * C
  BY <1>2, ProductMonotone
<1>5. a * b \in Nat /\ C * b \in Nat /\ C * C \in Nat
  BY <1>2
<1>6. C * C <= F * (C * C)
  BY <1>2, <1>5
<1>7. F * (C * C) <= U128_MAX
  BY <1>2, <1>3
<1>8. a * b <= U128_MAX
  <2>1. F * (C * C) \in Nat
    BY <1>2, <1>5
  <2> DEFINE x == a * b
             y == C * b
             z == C * C
             t == F * (C * C)
  <2>2. /\ x \in Nat /\ y \in Nat /\ z \in Nat /\ t \in Nat
        /\ x <= y /\ y <= z /\ z <= t /\ t <= U128_MAX
    BY <1>4, <1>5, <1>6, <1>7, <2>1
  <2> HIDE DEF x, y, z, t
  <2>3. x <= U128_MAX
    BY <1>3, <2>2
  <2> QED
    BY <2>3 DEF x
<1>9. ASSUME NEW c \in 0 .. F PROVE ~((a * c) * b > U128_MAX)
  <2>1. c \in Nat /\ c <= F
    BY <1>2
  <2>2. c * (a * b) <= F * (a * b) /\ F * (a * b) <= F * (C * C)
    <3>1. a * b <= C * C
      BY <1>4, <1>5
    <3> QED
      BY <1>2, <1>5, <2>1, <3>1, ProductMonotone
  <2>3. (a * c) * b = c * (a * b)
    BY <1>2, <2>1
  <2>4. c * (a * b) \in Nat /\ F * (a * b) \in Nat /\ F * (C * C) \in Nat
    BY <1>2, <1>5, <2>1
  <2> QED
    BY <1>3, <1>7, <2>2, <2>3, <2>4
<1> QED
  BY <1>1, <1>5, <1>8, <1>9 DEF Overflows, F

LEMMA SwapNeverOverflows ==
    ASSUME WordFits, NEW amount_in \in Nat, NEW reserve_in \in Nat, NEW reserve_out \in Nat,
           NEW fee_bps_ \in 0 .. MAX_FEE_BPS
    PROVE  QuoteSwap(amount_in, reserve_in, reserve_out, fee_bps_) # "MathOverflow"
<1> DEFINE w == InWithFee(amount_in, fee_bps_)
           out == AmountOut(amount_in, reserve_in, reserve_out, fee_bps_)
           new_k == (reserve_in + amount_in) * (reserve_out - out)
<1> SUFFICES ASSUME QuoteSwap(amount_in, reserve_in, reserve_out, fee_bps_) = "MathOverflow"
             PROVE  FALSE
  OBVIOUS
<1>1. /\ reserve_in # 0 /\ reserve_out # 0
      /\ InRange(amount_in) /\ InRange(reserve_in) /\ InRange(reserve_out)
      /\ \/ Overflows(w * reserve_out)
         \/ Overflows(reserve_in * FEE_DENOMINATOR + w)
         \/ Overflows(reserve_in * reserve_out)
         \/ Overflows(new_k)
  BY Zenon DEF QuoteSwap
<1>2. FEE_DENOMINATOR - fee_bps_ \in 0 .. FEE_DENOMINATOR
      /\ FEE_DENOMINATOR - fee_bps_ \in Nat /\ FEE_DENOMINATOR \in Nat
      /\ MAX_SUPPLY_CAP \in Nat /\ U128_MAX \in Nat
  BY MathAssumption
<1>3. w = amount_in * (FEE_DENOMINATOR - fee_bps_)
  BY DEF InWithFee
<1>4. ~Overflows(w * reserve_out) /\ ~Overflows(reserve_in * reserve_out)
  BY <1>1, <1>2, <1>3, CappedProductFits
<1>5. ~Overflows(reserve_in * FEE_DENOMINATOR + w)
  <2> DEFINE C == MAX_SUPPLY_CAP
             F == FEE_DENOMINATOR
             f == FEE_DENOMINATOR - fee_bps_
  <2>1. reserve_in <= C /\ amount_in <= C /\ f <= F /\ C \in Nat /\ F \in Nat /\ f \in Nat
    BY <1>1, <1>2 DEF InRange
  <2>2. 2 * F * C <= U128_MAX /\ U128_MAX \in Nat
    BY <1>2 DEF WordFits
  <2> HIDE DEF C, F, f
  <2>3. reserve_in * F <= C * F
    BY <2>1, ProductMonotone
  <2>4. amount_in * f <= C * f /\ f * C <= F * C
    BY <2>1, ProductMonotone
  <2>5. /\ reserve_in * F \in Nat /\ C * F \in Nat /\ amount_in * f \in Nat
        /\ C * f = f * C /\ F * C = C * F /\ f * C \in Nat
        /\ 2 * F * C = C * F + C * F
    BY <2>1
  <2>6. reserve_in * F + amount_in * f <= U128_MAX
    BY <2>2, <2>3, <2>4, <2>5
  <2>7. ~Overflows(reserve_in * F + amount_in * f)
    BY <2>2, <2>5, <2>6 DEF Overflows
  <2> QED
    BY <1>3, <2>7 DEF F, f
<1>6. ~Overflows(new_k)
  <2> DEFINE C == MAX_SUPPLY_CAP
             left == reserve_out - out
  <2>1. out \in Nat /\ out < reserve_out
    BY <1>1, AmountOutBounds
  <2> HIDE DEF out
  <2>2. left \in Nat /\ left <= C /\ reserve_in + amount_in <= 2 * C
        /\ C \in Nat /\ reserve_in + amount_in \in Nat
    BY <1>1, <1>2, <2>1 DEF InRange
  <2>3. 2 * C * C <= U128_MAX /\ U128_MAX \in Nat
    BY <1>2 DEF WordFits
  <2> DEFINE s == reserve_in + amount_in
  <2> HIDE DEF C, left, s
  <2>4. s \in Nat /\ s <= 2 * C
    BY <2>2 DEF s
  <2>5. s * left <= (2 * C) * left /\ left * (2 * C) <= C * (2 * C)
    BY <2>2, <2>4, ProductMonotone
  <2>6. /\ (2 * C) * left = left * (2 * C) /\ C * (2 * C) = 2 * C * C
        /\ s * left \in Nat /\ left * (2 * C) \in Nat
    BY <2>2, <2>4
  <2>7. s * left <= U128_MAX
    BY <2>2, <2>3, <2>4, <2>5, <2>6
  <2>8. ~Overflows(s * left)
    BY <2>3, <2>6, <2>7 DEF Overflows
  <2> QED
    BY <2>8 DEF s, left
<1> QED
  BY <1>1, <1>4, <1>5, <1>6, Zenon
LEMMA InitialLiquidityNeverOverflows ==
    ASSUME WordFits, NEW amount_a \in Nat, NEW amount_b \in Nat
    PROVE  QuoteInitialLiquidity(amount_a, amount_b) # "MathOverflow"
<1> SUFFICES ASSUME QuoteInitialLiquidity(amount_a, amount_b) = "MathOverflow"
             PROVE  FALSE
  OBVIOUS
<1>1. InRange(amount_a) /\ InRange(amount_b) /\ Overflows(amount_a * amount_b)
  BY Zenon DEF QuoteInitialLiquidity
<1> QED
  BY <1>1, CappedProductFits

LEMMA AddLiquidityNeverOverflows ==
    ASSUME WordFits, NEW a_desired \in Nat, NEW b_desired \in Nat,
           NEW ra \in Nat, NEW rb \in Nat, NEW supply \in Nat
    PROVE  QuoteAddLiquidity(a_desired, b_desired, ra, rb, supply) # "MathOverflow"
<1> DEFINE da == DepositA(a_desired, b_desired, ra, rb)
           db == DepositB(a_desired, b_desired, ra, rb)
<1> SUFFICES ASSUME QuoteAddLiquidity(a_desired, b_desired, ra, rb, supply) = "MathOverflow"
             PROVE  FALSE
  OBVIOUS
<1>1. /\ a_desired # 0 /\ b_desired # 0 /\ ra # 0 /\ rb # 0
      /\ InRange(a_desired) /\ InRange(b_desired)
      /\ InRange(ra) /\ InRange(rb) /\ InRange(supply)
      /\ \/ Overflows(a_desired * rb) \/ Overflows(b_desired * ra)
         \/ Overflows(da * supply) \/ Overflows(db * supply)
  BY Zenon DEF QuoteAddLiquidity
<1>2. ~Overflows(a_desired * rb) /\ ~Overflows(b_desired * ra)
  BY <1>1, CappedProductFits
<1>3. da \in 1 .. a_desired /\ db \in 1 .. b_desired
  BY <1>1, DepositWithinOffer
<1>4. da \in Nat /\ db \in Nat /\ InRange(da) /\ InRange(db)
  BY <1>1, <1>3, MathAssumption DEF InRange
<1>5. ~Overflows(da * supply) /\ ~Overflows(db * supply)
  BY <1>1, <1>4, CappedProductFits
<1> QED
  BY <1>1, <1>2, <1>5, Zenon

LEMMA RemoveLiquidityNeverOverflows ==
    ASSUME WordFits, NEW lp \in Nat, NEW ra \in Nat, NEW rb \in Nat, NEW supply \in Nat
    PROVE  QuoteRemoveLiquidity(lp, ra, rb, supply) # "MathOverflow"
<1> SUFFICES ASSUME QuoteRemoveLiquidity(lp, ra, rb, supply) = "MathOverflow"
             PROVE  FALSE
  OBVIOUS
<1>1. /\ ~(lp > supply) /\ InRange(supply) /\ InRange(ra) /\ InRange(rb)
      /\ Overflows(lp * ra) \/ Overflows(lp * rb)
  BY Zenon DEF QuoteRemoveLiquidity
<1>2. InRange(lp)
  BY <1>1, MathAssumption DEF InRange
<1> QED
  BY <1>1, <1>2, CappedProductFits

-----------------------------------------------------------------------------
(* The inductive invariant: a pool is empty or seeded, within the caps.    *)
Typed ==
    /\ reserve_a \in 0 .. MAX_SUPPLY_CAP
    /\ reserve_b \in 0 .. MAX_SUPPLY_CAP
    /\ lp_supply \in Nat
    /\ fee_bps \in 0 .. MAX_FEE_BPS

Unused == reserve_a = 0 /\ reserve_b = 0 /\ lp_supply = 0

IInv == Typed /\ (Seeded \/ Unused)

LEMMA TypedNats ==
    ASSUME Typed
    PROVE  reserve_a \in Nat /\ reserve_b \in Nat /\ lp_supply \in Nat /\ fee_bps \in Nat
  BY MathAssumption DEF Typed

(* What every quote keeps: the type, a seeded pool, the value of a share.  *)
Keeps ==
    /\ Typed' /\ Seeded'
    /\ lp_supply > 0 =>
          reserve_a * reserve_b * lp_supply' * lp_supply'
            <= reserve_a' * reserve_b' * lp_supply * lp_supply

(* A quote that keeps the value of a share keeps the pool backed.          *)
LEMMA KeepsFromShareValue ==
    ASSUME Typed, Typed', Seeded,
           reserve_a' > 0, reserve_b' > 0, lp_supply' >= MINIMUM_LIQUIDITY,
           reserve_a * reserve_b * lp_supply' * lp_supply'
             <= reserve_a' * reserve_b' * lp_supply * lp_supply
    PROVE  Keeps
<1> DEFINE k == reserve_a * reserve_b
           k2 == reserve_a' * reserve_b'
           l == lp_supply
           l2 == lp_supply'
<1>1. /\ reserve_a \in Nat \ {0} /\ reserve_b \in Nat \ {0}
      /\ reserve_a' \in Nat /\ reserve_b' \in Nat /\ l \in Nat /\ l2 \in Nat
  BY MathAssumption DEF Typed, Seeded
<1>2. k \in Nat \ {0} /\ k2 \in Nat /\ l * l <= k
  <2>1. \A x, y \in Nat \ {0} : x * y \in Nat \ {0}
    OBVIOUS
  <2>2. k \in Nat \ {0}
    BY ONLY <1>1, <2>1
  <2>3. k2 \in Nat
    BY ONLY <1>1, ProductNat
  <2>4. l * l <= k
    BY DEF Seeded
  <2> QED
    BY <2>2, <2>3, <2>4
<1>3. k * l2 * l2 <= k2 * l * l
  OBVIOUS
<1> HIDE DEF k, k2, l, l2
<1>4. l2 * l2 <= k2
  BY <1>1, <1>2, <1>3, BackingFollowsShareValue
<1> QED
  BY <1>4 DEF Keeps, Seeded, k2, l2

LEMMA FirstDepositStep ==
    ASSUME Typed, NEW a \in Nat, NEW b \in Nat, FirstDeposit(a, b)
    PROVE  Keeps
<1> DEFINE l == InitialLp(a, b)
<1>1. /\ lp_supply = 0 /\ reserve_a' = a /\ reserve_b' = b /\ lp_supply' = l
      /\ fee_bps' = fee_bps
      /\ a # 0 /\ b # 0 /\ InRange(a) /\ InRange(b) /\ ~(l <= MINIMUM_LIQUIDITY)
  BY QuoteInitialLiquidityOk DEF FirstDeposit
<1>2. l \in Nat /\ l * l <= a * b
  BY InitialLpBounds
<1> HIDE DEF l
<1>3. Typed'
  BY <1>1, <1>2, MathAssumption DEF Typed, InRange
<1>4. Seeded'
  BY <1>1, <1>2, MathAssumption DEF Seeded
<1> QED
  BY <1>1, <1>3, <1>4 DEF Keeps

LEMMA DepositStep ==
    ASSUME Typed, Seeded, NEW a \in Nat, NEW b \in Nat, Deposit(a, b)
    PROVE  Keeps
<1> DEFINE da == DepositA(a, b, reserve_a, reserve_b)
           db == DepositB(a, b, reserve_a, reserve_b)
           minted == LpMinted(da, db, reserve_a, reserve_b, lp_supply)
<1>1. /\ reserve_a' = reserve_a + da /\ reserve_b' = reserve_b + db
      /\ lp_supply' = lp_supply + minted /\ fee_bps' = fee_bps
      /\ QuoteAddLiquidity(a, b, reserve_a, reserve_b, lp_supply) = "Ok"
  BY DEF Deposit
<1>2. /\ reserve_a \in Nat \ {0} /\ reserve_b \in Nat \ {0} /\ lp_supply \in Nat
      /\ lp_supply >= MINIMUM_LIQUIDITY /\ MINIMUM_LIQUIDITY \in Nat
  BY TypedNats, MathAssumption DEF Seeded
<1>3. /\ a # 0 /\ b # 0
      /\ InRange(reserve_a + da) /\ InRange(reserve_b + db)
  BY <1>1, <1>2, QuoteAddLiquidityOk
<1>4. da \in 1 .. a /\ db \in 1 .. b
  BY <1>2, <1>3, DepositWithinOffer
<1>5. da \in Nat /\ db \in Nat
  BY <1>4
<1> HIDE DEF da, db
<1>6. /\ minted \in Nat
      /\ reserve_a * (lp_supply + minted) <= (reserve_a + da) * lp_supply
      /\ reserve_b * (lp_supply + minted) <= (reserve_b + db) * lp_supply
  BY <1>2, <1>5, LpMintedBounds
<1> HIDE DEF minted
<1>7. Typed'
  BY <1>1, <1>2, <1>3, <1>5, <1>6, MathAssumption DEF Typed, InRange
<1>8. reserve_a * reserve_b * lp_supply' * lp_supply'
        <= reserve_a' * reserve_b' * lp_supply * lp_supply
  <2>1. reserve_a' \in Nat /\ reserve_b' \in Nat /\ lp_supply' \in Nat
    BY <1>1, <1>2, <1>5, <1>6
  <2>2. reserve_a * lp_supply' <= reserve_a' * lp_supply
        /\ reserve_b * lp_supply' <= reserve_b' * lp_supply
    BY <1>1, <1>6
  <2> QED
    BY <1>2, <2>1, <2>2, ShareValueFromRatios
<1>9. reserve_a' > 0 /\ reserve_b' > 0 /\ lp_supply' >= MINIMUM_LIQUIDITY
  BY <1>1, <1>2, <1>5, <1>6
<1> QED
  BY <1>7, <1>8, <1>9, KeepsFromShareValue
LEMMA WithdrawStep ==
    ASSUME Typed, Seeded, NEW lp \in Nat, Withdraw(lp)
    PROVE  Keeps
<1> DEFINE wa == WithdrawnOf(lp, reserve_a, lp_supply)
           wb == WithdrawnOf(lp, reserve_b, lp_supply)
           left == lp_supply - lp
<1>1. /\ reserve_a' = reserve_a - wa /\ reserve_b' = reserve_b - wb
      /\ lp_supply' = left /\ fee_bps' = fee_bps
      /\ QuoteRemoveLiquidity(lp, reserve_a, reserve_b, lp_supply) = "Ok"
  BY DEF Withdraw
<1>2. /\ reserve_a \in Nat \ {0} /\ reserve_b \in Nat \ {0} /\ lp_supply \in Nat \ {0}
      /\ MINIMUM_LIQUIDITY \in Nat \ {0}
  BY TypedNats, MathAssumption DEF Seeded
<1>3. ~(lp > lp_supply) /\ ~(lp_supply - lp < MINIMUM_LIQUIDITY)
  BY <1>1, <1>2, QuoteRemoveLiquidityOk
<1>4. lp \in 0 .. lp_supply /\ left \in Nat \ {0} /\ left >= MINIMUM_LIQUIDITY
  BY <1>2, <1>3
<1>5. /\ wa \in 0 .. reserve_a /\ wb \in 0 .. reserve_b
      /\ reserve_a * left <= (reserve_a - wa) * lp_supply
      /\ reserve_b * left <= (reserve_b - wb) * lp_supply
  BY <1>2, <1>4, WithdrawnOfBounds
<1> HIDE DEF wa, wb, left
<1>6. /\ reserve_a - wa \in Nat /\ reserve_a - wa <= reserve_a
      /\ reserve_b - wb \in Nat /\ reserve_b - wb <= reserve_b
  BY <1>2, <1>5
<1>7. Typed'
  BY <1>1, <1>2, <1>4, <1>6, MathAssumption DEF Typed
<1>8. reserve_a' > 0 /\ reserve_b' > 0
  <2>1. \A r, x, y \in Nat : r * left <= x * y /\ r > 0 => x > 0
    <3>1. SUFFICES ASSUME NEW r \in Nat, NEW y \in Nat, r * left <= 0 * y, r > 0 PROVE FALSE
      OBVIOUS
    <3>2. 0 * y = 0 /\ r * left > 0
      BY <1>4, <3>1
    <3> QED
      BY <1>4, <3>1, <3>2
  <2> QED
    BY <1>1, <1>2, <1>5, <1>6, <2>1
<1>9. reserve_a * reserve_b * lp_supply' * lp_supply'
        <= reserve_a' * reserve_b' * lp_supply * lp_supply
  BY <1>1, <1>2, <1>4, <1>5, <1>6, ShareValueFromRatios
<1> QED
  BY <1>1, <1>4, <1>7, <1>8, <1>9, KeepsFromShareValue

(* A swap, in either direction: the product of the reserves does not fall. *)
LEMMA SwappedReserves ==
    ASSUME NEW n \in Nat, NEW ri \in 0 .. MAX_SUPPLY_CAP, NEW ro \in 0 .. MAX_SUPPLY_CAP,
           NEW fee \in 0 .. MAX_FEE_BPS, QuoteSwap(n, ri, ro, fee) = "Ok"
    PROVE  /\ ri + n \in 1 .. MAX_SUPPLY_CAP
           /\ ro - AmountOut(n, ri, ro, fee) \in 1 .. MAX_SUPPLY_CAP
           /\ ri * ro <= (ri + n) * (ro - AmountOut(n, ri, ro, fee))
<1> DEFINE out == AmountOut(n, ri, ro, fee)
<1>1. ri \in Nat /\ ro \in Nat /\ fee \in Nat /\ MAX_SUPPLY_CAP \in Nat
  BY MathAssumption
<1>2. ri # 0 /\ ro # 0 /\ InRange(ri + n)
  BY <1>1, QuoteSwapOk
<1>3. ri \in Nat \ {0} /\ ro \in Nat \ {0}
  BY <1>1, <1>2
<1>4. out \in Nat /\ out < ro /\ ri * ro <= (ri + n) * (ro - out)
  <2>1. (ri + n) * (ro - out) >= ri * ro
    BY <1>3, SwapKeepsProduct
  <2>2. out \in Nat /\ out < ro
    BY <1>3, AmountOutBounds
  <2> HIDE DEF out
  <2> QED
    BY <1>3, <2>1, <2>2
<1> HIDE DEF out
<1>5. ri + n \in 1 .. MAX_SUPPLY_CAP
  BY <1>1, <1>2, <1>3 DEF InRange
<1>6. ro - out \in 1 .. MAX_SUPPLY_CAP
  BY <1>1, <1>3, <1>4
<1> QED
  BY <1>4, <1>5, <1>6 DEF out

LEMMA ProductKeepsShareValue ==
    ASSUME NEW k \in Nat, NEW k2 \in Nat, NEW l \in Nat, k <= k2
    PROVE  k * l * l <= k2 * l * l
<1>1. k * (l * l) <= k2 * (l * l)
  BY ProductMonotone, ProductNat
<1>2. k * l * l = k * (l * l) /\ k2 * l * l = k2 * (l * l)
  OBVIOUS
<1> QED
  BY <1>1, <1>2

LEMMA SwapStep ==
    ASSUME Typed, Seeded, NEW n \in Nat, SwapAtoB(n) \/ SwapBtoA(n)
    PROVE  Keeps
<1>1. /\ reserve_a \in 0 .. MAX_SUPPLY_CAP /\ reserve_b \in 0 .. MAX_SUPPLY_CAP
      /\ fee_bps \in 0 .. MAX_FEE_BPS
      /\ reserve_a \in Nat /\ reserve_b \in Nat /\ lp_supply \in Nat
  BY TypedNats DEF Typed
<1>2. /\ reserve_a' \in 1 .. MAX_SUPPLY_CAP /\ reserve_b' \in 1 .. MAX_SUPPLY_CAP
      /\ reserve_a * reserve_b <= reserve_a' * reserve_b'
      /\ UNCHANGED <<lp_supply, fee_bps>>
  <2>1. CASE SwapAtoB(n)
    BY <1>1, <2>1, SwappedReserves DEF SwapAtoB
  <2>2. CASE SwapBtoA(n)
    <3>1. /\ QuoteSwap(n, reserve_b, reserve_a, fee_bps) = "Ok"
          /\ reserve_b' = reserve_b + n
          /\ reserve_a' = reserve_a - AmountOut(n, reserve_b, reserve_a, fee_bps)
          /\ UNCHANGED <<lp_supply, fee_bps>>
      BY <2>2 DEF SwapBtoA
    <3>2. /\ reserve_b' \in 1 .. MAX_SUPPLY_CAP /\ reserve_a' \in 1 .. MAX_SUPPLY_CAP
          /\ reserve_b * reserve_a <= reserve_b' * reserve_a'
      BY <1>1, <3>1, SwappedReserves
    <3>3. reserve_a' \in Nat /\ reserve_b' \in Nat
      BY <3>2, MathAssumption
    <3>4. reserve_b * reserve_a = reserve_a * reserve_b /\ reserve_b' * reserve_a' = reserve_a' * reserve_b'
      BY ONLY <1>1, <3>3
    <3> QED
      BY <3>1, <3>2, <3>4
  <2> QED
    BY <2>1, <2>2
<1>3. Typed'
  BY <1>1, <1>2, MathAssumption DEF Typed
<1>4. reserve_a' \in Nat /\ reserve_b' \in Nat
  BY <1>2, MathAssumption
<1>5. reserve_a * reserve_b * lp_supply' * lp_supply'
        <= reserve_a' * reserve_b' * lp_supply * lp_supply
  BY <1>1, <1>2, <1>4, ProductKeepsShareValue, ProductNat
<1>6. reserve_a' > 0 /\ reserve_b' > 0 /\ lp_supply' >= MINIMUM_LIQUIDITY
  BY <1>2, MathAssumption DEF Seeded
<1> QED
  BY <1>3, <1>5, <1>6, KeepsFromShareValue
(* Empty pools only take a first deposit; seeded ones stay seeded.         *)
LEMMA StepKeeps ==
    ASSUME IInv, Next
    PROVE  Keeps
<1>1. CASE \E a, b \in Amounts : FirstDeposit(a, b) \/ Deposit(a, b)
  <2>1. PICK a, b \in Amounts : FirstDeposit(a, b) \/ Deposit(a, b)
    BY <1>1
  <2>2. a \in Nat /\ b \in Nat
    BY QuoteAssumption
  <2>3. CASE FirstDeposit(a, b)
    BY <2>2, <2>3, FirstDepositStep DEF IInv
  <2>4. CASE Deposit(a, b)
    <3>1. Seeded
      BY <2>4 DEF IInv, Unused, Deposit
    <3> QED
      BY <2>2, <2>4, <3>1, DepositStep DEF IInv
  <2> QED
    BY <2>1, <2>3, <2>4
<1>2. CASE \E n \in Amounts : Withdraw(n) \/ SwapAtoB(n) \/ SwapBtoA(n)
  <2>1. PICK n \in Amounts : Withdraw(n) \/ SwapAtoB(n) \/ SwapBtoA(n)
    BY <1>2
  <2>2. n \in Nat
    BY QuoteAssumption
  <2>3. reserve_a \in Nat /\ reserve_b \in Nat /\ lp_supply \in Nat /\ fee_bps \in Nat
    BY TypedNats DEF IInv
  <2>4. reserve_a # 0
    <3>1. CASE Withdraw(n)
      BY <2>2, <2>3, <3>1, QuoteRemoveLiquidityOk DEF Withdraw
    <3>2. CASE SwapAtoB(n)
      BY <2>2, <2>3, <3>2, QuoteSwapOk DEF SwapAtoB
    <3>3. CASE SwapBtoA(n)
      BY <2>2, <2>3, <3>3, QuoteSwapOk DEF SwapBtoA
    <3> QED
      BY <2>1, <3>1, <3>2, <3>3
  <2>5. Seeded
    BY <2>4 DEF IInv, Unused
  <2>6. CASE Withdraw(n)
    BY <2>2, <2>5, <2>6, WithdrawStep DEF IInv
  <2>7. CASE SwapAtoB(n) \/ SwapBtoA(n)
    BY <2>2, <2>5, <2>7, SwapStep DEF IInv
  <2> QED
    BY <2>1, <2>6, <2>7
<1> QED
  BY <1>1, <1>2 DEF Next

(* Every reachable pool is typed, and empty or seeded.                     *)
THEOREM InductiveInvariant == Spec => []IInv
<1>1. Init => IInv
  <2>1. MAX_SUPPLY_CAP \in Nat
    BY MathAssumption
  <2> QED
    BY <2>1, QuoteAssumption DEF Init, IInv, Typed, Unused
<1>2. IInv /\ [Next]_vars => IInv'
  <2>1. IInv /\ Next => IInv'
    BY StepKeeps DEF IInv, Keeps
  <2>2. IInv /\ UNCHANGED vars => IInv'
    BY DEF vars, IInv, Typed, Seeded, Unused
  <2> QED
    BY <2>1, <2>2
<1> QED
  BY <1>1, <1>2, PTL DEF Spec

(* No sequence of quotes empties a seeded pool.                            *)
THEOREM StaysSeeded == Spec => []SeededForEver
<1>1. IInv => SeededForEver
  BY DEF IInv, Unused, SeededForEver
<1> QED
  BY <1>1, InductiveInvariant, PTL

(* No quote lowers the value of a share.                                   *)
THEOREM QuotesKeepShareValue == Spec => ShareValueNeverFalls
<1>1. IInv /\ IInv' /\ [Next]_vars
        => [ lp_supply > 0 =>
               reserve_a' * reserve_b' * lp_supply * lp_supply
                 >= reserve_a * reserve_b * lp_supply' * lp_supply' ]_vars
  <2> SUFFICES ASSUME IInv, IInv', Next, lp_supply > 0
               PROVE  reserve_a' * reserve_b' * lp_supply * lp_supply
                        >= reserve_a * reserve_b * lp_supply' * lp_supply'
    OBVIOUS
  <2> DEFINE x == reserve_a' * reserve_b' * lp_supply * lp_supply
             y == reserve_a * reserve_b * lp_supply' * lp_supply'
  <2>1. y <= x
    BY StepKeeps DEF Keeps
  <2>2. /\ reserve_a \in Nat /\ reserve_b \in Nat /\ lp_supply \in Nat
        /\ reserve_a' \in Nat /\ reserve_b' \in Nat /\ lp_supply' \in Nat
    BY MathAssumption DEF IInv, Typed
  <2>3. \A p, q, r, s \in Nat : p * q * r * s \in Nat
    BY ProductNat
  <2>4. x \in Nat /\ y \in Nat
    BY ONLY <2>2, <2>3
  <2> HIDE DEF x, y
  <2>5. x >= y
    BY <2>1, <2>4
  <2> QED
    BY <2>5 DEF x, y
<1> QED
  BY <1>1, InductiveInvariant, PTL DEF Spec, ShareValueNeverFalls

-----------------------------------------------------------------------------
(* The laws of single quotes.                                              *)

(* No request overflows the word, if the word has room for the caps.       *)
THEOREM NoOverflow ==
    ASSUME WordFits
    PROVE  Spec => []ArithmeticNeverOverflows
<1>1. IInv => ArithmeticNeverOverflows
  <2> SUFFICES ASSUME IInv PROVE ArithmeticNeverOverflows
    OBVIOUS
  <2>1. /\ reserve_a \in Nat /\ reserve_b \in Nat /\ lp_supply \in Nat
        /\ fee_bps \in 0 .. MAX_FEE_BPS
    BY TypedNats DEF IInv, Typed
  <2>2. \A n \in Amounts : n \in Nat
    BY QuoteAssumption
  <2>3. \A n \in Amounts :
            /\ QuoteSwap(n, reserve_a, reserve_b, fee_bps) # "MathOverflow"
            /\ QuoteSwap(n, reserve_b, reserve_a, fee_bps) # "MathOverflow"
            /\ QuoteRemoveLiquidity(n, reserve_a, reserve_b, lp_supply) # "MathOverflow"
    BY <2>1, <2>2, SwapNeverOverflows, RemoveLiquidityNeverOverflows
  <2>4. \A a, b \in Amounts :
            /\ QuoteInitialLiquidity(a, b) # "MathOverflow"
            /\ QuoteAddLiquidity(a, b, reserve_a, reserve_b, lp_supply) # "MathOverflow"
    BY <2>1, <2>2, InitialLiquidityNeverOverflows, AddLiquidityNeverOverflows
  <2> QED
    BY <2>3, <2>4 DEF ArithmeticNeverOverflows
<1> QED
  BY <1>1, InductiveInvariant, PTL

LEMMA ProductCheckPasses ==
    ASSUME NEW n \in Nat, NEW ri \in Nat, NEW ro \in Nat, NEW fee \in 0 .. MAX_FEE_BPS
    PROVE  QuoteSwap(n, ri, ro, fee) # "InvalidLiquidityState"
<1> DEFINE new_k == (ri + n) * (ro - AmountOut(n, ri, ro, fee))
<1> SUFFICES ASSUME QuoteSwap(n, ri, ro, fee) = "InvalidLiquidityState"
             PROVE  FALSE
  OBVIOUS
<1>1. ri # 0 /\ ro # 0 /\ new_k < ri * ro
  BY Zenon DEF QuoteSwap
<1>2. new_k >= ri * ro
  BY <1>1, SwapKeepsProduct
<1>3. new_k \in Int /\ ri * ro \in Int
  <2>1. AmountOut(n, ri, ro, fee) \in Nat
    BY <1>1, AmountOutBounds
  <2> DEFINE out == AmountOut(n, ri, ro, fee)
  <2> HIDE DEF out
  <2>2. (ri + n) * (ro - out) \in Int /\ ri * ro \in Int
    BY <2>1 DEF out
  <2> QED
    BY <2>2 DEF out
<1> HIDE DEF new_k
<1> QED
  BY <1>1, <1>2, <1>3

(* The product check of quote_swap rejects nothing.                        *)
THEOREM ProductCheckIsRedundant == Spec => []ProductCheckNeverFires
<1>1. IInv => ProductCheckNeverFires
  BY ProductCheckPasses, TypedNats, QuoteAssumption DEF IInv, Typed, ProductCheckNeverFires
<1> QED
  BY <1>1, InductiveInvariant, PTL

(* No deposit takes more than was offered.                                 *)
THEOREM DepositsWithinOffer == Spec => []DepositWithinDesired
<1>1. IInv => DepositWithinDesired
  <2> SUFFICES ASSUME IInv, NEW a \in Amounts, NEW b \in Amounts,
                      QuoteAddLiquidity(a, b, reserve_a, reserve_b, lp_supply) = "Ok"
               PROVE  /\ DepositA(a, b, reserve_a, reserve_b) \in 1 .. a
                      /\ DepositB(a, b, reserve_a, reserve_b) \in 1 .. b
    BY DEF DepositWithinDesired
  <2>1. a \in Nat /\ b \in Nat /\ reserve_a \in Nat /\ reserve_b \in Nat /\ lp_supply \in Nat
    BY TypedNats, QuoteAssumption DEF IInv
  <2>2. a # 0 /\ b # 0 /\ reserve_a # 0 /\ reserve_b # 0
    BY <2>1, QuoteAddLiquidityOk
  <2> QED
    BY <2>1, <2>2, DepositWithinOffer
<1> QED
  BY <1>1, InductiveInvariant, PTL

(* A share of the pool after the deposit that earned it is worth at most   *)
(* that deposit.                                                           *)
LEMMA RedeemedAtMost ==
    ASSUME NEW r \in Nat, NEW d \in Nat, NEW l \in Nat \ {0}, NEW m \in Nat,
           r * (l + m) <= (r + d) * l
    PROVE  WithdrawnOf(m, r + d, l + m) <= d
<1> DEFINE w == WithdrawnOf(m, r + d, l + m)
<1>1. w \in Nat /\ w * (l + m) <= m * (r + d)
  <2>1. m * (r + d) \in Nat /\ l + m \in Nat \ {0}
    BY ProductNat
  <2> QED
    BY <2>1, DivBounds DEF WithdrawnOf
<1> HIDE DEF w
<1>2. r * m <= d * l
  OBVIOUS
<1>3. m * (r + d) = r * m + d * m /\ d * (l + m) = d * l + d * m
  OBVIOUS
<1>4. w * (l + m) <= d * (l + m)
  BY <1>1, <1>2, <1>3
<1>5. w <= d
  BY <1>1, <1>4, ProductCancel
<1> QED
  BY <1>5 DEF w

(* Nobody profits by depositing and redeeming at once.                     *)
THEOREM RoundTripNeverProfits == Spec => []DepositThenRemoveNeverProfits
<1>1. IInv => DepositThenRemoveNeverProfits
  <2> SUFFICES ASSUME IInv, NEW a \in Amounts, NEW b \in Amounts,
                      QuoteAddLiquidity(a, b, reserve_a, reserve_b, lp_supply) = "Ok"
               PROVE  LET da == DepositA(a, b, reserve_a, reserve_b)
                          db == DepositB(a, b, reserve_a, reserve_b)
                          lp == LpMinted(da, db, reserve_a, reserve_b, lp_supply)
                      IN  /\ WithdrawnOf(lp, reserve_a + da, lp_supply + lp) <= da
                          /\ WithdrawnOf(lp, reserve_b + db, lp_supply + lp) <= db
    BY DEF DepositThenRemoveNeverProfits
  <2> DEFINE da == DepositA(a, b, reserve_a, reserve_b)
             db == DepositB(a, b, reserve_a, reserve_b)
             lp == LpMinted(da, db, reserve_a, reserve_b, lp_supply)
  <2>1. a \in Nat /\ b \in Nat /\ reserve_a \in Nat /\ reserve_b \in Nat /\ lp_supply \in Nat
    BY TypedNats, QuoteAssumption DEF IInv
  <2>2. /\ a # 0 /\ b # 0 /\ reserve_a # 0 /\ reserve_b # 0
        /\ ~(lp_supply < MINIMUM_LIQUIDITY)
    BY <2>1, QuoteAddLiquidityOk
  <2>3. da \in 1 .. a /\ db \in 1 .. b
    BY <2>1, <2>2, DepositWithinOffer
  <2>4. da \in Nat /\ db \in Nat /\ lp_supply \in Nat \ {0}
    BY <2>1, <2>2, <2>3, MathAssumption
  <2> HIDE DEF da, db
  <2>5. /\ lp \in Nat
        /\ reserve_a * (lp_supply + lp) <= (reserve_a + da) * lp_supply
        /\ reserve_b * (lp_supply + lp) <= (reserve_b + db) * lp_supply
    BY <2>1, <2>2, <2>4, LpMintedBounds
  <2> HIDE DEF lp
  <2>6. /\ WithdrawnOf(lp, reserve_a + da, lp_supply + lp) <= da
        /\ WithdrawnOf(lp, reserve_b + db, lp_supply + lp) <= db
    BY <2>1, <2>4, <2>5, RedeemedAtMost
  <2> QED
    BY <2>6 DEF da, db, lp
<1> QED
  BY <1>1, InductiveInvariant, PTL
-----------------------------------------------------------------------------
(* Splitting a swap.  What the first part pays to the pool, its fee        *)
(* included, counts against the second part, so the two together take at   *)
(* most what one swap of the sum would.                                    *)
LEMMA SplitArithmetic ==
    ASSUME NEW na \in Nat, NEW ma \in Nat, NEW d \in Nat, NEW d2 \in Nat, NEW y \in Nat,
           NEW o1 \in 0 .. y, NEW o2 \in Nat,
           o1 * (d + na) <= na * y, d + na <= d2, o2 * (d2 + ma) <= ma * (y - o1)
    PROVE  (o1 + o2) * (d + (na + ma)) <= (na + ma) * y
<1>1. o1 \in Nat /\ y - o1 \in Nat
  OBVIOUS
<1>2. o2 * (d + na + ma) <= o2 * (d2 + ma)
  <2>1. (d + na + ma) * o2 <= (d2 + ma) * o2
    BY ProductMonotone
  <2> QED
    BY <2>1
<1>3. o2 * (d + na + ma) <= ma * (y - o1)
  <2>1. o2 * (d + na + ma) \in Nat /\ o2 * (d2 + ma) \in Nat /\ ma * (y - o1) \in Nat
    BY <1>1, ProductNat
  <2> DEFINE p == o2 * (d + na + ma)
             q == o2 * (d2 + ma)
             r == ma * (y - o1)
  <2>2. p \in Nat /\ q \in Nat /\ r \in Nat /\ p <= q /\ q <= r
    BY <1>2, <2>1
  <2> HIDE DEF p, q, r
  <2>3. p <= r
    BY <2>2
  <2> QED
    BY <2>3 DEF p, r
<1>4. (o1 + o2) * (d + (na + ma)) = o1 * (d + na) + o1 * ma + o2 * (d + na + ma)
  BY <1>1
<1>5. ma * (y - o1) = ma * y - o1 * ma /\ (na + ma) * y = na * y + ma * y
  BY <1>1
<1> DEFINE u == o1 * (d + na)
           v == o1 * ma
           w == o2 * (d + na + ma)
<1>6. /\ u \in Nat /\ v \in Nat /\ w \in Nat /\ na * y \in Nat /\ ma * y \in Nat
      /\ u <= na * y /\ w <= ma * y - v
  BY <1>1, <1>3, <1>5, ProductNat
<1>7. u + v + w <= na * y + ma * y
  <2> DEFINE s == na * y
             t == ma * y
  <2>1. /\ u \in Nat /\ v \in Nat /\ w \in Nat /\ s \in Nat /\ t \in Nat
        /\ u <= s /\ w <= t - v
    BY <1>6
  <2> HIDE DEF u, v, w, s, t
  <2>2. u + v + w <= s + t
    BY <2>1
  <2> QED
    BY <2>2 DEF s, t
<1> QED
  BY <1>4, <1>5, <1>7

LEMMA SplitSwap ==
    ASSUME NEW n \in Nat, NEW m \in Nat, NEW ri \in Nat \ {0}, NEW ro \in Nat \ {0},
           NEW fee \in 0 .. MAX_FEE_BPS
    PROVE  LET first == AmountOut(n, ri, ro, fee)
           IN  first + AmountOut(m, ri + n, ro - first, fee) <= AmountOut(n + m, ri, ro, fee)
<1> DEFINE f == FEE_DENOMINATOR - fee
           F == FEE_DENOMINATOR
           na == n * f
           ma == m * f
           d == ri * F
           d2 == (ri + n) * F
           o1 == AmountOut(n, ri, ro, fee)
           o2 == AmountOut(m, ri + n, ro - o1, fee)
<1>1. f \in Nat /\ F \in Nat \ {0} /\ f <= F
  BY MathAssumption
<1>2. o1 = (na * ro) \div (d + na)
  BY DEF AmountOut, InWithFee
<1>3. o2 = (ma * (ro - o1)) \div (d2 + ma)
  BY DEF AmountOut, InWithFee
<1>4. AmountOut(n + m, ri, ro, fee) = (((n + m) * f) * ro) \div (d + (n + m) * f)
  BY DEF AmountOut, InWithFee
<1>5. o1 \in Nat /\ o1 < ro
  BY AmountOutBounds
<1> HIDE DEF o1, o2
<1>6. (n + m) * f = na + ma
  BY <1>1
<1>7. /\ na \in Nat /\ ma \in Nat /\ d \in Nat \ {0} /\ d2 \in Nat \ {0}
      /\ d + na <= d2 /\ o1 \in 0 .. ro /\ ro - o1 \in Nat
  <2>1. na \in Nat /\ ma \in Nat
    BY <1>1, ProductNat
  <2>2. d \in Nat \ {0} /\ d2 \in Nat \ {0} /\ d2 = d + n * F
    BY <1>1
  <2>3. f * n <= F * n
    BY <1>1, ProductMonotone
  <2>4. na <= n * F
    BY <1>1, <2>3
  <2> QED
    BY <1>1, <1>5, <2>1, <2>2, <2>4
<1> HIDE DEF f, na, ma, d, d2
<1>8. o1 * (d + na) <= na * ro
  <2>1. na * ro \in Nat /\ d + na \in Nat \ {0}
    BY <1>7, ProductNat
  <2> QED
    BY <1>2, <2>1, DivBounds
<1>9. o2 \in Nat /\ o2 * (d2 + ma) <= ma * (ro - o1)
  <2>1. ma * (ro - o1) \in Nat /\ d2 + ma \in Nat \ {0}
    BY <1>7, ProductNat
  <2> QED
    BY <1>3, <2>1, DivBounds
<1>10. (o1 + o2) * (d + (na + ma)) <= (na + ma) * ro
  BY <1>7, <1>8, <1>9, SplitArithmetic
<1>11. o1 + o2 <= ((na + ma) * ro) \div (d + (na + ma))
  <2>1. o1 + o2 \in Nat /\ d + (na + ma) \in Nat \ {0} /\ (na + ma) * ro \in Nat
    BY <1>5, <1>7, <1>9, ProductNat
  <2> QED
    BY <1>10, <2>1, DivIsLargest
<1> QED
  BY <1>4, <1>6, <1>11 DEF o1, o2

(* Nobody gains by slicing a swap.                                         *)
THEOREM SplittingIsNoGain == Spec => []SplittingNeverPays
<1>1. IInv => SplittingNeverPays
  <2> SUFFICES ASSUME IInv, NEW n \in Amounts, NEW m \in Amounts,
                      QuoteSwap(n, reserve_a, reserve_b, fee_bps) = "Ok"
               PROVE  LET first == AmountOut(n, reserve_a, reserve_b, fee_bps)
                      IN  first + AmountOut(m, reserve_a + n, reserve_b - first, fee_bps)
                            <= AmountOut(n + m, reserve_a, reserve_b, fee_bps)
    BY DEF SplittingNeverPays
  <2>1. /\ n \in Nat /\ m \in Nat /\ reserve_a \in Nat /\ reserve_b \in Nat
        /\ fee_bps \in 0 .. MAX_FEE_BPS /\ fee_bps \in Nat
    BY TypedNats, QuoteAssumption DEF IInv, Typed
  <2>2. reserve_a # 0 /\ reserve_b # 0
    BY <2>1, QuoteSwapOk
  <2> QED
    BY <2>1, <2>2, SplitSwap
<1> QED
  BY <1>1, InductiveInvariant, PTL

-----------------------------------------------------------------------------
(* The loop of integer_sqrt.                                               *)

(* While looking for the top digit, value still fits under four times bit; *)
(* once a digit is found, bit has left the top of the word.                *)
Scaled ==
    /\ pc = "scale" => value >= 2 /\ bit \in Bits /\ value < 4 * bit
                       /\ root = 0 /\ remainder = value
    /\ pc = "digits" => /\ bit \in Bits \cup {0}
                        /\ root # 0 /\ bit # 0 => 4 * bit <= TOP_BIT

LoopTyped ==
    /\ pc \in {"scale", "digits", "done"}
    /\ value \in 0 .. U128_MAX
    /\ bit \in 0 .. TOP_BIT
    /\ remainder \in Nat /\ root \in Nat

LoopInv == LoopTyped /\ Scaled /\ Restoring /\ RootIsExact

LEMMA BitsAreScaled ==
    ASSUME NEW b \in Bits
    PROVE  /\ b \in Nat \ {0}
           /\ b \div 4 \in Bits \cup {0}
           /\ b # 1 => b = 4 * (b \div 4) /\ b \div 4 \in Bits
           /\ b = 1 => b \div 4 = 0
  BY SqrtAssumption

(* The integer square root is the only number its definition describes.    *)
LEMMA IntegerSqrtIsUnique ==
    ASSUME NEW v \in Nat, NEW r \in Nat, r * r <= v, v < (r + 1) * (r + 1)
    PROVE  r = IntegerSqrt(v)
<1> DEFINE s == IntegerSqrt(v)
<1>1. s \in Nat /\ s * s <= v /\ v < (s + 1) * (s + 1)
  BY IntegerSqrtBounds
<1> HIDE DEF s
<1>2. ~(r < s)
  <2>1. ASSUME r < s PROVE FALSE
    <3>1. r + 1 <= s
      BY <1>1, <2>1
    <3>2. (r + 1) * (r + 1) <= s * (r + 1) /\ (r + 1) * s <= s * s
      BY <1>1, <3>1, ProductMonotone
    <3>3. (r + 1) * (r + 1) \in Nat /\ s * (r + 1) \in Nat /\ (r + 1) * s = s * (r + 1) /\ s * s \in Nat
      BY <1>1
    <3> QED
      BY <1>1, <3>2, <3>3
  <2> QED
    BY <2>1
<1>3. ~(s < r)
  <2>1. ASSUME s < r PROVE FALSE
    <3>1. s + 1 <= r
      BY <1>1, <2>1
    <3>2. (s + 1) * (s + 1) <= r * (s + 1) /\ (s + 1) * r <= r * r
      BY <1>1, <3>1, ProductMonotone
    <3>3. (s + 1) * (s + 1) \in Nat /\ r * (s + 1) \in Nat /\ (s + 1) * r = r * (s + 1) /\ r * r \in Nat
      BY <1>1
    <3> QED
      BY <1>1, <3>2, <3>3
  <2> QED
    BY <2>1
<1> QED
  BY <1>1, <1>2, <1>3 DEF s

-----------------------------------------------------------------------------
LEMMA LoopInitIsInductive ==
    ASSUME LoopInit
    PROVE  LoopInv
<1>1. TOP_BIT \in Nat \ {0} /\ U128_MAX = 4 * TOP_BIT - 1 /\ TOP_BIT \in Bits
  BY SqrtAssumption
<1>2. value \in 0 .. U128_MAX /\ value \in Nat
  BY <1>1 DEF LoopInit
<1>3. CASE value < 2
  <2>1. pc = "done" /\ bit = 0 /\ remainder = value /\ root = value
    BY <1>3 DEF LoopInit
  <2>2. root * root <= value /\ value < (root + 1) * (root + 1)
    <3>1. value = 0 \/ value = 1
      BY <1>2, <1>3
    <3> QED
      BY <2>1, <3>1
  <2>3. root = IntegerSqrt(value)
    BY <1>2, <2>1, <2>2, IntegerSqrtIsUnique
  <2>4. LoopTyped
    BY <1>1, <1>2, <2>1 DEF LoopTyped
  <2>5. Scaled /\ Restoring
    BY <2>1 DEF Scaled, Restoring
  <2>6. RootIsExact
    BY <2>3 DEF RootIsExact
  <2> QED
    BY <2>4, <2>5, <2>6 DEF LoopInv
<1>4. CASE ~(value < 2)
  <2>1. pc = "scale" /\ bit = TOP_BIT /\ remainder = value /\ root = 0
    BY <1>4 DEF LoopInit
  <2> QED
    BY <1>1, <1>2, <1>4, <2>1 DEF LoopInv, LoopTyped, Scaled, Restoring, RootIsExact
<1> QED
  BY <1>3, <1>4

LEMMA ScaleStep ==
    ASSUME LoopInv, Scale
    PROVE  LoopInv'
<1>1. /\ pc = "scale" /\ bit \in Bits /\ value >= 2 /\ value < bit
      /\ root = 0 /\ remainder = value
      /\ bit' = bit \div 4 /\ UNCHANGED <<pc, value, remainder, root>>
      /\ value \in Nat /\ bit \in Nat /\ bit <= TOP_BIT
  BY SqrtAssumption DEF Scale, LoopInv, LoopTyped, Scaled
<1>2. bit # 1
  BY <1>1
<1>3. bit = 4 * bit' /\ bit' \in Bits /\ bit' \in Nat
  BY <1>1, <1>2, BitsAreScaled
<1>4. bit' \in 0 .. TOP_BIT
  BY <1>1, <1>3, SqrtAssumption
<1> QED
  BY <1>1, <1>3, <1>4 DEF LoopInv, LoopTyped, Scaled, Restoring, RootIsExact

LEMMA StartDigitsStep ==
    ASSUME LoopInv, StartDigits
    PROVE  LoopInv'
<1>1. /\ pc' = "digits" /\ bit \in Bits /\ value < 4 * bit
      /\ root = 0 /\ remainder = value /\ value \in Nat /\ bit \in Nat \ {0}
      /\ UNCHANGED <<value, bit, remainder, root>>
  BY SqrtAssumption DEF StartDigits, LoopInv, LoopTyped, Scaled
<1>2. Restoring'
  <2>1. /\ 0 \in 0 .. value /\ 4 * 0 * bit = 0 /\ 4 * 0 * 0 * bit = 0
        /\ (8 * 0 + 4) * bit = 4 * bit
    BY <1>1
  <2>2. /\ 0 \in 0 .. value /\ root = 4 * 0 * bit
        /\ remainder + 4 * 0 * 0 * bit = value
        /\ remainder < (8 * 0 + 4) * bit
    BY <1>1, <2>1
  <2>3. \E p \in 0 .. value :
            /\ root = 4 * p * bit
            /\ remainder + 4 * p * p * bit = value
            /\ remainder < (8 * p + 4) * bit
    BY <2>2
  <2> QED
    BY <1>1, <2>3 DEF Restoring
<1> QED
  BY <1>1, <1>2 DEF LoopInv, LoopTyped, Scaled, RootIsExact

(* One digit, as arithmetic: b is the bit, p the digits before, r the      *)
(* remainder, v the argument.                                              *)
LEMMA DigitTaken ==
    ASSUME NEW b \in Nat \ {0}, NEW p \in Nat, NEW r \in Nat, NEW v \in Nat,
           r + 4 * p * p * b = v, r < (8 * p + 4) * b
    PROVE  /\ r >= 4 * p * b + b =>
                /\ (r - (4 * p * b + b)) + (2 * p + 1) * (2 * p + 1) * b = v
                /\ r - (4 * p * b + b) < (4 * p + 3) * b
                /\ 2 * p + 1 <= v
           /\ r < 4 * p * b + b =>
                /\ r + (2 * p) * (2 * p) * b = v
                /\ 2 * p <= v
<1>1. (2 * p + 1) * (2 * p + 1) * b = 4 * p * p * b + (4 * p * b + b)
  OBVIOUS
<1>2. (8 * p + 4) * b = (4 * p * b + b) + (4 * p + 3) * b
  OBVIOUS
<1>3. (2 * p) * (2 * p) * b = 4 * p * p * b
  OBVIOUS
<1> DEFINE x == 4 * p * p * b
           y == 4 * p * b + b
           z == (4 * p + 3) * b
           w == (2 * p + 1) * (2 * p + 1) * b
           t == (2 * p) * (2 * p) * b
<1>4. x \in Nat /\ y \in Nat /\ z \in Nat
  OBVIOUS
<1>5. 2 * p + 1 <= w /\ 2 * p <= t
  <2>1. p <= p * p
    OBVIOUS
  <2> DEFINE q == p * p
  <2>2. q \in Nat /\ p <= q
    BY <2>1
  <2>3. (2 * p + 1) * (2 * p + 1) = 4 * q + 4 * p + 1 /\ (2 * p) * (2 * p) = 4 * q
    OBVIOUS
  <2> HIDE DEF q
  <2>4. 4 * q + 4 * p + 1 <= (4 * q + 4 * p + 1) * b /\ 4 * q <= (4 * q) * b
    BY <2>2
  <2> QED
    BY <2>2, <2>3, <2>4
<1>6. w = x + y /\ t = x /\ r + x = v /\ r < y + z
  BY <1>1, <1>2, <1>3
<1> HIDE DEF x, y, z, w, t
<1>7. /\ r >= y => (r - y) + w = v /\ r - y < z /\ 2 * p + 1 <= v
      /\ r < y => r + t = v /\ 2 * p <= v
  BY <1>4, <1>5, <1>6
<1> QED
  BY <1>7 DEF y, z, w, t

LEMMA DigitKeeps ==
    ASSUME LoopInv, Digit
    PROVE  \E p \in 0 .. value :
              /\ root' = p * bit
              /\ remainder' \in Nat
              /\ remainder' + p * p * bit = value
              /\ remainder' < (2 * p + 1) * bit
<1>1. /\ pc = "digits" /\ bit # 0 /\ bit \in Nat \ {0} /\ value \in Nat /\ remainder \in Nat
      /\ \/ remainder >= root + bit /\ remainder' = remainder - (root + bit)
                                    /\ root' = root \div 2 + bit
         \/ remainder < root + bit /\ remainder' = remainder /\ root' = root \div 2
      /\ root \in Nat
  BY SqrtAssumption DEF Digit, candidate, LoopInv, LoopTyped
<1>2. PICK p \in 0 .. value : /\ root = 4 * p * bit
                              /\ remainder + 4 * p * p * bit = value
                              /\ remainder < (8 * p + 4) * bit
  BY <1>1 DEF LoopInv, Restoring
<1>3. p \in Nat
  BY <1>1
<1>4. root \div 2 = 2 * p * bit
  <2> DEFINE x == p * bit
  <2>1. x \in Nat /\ root = 4 * x /\ 2 * p * bit = 2 * x
    BY <1>1, <1>2, <1>3
  <2> HIDE DEF x
  <2> QED
    BY <2>1
<1>5. CASE remainder >= root + bit
  <2>1. remainder' = remainder - (4 * p * bit + bit) /\ root' = 2 * p * bit + bit
    BY <1>1, <1>2, <1>4, <1>5
  <2>2. /\ (remainder - (4 * p * bit + bit)) + (2 * p + 1) * (2 * p + 1) * bit = value
        /\ remainder - (4 * p * bit + bit) < (4 * p + 3) * bit
        /\ 2 * p + 1 <= value
    BY <1>1, <1>2, <1>3, <1>5, DigitTaken
  <2>3. 2 * p * bit + bit = (2 * p + 1) * bit /\ 4 * p + 3 = 2 * (2 * p + 1) + 1
    BY <1>1, <1>3
  <2>4. 2 * p + 1 \in 0 .. value /\ remainder' \in Nat
    BY <1>1, <1>2, <1>3, <1>5, <2>1, <2>2
  <2> QED
    BY <2>1, <2>2, <2>3, <2>4
<1>6. CASE remainder < root + bit
  <2>1. remainder' = remainder /\ root' = 2 * p * bit
    BY <1>1, <1>4, <1>6
  <2>2. remainder + (2 * p) * (2 * p) * bit = value /\ 2 * p <= value
    BY <1>1, <1>2, <1>3, <1>6, DigitTaken
  <2>3. 4 * p * bit + bit = (2 * (2 * p) + 1) * bit
    BY <1>1, <1>3
  <2>4. 2 * p \in 0 .. value
    BY <1>1, <1>3, <2>2
  <2> QED
    BY <1>1, <1>2, <1>6, <2>1, <2>2, <2>3, <2>4
<1> QED
  BY <1>1, <1>5, <1>6

LEMMA DigitStep ==
    ASSUME LoopInv, Digit
    PROVE  LoopInv'
<1>1. /\ pc = "digits" /\ pc' = "digits" /\ bit \in Bits /\ bit \in Nat \ {0}
      /\ bit' = bit \div 4 /\ value' = value /\ value \in 0 .. U128_MAX /\ bit <= TOP_BIT
  BY SqrtAssumption DEF Digit, LoopInv, LoopTyped, Scaled
<1>2. PICK p \in 0 .. value : /\ root' = p * bit
                              /\ remainder' \in Nat
                              /\ remainder' + p * p * bit = value
                              /\ remainder' < (2 * p + 1) * bit
  BY DigitKeeps
<1>3. p \in Nat /\ value \in Nat
  BY <1>1, SqrtAssumption
<1>4. bit' \in Bits \cup {0} /\ bit' \in Nat /\ 4 * bit' <= bit
  BY <1>1, BitsAreScaled
<1>5. LoopTyped'
  <2>1. root' \in Nat
    BY <1>1, <1>2, <1>3
  <2> QED
    BY <1>1, <1>2, <1>4, <2>1, SqrtAssumption DEF LoopTyped
<1>6. Scaled'
  BY <1>1, <1>4, SqrtAssumption DEF Scaled
<1>7. Restoring'
  <2>1. CASE bit = 1
    <3>1. bit' = 0
      BY <1>1, <2>1, BitsAreScaled
    <3>2. p * bit = p /\ p * p * bit = p * p /\ (2 * p + 1) * bit = 2 * p + 1
      BY <1>3, <2>1
    <3> HIDE <2>1
    <3>3. root' = p /\ remainder' + p * p = value /\ remainder' < 2 * p + 1
      BY ONLY <1>2, <3>2
    <3>4. remainder' <= 2 * p
      BY ONLY <1>2, <1>3, <3>3
    <3>5. remainder' + root' * root' = value' /\ remainder' <= 2 * root'
      BY ONLY <1>1, <3>3, <3>4
    <3> QED
      BY ONLY <3>1, <3>5 DEF Restoring
  <2>2. CASE bit # 1
    <3> DEFINE b == bit'
    <3>1. bit = 4 * b /\ b # 0 /\ b \in Nat
      BY <1>1, <2>2, BitsAreScaled
    <3> HIDE DEF b
    <3>2. /\ p * bit = 4 * p * b
          /\ p * p * bit = 4 * p * p * b
          /\ (2 * p + 1) * bit = (8 * p + 4) * b
      BY <1>3, <3>1
    <3>3. /\ root' = 4 * p * b
          /\ remainder' + 4 * p * p * b = value
          /\ remainder' < (8 * p + 4) * b
      BY ONLY <1>2, <3>2
    <3>4. /\ root' = 4 * p * bit'
          /\ remainder' + 4 * p * p * bit' = value'
          /\ remainder' < (8 * p + 4) * bit'
      BY ONLY <1>1, <3>3 DEF b
    <3>5. bit' # 0 /\ p \in 0 .. value'
      BY <1>1, <1>2, <3>1 DEF b
    <3> QED
      BY ONLY <3>4, <3>5 DEF Restoring
  <2> QED
    BY <2>1, <2>2
<1>8. RootIsExact'
  BY <1>1 DEF RootIsExact
<1> QED
  BY <1>5, <1>6, <1>7, <1>8 DEF LoopInv

LEMMA ReturnStep ==
    ASSUME LoopInv, Return
    PROVE  LoopInv'
<1>1. /\ pc' = "done" /\ UNCHANGED <<value, bit, remainder, root>>
      /\ value \in Nat /\ root \in Nat /\ remainder \in Nat
      /\ remainder + root * root = value /\ remainder <= 2 * root
  BY SqrtAssumption DEF Return, LoopInv, LoopTyped, Restoring
<1>2. root * root <= value /\ value < (root + 1) * (root + 1)
  <2> DEFINE x == root * root
  <2>1. x \in Nat /\ (root + 1) * (root + 1) = x + 2 * root + 1
    BY <1>1
  <2>2. remainder + x = value
    BY <1>1
  <2> HIDE DEF x
  <2>3. x <= value /\ value < x + 2 * root + 1
    BY <1>1, <2>1, <2>2
  <2> QED
    BY <2>1, <2>3 DEF x
<1>3. root = IntegerSqrt(value)
  BY <1>1, <1>2, IntegerSqrtIsUnique
<1>4. RootIsExact'
  BY <1>1, <1>3 DEF RootIsExact
<1> QED
  BY <1>1, <1>4 DEF LoopInv, LoopTyped, Scaled, Restoring

(* The invariant holds in every state of every run of the loop.            *)
THEOREM LoopInvariant == LoopSpec => []LoopInv
<1>1. LoopInit => LoopInv
  BY LoopInitIsInductive
<1>2. LoopInv /\ [LoopNext]_loopVars => LoopInv'
  <2>1. LoopInv /\ UNCHANGED loopVars => LoopInv'
    BY DEF loopVars, LoopInv, LoopTyped, Scaled, Restoring, RootIsExact
  <2> QED
    BY <2>1, ScaleStep, StartDigitsStep, DigitStep, ReturnStep DEF LoopNext
<1> QED
  BY <1>1, <1>2, PTL DEF LoopSpec

(* integer_sqrt returns the integer square root of every argument of every *)
(* word whose width is even, u128 included.                                *)
THEOREM SqrtIsExact == LoopSpec => []RootIsExact
<1>1. LoopInv => RootIsExact
  BY DEF LoopInv
<1> QED
  BY <1>1, LoopInvariant, PTL

(* The digits found so far and the remainder always make up the argument.  *)
THEOREM SqrtRestores == LoopSpec => []Restoring
<1>1. LoopInv => Restoring
  BY DEF LoopInv
<1> QED
  BY <1>1, LoopInvariant, PTL

(* Neither checked_add of the loop can overflow, so its MathOverflow       *)
(* returns are unreachable.                                                *)
THEOREM SqrtNeverOverflows == LoopSpec => []SumsFitTheWord
<1>1. LoopInv => SumsFitTheWord
  <2> SUFFICES ASSUME LoopInv, pc = "digits"
               PROVE  candidate <= U128_MAX /\ root \div 2 + bit <= U128_MAX
    BY DEF SumsFitTheWord
  <2>1. /\ value \in Nat /\ value <= U128_MAX /\ U128_MAX = 4 * TOP_BIT - 1
        /\ bit \in Nat /\ bit <= TOP_BIT /\ root \in Nat /\ remainder \in Nat
        /\ TOP_BIT \in Nat \ {0}
        /\ root # 0 /\ bit # 0 => 4 * bit <= TOP_BIT
    BY SqrtAssumption DEF LoopInv, LoopTyped, Scaled
  <2>2. root + bit <= U128_MAX
    <3>1. CASE root = 0
      BY <2>1, <3>1
    <3>2. CASE root # 0 /\ bit = 0
      <4>1. remainder + root * root = value
        BY <3>2 DEF LoopInv, Restoring
      <4>2. root <= root * root /\ root * root \in Nat
        BY <2>1
      <4> QED
        BY <2>1, <3>2, <4>1, <4>2
    <3>3. CASE root # 0 /\ bit # 0
      <4>1. PICK p \in 0 .. value : root = 4 * p * bit /\ remainder + 4 * p * p * bit = value
        BY <3>3 DEF LoopInv, Restoring
      <4> DEFINE x == p * bit
                 y == p * p * bit
      <4>2. p \in Nat /\ x \in Nat /\ y \in Nat /\ root = 4 * x /\ remainder + 4 * y = value
        BY <2>1, <4>1
      <4>3. p # 0
        BY <2>1, <3>3, <4>1
      <4>4. p = 1 => x = bit
        BY <2>1
      <4>5. p >= 2 => 2 * x <= y
        <5>1. y = p * x
          BY <2>1, <4>2
        <5> HIDE DEF x, y
        <5>2. ASSUME p >= 2 PROVE 2 * x <= p * x
          BY <4>2, <5>2, ProductMonotone
        <5> QED
          BY <5>1, <5>2
      <4> HIDE DEF x, y
      <4>6. p = 1 \/ p >= 2
        BY <4>2, <4>3
      <4> QED
        BY <2>1, <3>3, <4>2, <4>4, <4>5, <4>6
    <3> QED
      BY <3>1, <3>2, <3>3
  <2>3. root \div 2 <= root /\ root \div 2 \in Nat
    BY <2>1
  <2> QED
    BY <2>1, <2>2, <2>3 DEF candidate
<1> QED
  BY <1>1, LoopInvariant, PTL
=============================================================================
