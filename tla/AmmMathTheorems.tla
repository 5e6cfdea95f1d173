-------------------------- MODULE AmmMathTheorems --------------------------
(***************************************************************************)
(* What the quotes of AmmMath guarantee for every amount, every reserve    *)
(* and every value of the constants.  The lemmas on division come first,   *)
(* then one group per quote.                                               *)
(***************************************************************************)
EXTENDS AmmMath, NaturalsInduction, WellFoundedInduction, TLAPS

LEMMA DivBounds ==
    ASSUME NEW n \in Nat, NEW d \in Nat \ {0}
    PROVE  /\ n \div d \in Nat
           /\ (n \div d) * d <= n
           /\ n < (n \div d) * d + d
  OBVIOUS

LEMMA ProductNat == ASSUME NEW a \in Nat, NEW b \in Nat PROVE a * b \in Nat
  OBVIOUS

LEMMA ProductMonotone ==
    ASSUME NEW a \in Nat, NEW b \in Nat, NEW c \in Nat, a <= b
    PROVE  a * c <= b * c
  OBVIOUS

LEMMA ProductCancel ==
    ASSUME NEW a \in Nat, NEW b \in Nat, NEW c \in Nat \ {0}, a * c <= b * c
    PROVE  a <= b
  OBVIOUS

(* Integer division rounds down to the largest quotient that fits.         *)
LEMMA DivIsLargest ==
    ASSUME NEW n \in Nat, NEW d \in Nat \ {0}, NEW q \in Nat, q * d <= n
    PROVE  q <= n \div d
<1> DEFINE p == n \div d
<1>1. p \in Nat /\ n < p * d + d
  BY DivBounds
<1>2. q * d < (p + 1) * d
  BY <1>1
<1> HIDE DEF p
<1>3. CASE q > p
  <2>1. (p + 1) * d <= q * d
    BY <1>1, <1>3, ProductMonotone
  <2> QED
    BY <1>1, <1>2, <2>1
<1> QED
  BY <1>1, <1>3 DEF p

(* ceil_div returns the least multiple of the denominator not below the    *)
(* numerator.                                                              *)
LEMMA CeilDivBounds ==
    ASSUME NEW n \in Nat, NEW d \in Nat \ {0}
    PROVE  /\ CeilDiv(n, d) \in Nat
           /\ n <= CeilDiv(n, d) * d
           /\ CeilDiv(n, d) * d < n + d
<1> DEFINE q == n \div d
           r == n % d
<1>1. q \in Nat /\ r \in Nat /\ r < d /\ n = q * d + r
  OBVIOUS
<1>2. CeilDiv(n, d) = IF r = 0 THEN q ELSE q + 1
  BY DEF CeilDiv
<1> HIDE DEF q, r
<1>3. (q + 1) * d = q * d + d
  BY <1>1
<1>4. CASE r = 0
  BY <1>1, <1>2, <1>4
<1>5. CASE r # 0
  BY <1>1, <1>2, <1>3, <1>5
<1> QED
  BY <1>4, <1>5

LEMMA CeilDivIsLeast ==
    ASSUME NEW n \in Nat, NEW d \in Nat \ {0}, NEW q \in Nat, n <= q * d
    PROVE  CeilDiv(n, d) <= q
<1> DEFINE c == CeilDiv(n, d)
<1>1. c \in Nat /\ c * d < n + d
  BY CeilDivBounds
<1> HIDE DEF c
<1>2. CASE q < c
  <2>1. (q + 1) * d <= c * d
    BY <1>1, <1>2, ProductMonotone
  <2>2. (q + 1) * d = q * d + d
    OBVIOUS
  <2> QED
    BY <1>1, <2>1, <2>2
<1> QED
  BY <1>1, <1>2 DEF c

-----------------------------------------------------------------------------
(* integer_sqrt.  The root exists: the least m with value < (m + 1)^2.     *)

LEMMA IntegerSqrtExists ==
    ASSUME NEW value \in Nat
    PROVE  \E root \in 0 .. value :
               root * root <= value /\ value < (root + 1) * (root + 1)
<1> DEFINE Above == {m \in Nat : value < (m + 1) * (m + 1)}
<1>1. value \in Above
  OBVIOUS
<1>2. PICK root \in Above : \A m \in Above : <<m, root>> \notin OpToRel(<, Nat)
  BY <1>1, NatLessThanWellFounded, WFMin
<1>3. \A m \in Above : ~(m < root)
  BY <1>2 DEF OpToRel
<1>4. root * root <= value
  <2>1. CASE root = 0
    BY <2>1
  <2>2. CASE root # 0
    <3>1. root - 1 \in Nat /\ root - 1 < root
      BY <2>2
    <3>2. root - 1 \notin Above
      BY <1>3, <3>1
    <3> QED
      BY <3>1, <3>2
  <2> QED
    BY <2>1, <2>2
<1>5. root \in 0 .. value
  <2>1. root <= root * root
    OBVIOUS
  <2> QED
    BY <1>4, <2>1
<1> QED
  BY <1>4, <1>5

LEMMA IntegerSqrtBounds ==
    ASSUME NEW value \in Nat
    PROVE  /\ IntegerSqrt(value) \in 0 .. value
           /\ IntegerSqrt(value) * IntegerSqrt(value) <= value
           /\ value < (IntegerSqrt(value) + 1) * (IntegerSqrt(value) + 1)
<1> DEFINE Root(r) == /\ r \in 0 .. value
                      /\ r * r <= value /\ value < (r + 1) * (r + 1)
<1>1. \E r : Root(r)
  BY IntegerSqrtExists
<1>2. Root(CHOOSE r : Root(r))
  BY <1>1, Zenon
<1>3. IntegerSqrt(value) = CHOOSE r : Root(r)
  BY Zenon DEF IntegerSqrt
<1>4. Root(IntegerSqrt(value))
  BY <1>2, <1>3, Zenon
<1> HIDE DEF Root
<1> QED
  BY <1>4 DEF Root

-----------------------------------------------------------------------------
(* The value behind an LP token.  When each reserve grows at least in the  *)
(* ratio of the supply, k / L^2 does not fall; and while k / L^2 does not  *)
(* fall, a backed supply stays backed.                                     *)

LEMMA ShareValueFromRatios ==
    ASSUME NEW ra \in Nat, NEW rb \in Nat, NEW l \in Nat,
           NEW ra2 \in Nat, NEW rb2 \in Nat, NEW l2 \in Nat,
           ra * l2 <= ra2 * l, rb * l2 <= rb2 * l
    PROVE  ra * rb * l2 * l2 <= ra2 * rb2 * l * l
<1>1. (ra * l2) * (rb * l2) <= (ra2 * l) * (rb * l2)
  BY ProductMonotone, ProductNat
<1>2. (rb * l2) * (ra2 * l) <= (rb2 * l) * (ra2 * l)
  BY ProductMonotone, ProductNat
<1> QED
  BY <1>1, <1>2

LEMMA BackingFollowsShareValue ==
    ASSUME NEW k \in Nat \ {0}, NEW l \in Nat, NEW k2 \in Nat, NEW l2 \in Nat,
           l * l <= k, k * l2 * l2 <= k2 * l * l
    PROVE  l2 * l2 <= k2
<1>1. (l * l) * k2 <= k * k2
  BY ProductMonotone, ProductNat
<1>2. (l2 * l2) * k <= k2 * k
  BY <1>1
<1> QED
  BY <1>2, ProductCancel, ProductNat

-----------------------------------------------------------------------------
(* Swaps.                                                                  *)

LEMMA AmountOutBounds ==
    ASSUME NEW amount_in \in Nat, NEW reserve_in \in Nat \ {0},
           NEW reserve_out \in Nat \ {0}, NEW fee_bps \in 0 .. MAX_FEE_BPS
    PROVE  LET amount_out == AmountOut(amount_in, reserve_in, reserve_out, fee_bps)
           IN  /\ amount_out \in Nat
               /\ amount_out < reserve_out
               /\ amount_out * reserve_in <= amount_in * (reserve_out - amount_out)
<1> DEFINE keep == FEE_DENOMINATOR - fee_bps
           paid == amount_in * keep
           den  == reserve_in * FEE_DENOMINATOR + paid
           out  == (paid * reserve_out) \div den
<1>1. out = AmountOut(amount_in, reserve_in, reserve_out, fee_bps)
  BY DEF AmountOut, InWithFee
<1>2. keep \in Nat /\ keep <= FEE_DENOMINATOR /\ FEE_DENOMINATOR \in Nat \ {0}
  BY MathAssumption
<1> HIDE DEF keep
<1>3. paid \in Nat /\ paid <= amount_in * FEE_DENOMINATOR
  BY <1>2
<1>4. reserve_in * FEE_DENOMINATOR \in Nat \ {0}
  BY <1>2
<1> HIDE DEF paid
<1>5. den \in Nat \ {0} /\ paid * reserve_out \in Nat
  BY <1>3, <1>4
<1>6. out \in Nat /\ out * den <= paid * reserve_out
  BY <1>5, DivBounds
<1> HIDE DEF out
<1>7. out < reserve_out
  <2>1. SUFFICES ASSUME reserve_out <= out PROVE FALSE
    BY <1>6
  <2>2. reserve_out * den <= out * den
    BY <1>5, <1>6, <2>1, ProductMonotone
  <2>3. reserve_out * den = reserve_out * (reserve_in * FEE_DENOMINATOR) + paid * reserve_out
    BY <1>2, <1>3
  <2>4. reserve_out * (reserve_in * FEE_DENOMINATOR) > 0
    BY <1>4
  <2>5. reserve_out * den > paid * reserve_out
    BY <1>2, <1>3, <1>5, <2>3, <2>4
  <2> HIDE DEF den
  <2> QED
    BY <1>5, <1>6, <2>2, <2>5
<1>8. out * reserve_in <= amount_in * (reserve_out - out)
  <2>1. out * reserve_in * FEE_DENOMINATOR <= paid * (reserve_out - out)
    <3>1. out * den = out * reserve_in * FEE_DENOMINATOR + paid * out
      BY <1>2, <1>3, <1>6
    <3>2. paid * (reserve_out - out) = paid * reserve_out - paid * out
      BY <1>3, <1>6
    <3> QED
      BY <1>2, <1>3, <1>5, <1>6, <3>1, <3>2
  <2>2. paid * (reserve_out - out) <= amount_in * FEE_DENOMINATOR * (reserve_out - out)
    BY <1>2, <1>3, <1>6, <1>7, ProductMonotone
  <2>3. (out * reserve_in) * FEE_DENOMINATOR
           <= (amount_in * (reserve_out - out)) * FEE_DENOMINATOR
    BY <1>2, <1>3, <1>6, <1>7, <2>1, <2>2
  <2> QED
    BY <1>2, <1>6, <1>7, <2>3, ProductCancel
<1> QED
  BY <1>1, <1>6, <1>7, <1>8

(* Rounding down keeps the product of the reserves from falling, whatever  *)
(* the fee: the last check of quote_swap is redundant.                     *)
THEOREM SwapKeepsProduct ==
    ASSUME NEW amount_in \in Nat, NEW reserve_in \in Nat \ {0},
           NEW reserve_out \in Nat \ {0}, NEW fee_bps \in 0 .. MAX_FEE_BPS
    PROVE  (reserve_in + amount_in)
             * (reserve_out - AmountOut(amount_in, reserve_in, reserve_out, fee_bps))
           >= reserve_in * reserve_out
<1> DEFINE out == AmountOut(amount_in, reserve_in, reserve_out, fee_bps)
<1>1. out \in Nat /\ out < reserve_out
      /\ out * reserve_in <= amount_in * (reserve_out - out)
  BY AmountOutBounds
<1> HIDE DEF out
<1>2. (reserve_in + amount_in) * (reserve_out - out)
        = reserve_in * reserve_out - out * reserve_in + amount_in * (reserve_out - out)
  BY <1>1
<1> QED
  BY <1>1, <1>2 DEF out

(* What an accepted swap quote means.                                      *)
LEMMA QuoteSwapOk ==
    ASSUME NEW amount_in \in Nat, NEW reserve_in \in Nat, NEW reserve_out \in Nat,
           NEW fee_bps \in Nat,
           QuoteSwap(amount_in, reserve_in, reserve_out, fee_bps) = "Ok"
    PROVE  /\ amount_in # 0 /\ reserve_in # 0 /\ reserve_out # 0
           /\ ~(fee_bps > MAX_FEE_BPS)
           /\ InRange(reserve_in + amount_in)
           /\ AmountOut(amount_in, reserve_in, reserve_out, fee_bps) # 0
  BY Zenon DEF QuoteSwap

LEMMA QuoteSwapKeepsProduct ==
    ASSUME NEW amount_in \in Nat, NEW reserve_in \in Nat, NEW reserve_out \in Nat,
           NEW fee_bps \in Nat,
           QuoteSwap(amount_in, reserve_in, reserve_out, fee_bps) = "Ok"
    PROVE  ~((reserve_in + amount_in)
               * (reserve_out - AmountOut(amount_in, reserve_in, reserve_out, fee_bps))
             < reserve_in * reserve_out)
  BY Zenon DEF QuoteSwap

-----------------------------------------------------------------------------
(* The first deposit.                                                      *)

LEMMA QuoteInitialLiquidityOk ==
    ASSUME NEW amount_a \in Nat, NEW amount_b \in Nat,
           QuoteInitialLiquidity(amount_a, amount_b) = "Ok"
    PROVE  /\ amount_a # 0 /\ amount_b # 0
           /\ InRange(amount_a) /\ InRange(amount_b)
           /\ ~(InitialLp(amount_a, amount_b) <= MINIMUM_LIQUIDITY)
  BY Zenon DEF QuoteInitialLiquidity

LEMMA InitialLpBounds ==
    ASSUME NEW amount_a \in Nat, NEW amount_b \in Nat
    PROVE  /\ InitialLp(amount_a, amount_b) \in Nat
           /\ InitialLp(amount_a, amount_b) * InitialLp(amount_a, amount_b)
                <= amount_a * amount_b
  BY IntegerSqrtBounds, ProductNat DEF InitialLp

-----------------------------------------------------------------------------
(* Later deposits.                                                         *)

(* A deposit takes between one unit and what was offered of each side: the *)
(* rejection of a_optimal > a_desired in quote_add_liquidity is never met. *)
THEOREM DepositWithinOffer ==
    ASSUME NEW a_desired \in Nat \ {0}, NEW b_desired \in Nat \ {0},
           NEW reserve_a \in Nat \ {0}, NEW reserve_b \in Nat \ {0}
    PROVE  /\ DepositA(a_desired, b_desired, reserve_a, reserve_b) \in 1 .. a_desired
           /\ DepositB(a_desired, b_desired, reserve_a, reserve_b) \in 1 .. b_desired
<1> DEFINE b_optimal == CeilDiv(a_desired * reserve_b, reserve_a)
           a_optimal == CeilDiv(b_desired * reserve_a, reserve_b)
<1>1. a_desired * reserve_b \in Nat \ {0} /\ b_desired * reserve_a \in Nat \ {0}
  OBVIOUS
<1>2. b_optimal \in Nat /\ a_desired * reserve_b <= b_optimal * reserve_a
  BY <1>1, CeilDivBounds
<1>3. a_optimal \in Nat /\ b_desired * reserve_a <= a_optimal * reserve_b
  BY <1>1, CeilDivBounds
<1>4. b_optimal # 0 /\ a_optimal # 0
  <2> HIDE DEF a_optimal, b_optimal
  <2> QED
    BY <1>1, <1>2, <1>3
<1>5. CASE b_optimal <= b_desired
  BY <1>2, <1>4, <1>5 DEF DepositA, DepositB, ALimits, BOptimal
<1>6. CASE ~(b_optimal <= b_desired)
  <2>1. ~(a_desired * reserve_b <= b_desired * reserve_a)
    BY <1>1, <1>6, CeilDivIsLeast
  <2>2. b_desired * reserve_a <= a_desired * reserve_b
    BY <1>1, <2>1
  <2>3. a_optimal <= a_desired
    BY <1>1, <2>2, CeilDivIsLeast
  <2> QED
    BY <1>3, <1>4, <1>6, <2>3 DEF DepositA, DepositB, ALimits, BOptimal, AOptimal
<1> QED
  BY <1>5, <1>6

LEMMA LpMintedBounds ==
    ASSUME NEW amount_a \in Nat, NEW amount_b \in Nat,
           NEW reserve_a \in Nat \ {0}, NEW reserve_b \in Nat \ {0}, NEW lp_supply \in Nat
    PROVE  LET lp_minted == LpMinted(amount_a, amount_b, reserve_a, reserve_b, lp_supply)
           IN  /\ lp_minted \in Nat
               /\ reserve_a * (lp_supply + lp_minted) <= (reserve_a + amount_a) * lp_supply
               /\ reserve_b * (lp_supply + lp_minted) <= (reserve_b + amount_b) * lp_supply
<1> DEFINE from_a == (amount_a * lp_supply) \div reserve_a
           from_b == (amount_b * lp_supply) \div reserve_b
           minted == LpMinted(amount_a, amount_b, reserve_a, reserve_b, lp_supply)
<1>1. from_a \in Nat /\ from_a * reserve_a <= amount_a * lp_supply
  BY DivBounds, ProductNat
<1>2. from_b \in Nat /\ from_b * reserve_b <= amount_b * lp_supply
  BY DivBounds, ProductNat
<1>3. minted = IF from_a <= from_b THEN from_a ELSE from_b
  BY DEF LpMinted, Lesser
<1> HIDE DEF from_a, from_b, minted
<1>4. minted \in Nat /\ minted <= from_a /\ minted <= from_b
  BY <1>1, <1>2, <1>3
<1>5. minted * reserve_a <= amount_a * lp_supply
  BY <1>1, <1>4, ProductMonotone, ProductNat
<1>6. minted * reserve_b <= amount_b * lp_supply
  BY <1>2, <1>4, ProductMonotone, ProductNat
<1>7. reserve_a * (lp_supply + minted) <= (reserve_a + amount_a) * lp_supply
  BY <1>4, <1>5
<1>8. reserve_b * (lp_supply + minted) <= (reserve_b + amount_b) * lp_supply
  BY <1>4, <1>6
<1> QED
  BY <1>4, <1>7, <1>8 DEF minted

LEMMA QuoteAddLiquidityOk ==
    ASSUME NEW a_desired \in Nat, NEW b_desired \in Nat,
           NEW reserve_a \in Nat, NEW reserve_b \in Nat, NEW lp_supply \in Nat,
           QuoteAddLiquidity(a_desired, b_desired, reserve_a, reserve_b, lp_supply) = "Ok"
    PROVE  LET amount_a == DepositA(a_desired, b_desired, reserve_a, reserve_b)
               amount_b == DepositB(a_desired, b_desired, reserve_a, reserve_b)
           IN  /\ a_desired # 0 /\ b_desired # 0 /\ reserve_a # 0 /\ reserve_b # 0
               /\ ~(lp_supply < MINIMUM_LIQUIDITY)
               /\ InRange(reserve_a + amount_a) /\ InRange(reserve_b + amount_b)
               /\ LpMinted(amount_a, amount_b, reserve_a, reserve_b, lp_supply) # 0
  BY Zenon DEF QuoteAddLiquidity

-----------------------------------------------------------------------------
(* Withdrawals.                                                            *)

LEMMA WithdrawnOfBounds ==
    ASSUME NEW lp_supply \in Nat \ {0}, NEW lp_amount \in 0 .. lp_supply, NEW reserve \in Nat
    PROVE  LET out == WithdrawnOf(lp_amount, reserve, lp_supply)
           IN  /\ out \in 0 .. reserve
               /\ reserve * (lp_supply - lp_amount) <= (reserve - out) * lp_supply
<1> DEFINE out == WithdrawnOf(lp_amount, reserve, lp_supply)
<1>1. out \in Nat /\ out * lp_supply <= lp_amount * reserve
  BY DivBounds, ProductNat DEF WithdrawnOf
<1> HIDE DEF out
<1>2. lp_amount * reserve <= lp_supply * reserve
  BY ProductMonotone
<1>3. out <= reserve
  BY <1>1, <1>2, ProductCancel, ProductNat
<1>4. reserve * (lp_supply - lp_amount) <= (reserve - out) * lp_supply
  BY <1>1, <1>3
<1> QED
  BY <1>1, <1>3, <1>4 DEF out

LEMMA QuoteRemoveLiquidityOk ==
    ASSUME NEW lp_amount \in Nat, NEW reserve_a \in Nat, NEW reserve_b \in Nat,
           NEW lp_supply \in Nat,
           QuoteRemoveLiquidity(lp_amount, reserve_a, reserve_b, lp_supply) = "Ok"
    PROVE  /\ lp_amount # 0 /\ reserve_a # 0 /\ reserve_b # 0
           /\ ~(lp_supply < MINIMUM_LIQUIDITY)
           /\ ~(lp_amount > lp_supply)
           /\ ~(lp_supply - lp_amount < MINIMUM_LIQUIDITY)
           /\ WithdrawnOf(lp_amount, reserve_a, lp_supply) # 0
           /\ WithdrawnOf(lp_amount, reserve_b, lp_supply) # 0
  BY Zenon DEF QuoteRemoveLiquidity

(* Two amounts in range: their product fits.                               *)
LEMMA ProductFits ==
    ASSUME NEW a \in 0 .. MAX_SUPPLY_CAP, NEW b \in 0 .. MAX_SUPPLY_CAP
    PROVE  ~Overflows(a * b)
<1> DEFINE c == MAX_SUPPLY_CAP
<1>1. /\ a \in Nat /\ b \in Nat /\ c \in Nat /\ a <= c /\ b <= c
      /\ c * c <= U128_MAX /\ U128_MAX \in Nat
  BY MathAssumption
<1> HIDE DEF c
<1>2. a * b <= c * b /\ b * c <= c * c
  BY <1>1, ProductMonotone
<1>3. c * b = b * c /\ a * b \in Nat /\ b * c \in Nat /\ c * c \in Nat
  BY <1>1, ProductNat
<1> HIDE <1>1
<1>4. a * b <= c * c
  BY ONLY <1>2, <1>3
<1>5. a * b <= U128_MAX
  BY <1>1, <1>3, <1>4
<1> QED
  BY <1>1, <1>3, <1>5 DEF Overflows

(* A withdrawal that leaves the minimum and is worth a unit of each side   *)
(* is accepted.                                                            *)
LEMMA QuoteRemoveLiquidityPasses ==
    ASSUME NEW lp_amount \in Nat \ {0}, NEW reserve_a \in 1 .. MAX_SUPPLY_CAP,
           NEW reserve_b \in 1 .. MAX_SUPPLY_CAP, NEW lp_supply \in 0 .. MAX_SUPPLY_CAP,
           lp_supply - lp_amount >= MINIMUM_LIQUIDITY,
           WithdrawnOf(lp_amount, reserve_a, lp_supply) # 0,
           WithdrawnOf(lp_amount, reserve_b, lp_supply) # 0
    PROVE  QuoteRemoveLiquidity(lp_amount, reserve_a, reserve_b, lp_supply) = "Ok"
<1>1. /\ lp_amount # 0 /\ reserve_a # 0 /\ reserve_b # 0
      /\ ~(lp_supply < MINIMUM_LIQUIDITY) /\ ~(lp_amount > lp_supply)
      /\ ~(lp_supply - lp_amount < MINIMUM_LIQUIDITY)
  BY MathAssumption
<1>2. InRange(lp_supply) /\ InRange(reserve_a) /\ InRange(reserve_b)
  BY MathAssumption DEF InRange
<1>3. ~Overflows(lp_amount * reserve_a) /\ ~Overflows(lp_amount * reserve_b)
  <2>1. /\ lp_amount \in 0 .. MAX_SUPPLY_CAP
        /\ reserve_a \in 0 .. MAX_SUPPLY_CAP /\ reserve_b \in 0 .. MAX_SUPPLY_CAP
    BY <1>1, MathAssumption
  <2> QED
    BY <2>1, ProductFits
<1> QED
  BY <1>1, <1>2, <1>3, Zenon DEF QuoteRemoveLiquidity
=============================================================================
