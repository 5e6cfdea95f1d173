---------------------------- MODULE AmmTheorems ----------------------------
(***************************************************************************)
(* Theorems about module Amm, for any number of users, any amounts and any *)
(* constants that satisfy MathAssumption and AmmAssumption.                *)
(***************************************************************************)
EXTENDS Amm, AmmMathTheorems, TotalsTheorems

(* The two accounts a transfer touches.                                    *)
LEMMA MovedBalances ==
    ASSUME balance \in [Side -> [Accounts -> Nat]],
           NEW s \in Side, NEW from \in Accounts, NEW to \in Accounts, from # to,
           NEW n \in Nat, balance[s][from] >= n
    PROVE  /\ Moved(s, from, to, n) \in [Accounts -> Nat]
           /\ Moved(s, from, to, n)[from] = balance[s][from] - n
           /\ Moved(s, from, to, n)[to] = balance[s][to] + n
           /\ \A x \in Accounts \ {from, to} : Moved(s, from, to, n)[x] = balance[s][x]
  BY DEF Moved

LEMMA UserIsNotThePool ==
    ASSUME NEW u \in Users
    PROVE  u \in Accounts /\ u # Vault /\ Vault \in Accounts
           /\ u \in LpAccounts /\ u # Locked /\ Locked \in LpAccounts
  BY AmmAssumption DEF Accounts, LpAccounts

-----------------------------------------------------------------------------
(* The amounts of an accepted deposit: first deposits and later ones alike *)
(* take at least one unit of each side, stay in range, and mint at most    *)
(* what the ratio of the reserves allows.                                  *)
LEMMA DepositAmounts ==
    ASSUME TypeOK, NEW a \in Nat, NEW b \in Nat, DepositQuoted(a, b)
    PROVE  /\ DepositOf(a, b) \in [Side -> Nat \ {0}]
           /\ ReserveAfterDeposit(a, b) \in [Side -> 0 .. MAX_SUPPLY_CAP]
           /\ LpToUser(a, b) \in Nat \ {0} /\ LpToLock \in Nat
<1> DEFINE ra == reserve["A"]
           rb == reserve["B"]
<1>1. ra \in Nat /\ rb \in Nat /\ lp_supply \in Nat
  BY MathAssumption DEF TypeOK, Side
<1>2. LpToLock \in Nat
  BY MathAssumption DEF LpToLock
<1>3. CASE lp_supply = 0
  <2>1. /\ \A s \in Side : reserve[s] = 0
        /\ QuoteInitialLiquidity(a, b) = "Ok"
    BY <1>3 DEF DepositQuoted
  <2>2. /\ a # 0 /\ b # 0 /\ InRange(a) /\ InRange(b)
        /\ ~(InitialLp(a, b) <= MINIMUM_LIQUIDITY)
    BY <2>1, QuoteInitialLiquidityOk
  <2>3. InitialLp(a, b) \in Nat
    BY InitialLpBounds
  <2>4. LpToUser(a, b) = InitialLp(a, b) - MINIMUM_LIQUIDITY
    BY <1>3 DEF LpToUser
  <2>5. LpToUser(a, b) \in Nat \ {0}
    BY <2>2, <2>3, <2>4, MathAssumption
  <2>6. DepositOf(a, b) = [s \in Side |-> IF s = "A" THEN a ELSE b]
    BY <1>3 DEF DepositOf
  <2> QED
    BY <1>2, <2>1, <2>2, <2>5, <2>6, MathAssumption DEF ReserveAfterDeposit, InRange
<1>4. CASE lp_supply # 0
  <2> DEFINE da == DepositA(a, b, ra, rb)
             db == DepositB(a, b, ra, rb)
             minted == LpMinted(da, db, ra, rb, lp_supply)
  <2>1. QuoteAddLiquidity(a, b, ra, rb, lp_supply) = "Ok"
    BY <1>4 DEF DepositQuoted
  <2>2. /\ a # 0 /\ b # 0 /\ ra # 0 /\ rb # 0
        /\ InRange(ra + da) /\ InRange(rb + db) /\ minted # 0
    BY <1>1, <2>1, QuoteAddLiquidityOk
  <2>3. da \in Nat \ {0} /\ db \in Nat \ {0}
    <3>1. a \in Nat \ {0} /\ b \in Nat \ {0} /\ ra \in Nat \ {0} /\ rb \in Nat \ {0}
      BY <1>1, <2>2
    <3> HIDE DEF ra, rb
    <3>2. da \in 1 .. a /\ db \in 1 .. b
      BY <3>1, DepositWithinOffer
    <3> QED
      BY <3>1, <3>2
  <2>4. DepositOf(a, b) = [s \in Side |-> IF s = "A" THEN da ELSE db]
    BY <1>4 DEF DepositOf
  <2>5. LpToUser(a, b) = minted
    <3>1. DepositOf(a, b)["A"] = da /\ DepositOf(a, b)["B"] = db
      BY <2>4 DEF Side
    <3> QED
      BY <1>4, <3>1 DEF LpToUser
  <2>6. minted \in Nat
    BY <1>1, <2>2, <2>3, LpMintedBounds
  <2> HIDE DEF da, db, minted
  <2>7. ReserveAfterDeposit(a, b) \in [Side -> 0 .. MAX_SUPPLY_CAP]
    BY <1>1, <2>2, <2>3, <2>4, MathAssumption DEF ReserveAfterDeposit, InRange, Side
  <2> QED
    BY <1>2, <2>2, <2>3, <2>4, <2>5, <2>6, <2>7
<1> QED
  BY <1>3, <1>4

(* The LP tokens it mints, the locked ones included, make the supply that  *)
(* add_liquidity expects.                                                  *)
LEMMA SupplyAsExpected ==
    ASSUME NEW a, NEW b, lp_supply \in Nat, LpToUser(a, b) \in Nat, LpToLock \in Nat
    PROVE  /\ SupplyAfterDeposit(a, b) = lp_supply + LpToUser(a, b) + LpToLock
           /\ ExpectedLpSupply(a, b) = lp_supply + LpToUser(a, b) + LpToLock
<1> DEFINE minted == LpToUser(a, b)
           locked == LpToLock
<1>1. /\ SupplyAfterDeposit(a, b) = (IF locked > 0 THEN lp_supply + locked ELSE lp_supply) + minted
      /\ ExpectedLpSupply(a, b) = lp_supply + minted + locked
  BY DEF SupplyAfterDeposit, ExpectedLpSupply
<1>2. minted \in Nat /\ locked \in Nat
  OBVIOUS
<1> HIDE DEF minted, locked
<1>3. (IF locked > 0 THEN lp_supply + locked ELSE lp_supply) + minted = lp_supply + minted + locked
  BY <1>2
<1> QED
  BY <1>1, <1>3 DEF minted, locked

(* The value behind an LP token does not fall, and the pool stays in       *)
(* shape, over the three operations: stated on the amounts they compute.   *)
LEMMA DepositKeepsShareValue ==
    ASSUME TypeOK, NEW a \in Nat, NEW b \in Nat, DepositQuoted(a, b), lp_supply # 0
    PROVE  LET reserve2 == ReserveAfterDeposit(a, b)
               supply2  == lp_supply + LpToUser(a, b) + LpToLock
           IN  /\ reserve["A"] * reserve["B"] \in Nat \ {0}
               /\ reserve["A"] * reserve["B"] * supply2 * supply2
                    <= reserve2["A"] * reserve2["B"] * lp_supply * lp_supply
               /\ \A s \in Side : reserve[s] * supply2 <= reserve2[s] * lp_supply
<1> DEFINE ra == reserve["A"]
           rb == reserve["B"]
           da == DepositA(a, b, ra, rb)
           db == DepositB(a, b, ra, rb)
           minted == LpMinted(da, db, ra, rb, lp_supply)
           supply2 == lp_supply + minted
<1>1. ra \in Nat /\ rb \in Nat /\ lp_supply \in Nat
  BY MathAssumption DEF TypeOK, Side
<1>2. QuoteAddLiquidity(a, b, ra, rb, lp_supply) = "Ok"
  BY DEF DepositQuoted
<1>3. a # 0 /\ b # 0 /\ ra # 0 /\ rb # 0
  BY <1>1, <1>2, QuoteAddLiquidityOk
<1>4. da \in Nat /\ db \in Nat
  <2>1. a \in Nat \ {0} /\ b \in Nat \ {0} /\ ra \in Nat \ {0} /\ rb \in Nat \ {0}
    BY <1>1, <1>3
  <2> HIDE DEF ra, rb
  <2>2. da \in 1 .. a /\ db \in 1 .. b
    BY <2>1, DepositWithinOffer
  <2> QED
    BY <2>1, <2>2
<1>5. DepositOf(a, b) = [s \in Side |-> IF s = "A" THEN da ELSE db]
  BY DEF DepositOf
<1>6. LpToUser(a, b) = minted /\ LpToLock = 0
  <2>1. DepositOf(a, b)["A"] = da /\ DepositOf(a, b)["B"] = db
    BY <1>5 DEF Side
  <2> QED
    BY <2>1 DEF LpToUser, LpToLock
<1>7. ReserveAfterDeposit(a, b)["A"] = ra + da /\ ReserveAfterDeposit(a, b)["B"] = rb + db
  BY <1>5 DEF ReserveAfterDeposit, Side
<1>8. ra \in Nat \ {0} /\ rb \in Nat \ {0}
  BY <1>1, <1>3
<1> HIDE DEF ra, rb, da, db
<1>9. /\ minted \in Nat
      /\ ra * (lp_supply + minted) <= (ra + da) * lp_supply
      /\ rb * (lp_supply + minted) <= (rb + db) * lp_supply
  BY <1>1, <1>4, <1>8, LpMintedBounds
<1> HIDE DEF minted
<1>10. lp_supply + LpToUser(a, b) + LpToLock = supply2 /\ supply2 \in Nat
  BY <1>1, <1>6, <1>9
<1>11. ra + da \in Nat /\ rb + db \in Nat
  BY <1>4, <1>8
<1>12. ra * rb * supply2 * supply2 <= (ra + da) * (rb + db) * lp_supply * lp_supply
  BY <1>1, <1>8, <1>9, <1>10, <1>11, ShareValueFromRatios
<1>13. ra * rb \in Nat \ {0}
  BY <1>8
<1>14. \A s \in Side : reserve[s] * supply2 <= ReserveAfterDeposit(a, b)[s] * lp_supply
  <2>1. ra * supply2 <= (ra + da) * lp_supply /\ rb * supply2 <= (rb + db) * lp_supply
    BY <1>9
  <2> HIDE DEF supply2
  <2> QED
    BY <1>7, <2>1 DEF Side, ra, rb
<1> QED
  BY <1>7, <1>10, <1>12, <1>13, <1>14 DEF ra, rb

LEMMA PayoutAmounts ==
    ASSUME TypeOK, NEW n \in Nat,
           QuoteRemoveLiquidity(n, reserve["A"], reserve["B"], lp_supply) = "Ok"
    PROVE  LET paid == PayoutOf(n) IN
           /\ \A s \in Side : paid[s] \in Nat /\ paid[s] <= reserve[s]
           /\ n <= lp_supply
           /\ reserve["A"] * reserve["B"] \in Nat \ {0}
           /\ reserve["A"] * reserve["B"] * (lp_supply - n) * (lp_supply - n)
                <= (reserve["A"] - paid["A"]) * (reserve["B"] - paid["B"]) * lp_supply * lp_supply
           /\ \A s \in Side : /\ paid[s] # 0 /\ n # 0
                             /\ reserve[s] * (lp_supply - n) <= (reserve[s] - paid[s]) * lp_supply
<1> DEFINE ra == reserve["A"]
           rb == reserve["B"]
           oa == WithdrawnOf(n, ra, lp_supply)
           ob == WithdrawnOf(n, rb, lp_supply)
<1>1. ra \in Nat /\ rb \in Nat /\ lp_supply \in Nat
  BY MathAssumption DEF TypeOK, Side
<1>2. ra # 0 /\ rb # 0 /\ n # 0 /\ ~(n > lp_supply) /\ oa # 0 /\ ob # 0
  BY <1>1, QuoteRemoveLiquidityOk
<1>3. PayoutOf(n) = [s \in Side |-> IF s = "A" THEN oa ELSE ob]
  BY DEF PayoutOf, Side
<1>4. ra \in Nat \ {0} /\ rb \in Nat \ {0} /\ lp_supply \in Nat \ {0} /\ n \in 0 .. lp_supply
  BY <1>1, <1>2
<1>5. PayoutOf(n)["A"] = oa /\ PayoutOf(n)["B"] = ob
  BY <1>3 DEF Side
<1> HIDE DEF ra, rb
<1>6. oa \in 0 .. ra /\ ra * (lp_supply - n) <= (ra - oa) * lp_supply
  BY <1>4, WithdrawnOfBounds
<1>7. ob \in 0 .. rb /\ rb * (lp_supply - n) <= (rb - ob) * lp_supply
  BY <1>4, WithdrawnOfBounds
<1> HIDE DEF oa, ob
<1>8. ra - oa \in Nat /\ rb - ob \in Nat /\ lp_supply - n \in Nat
  BY <1>4, <1>6, <1>7
<1>9. ra * rb * (lp_supply - n) * (lp_supply - n) <= (ra - oa) * (rb - ob) * lp_supply * lp_supply
  BY <1>4, <1>6, <1>7, <1>8, ShareValueFromRatios
<1>10. ra * rb \in Nat \ {0}
  BY <1>4
<1>11. \A s \in Side : PayoutOf(n)[s] \in Nat /\ PayoutOf(n)[s] <= reserve[s]
  BY <1>4, <1>5, <1>6, <1>7 DEF Side, ra, rb
<1>12. \A s \in Side : /\ PayoutOf(n)[s] # 0 /\ n # 0
                       /\ reserve[s] * (lp_supply - n) <= (reserve[s] - PayoutOf(n)[s]) * lp_supply
  BY <1>2, <1>5, <1>6, <1>7 DEF Side, ra, rb
<1> QED
  BY <1>4, <1>5, <1>9, <1>10, <1>11, <1>12 DEF ra, rb

LEMMA SwapAmounts ==
    ASSUME TypeOK, NEW In \in Side, NEW n \in Nat,
           QuoteSwap(n, reserve[In], reserve[Other(In)], fee_bps) = "Ok"
    PROVE  /\ n # 0
           /\ SwapOut(In, n) \in Nat
           /\ SwapOut(In, n) # 0 /\ SwapOut(In, n) < reserve[Other(In)]
           /\ SwapOut(In, n) <= reserve[Other(In)]
           /\ reserve[In] + n <= MAX_SUPPLY_CAP
           /\ reserve["A"] * reserve["B"] \in Nat \ {0}
<1> DEFINE ri == reserve[In]
           ro == reserve[Other(In)]
<1>1. ri \in Nat /\ ro \in Nat /\ fee_bps \in Nat /\ Other(In) \in Side
  BY MathAssumption DEF TypeOK, Side, Other
<1>2. n # 0 /\ ri # 0 /\ ro # 0 /\ InRange(ri + n) /\ AmountOut(n, ri, ro, fee_bps) # 0
  BY <1>1, QuoteSwapOk
<1>3. ri \in Nat \ {0} /\ ro \in Nat \ {0} /\ fee_bps \in 0 .. MAX_FEE_BPS
  BY <1>1, <1>2 DEF TypeOK
<1>4. reserve["A"] \in Nat \ {0} /\ reserve["B"] \in Nat \ {0}
  BY <1>3 DEF Side, Other
<1>5. SwapOut(In, n) = AmountOut(n, ri, ro, fee_bps)
  BY DEF SwapOut
<1> HIDE DEF ri, ro
<1>6. AmountOut(n, ri, ro, fee_bps) \in Nat /\ AmountOut(n, ri, ro, fee_bps) < ro
  BY <1>3, AmountOutBounds
<1>7. reserve["A"] * reserve["B"] \in Nat \ {0}
  BY <1>4
<1> QED
  BY <1>2, <1>3, <1>5, <1>6, <1>7 DEF InRange, ri, ro

LEMMA FirstDepositIsBacked ==
    ASSUME TypeOK, NEW a \in Nat, NEW b \in Nat, DepositQuoted(a, b), lp_supply = 0
    PROVE  LET reserve2 == ReserveAfterDeposit(a, b)
               supply2  == lp_supply + LpToUser(a, b) + LpToLock
           IN  /\ reserve["A"] = 0 /\ reserve["B"] = 0
               /\ supply2 * supply2 <= reserve2["A"] * reserve2["B"]
<1>1. reserve["A"] = 0 /\ reserve["B"] = 0
  BY DEF DepositQuoted, Side
<1>2. DepositOf(a, b) = [s \in Side |-> IF s = "A" THEN a ELSE b]
  BY DEF DepositOf
<1>3. ReserveAfterDeposit(a, b)["A"] = a /\ ReserveAfterDeposit(a, b)["B"] = b
  BY <1>1, <1>2 DEF ReserveAfterDeposit, Side
<1>4. /\ InitialLp(a, b) \in Nat
      /\ InitialLp(a, b) * InitialLp(a, b) <= a * b
  BY InitialLpBounds
<1>5. lp_supply + LpToUser(a, b) + LpToLock = InitialLp(a, b)
  BY <1>4, MathAssumption DEF LpToUser, LpToLock
<1> QED
  BY <1>1, <1>3, <1>4, <1>5

-----------------------------------------------------------------------------
(* Steps.  What one step does to the value behind an LP token, and to what *)
(* the vaults hold beyond the reserves.                                    *)

ShareValueStep ==
    reserve'["A"] * reserve'["B"] * lp_supply * lp_supply
      >= reserve["A"] * reserve["B"] * lp_supply' * lp_supply'

SurplusStep ==
    \A s \in Side : balance'[s][Vault] - reserve'[s] >= balance[s][Vault] - reserve[s]

LEMMA AddLiquidityStep ==
    ASSUME TypeOK, LpBacked, NEW u \in Users, NEW a \in Nat, NEW b \in Nat,
           NEW a_min, NEW b_min, NEW min_lp_out,
           AddLiquidity(u, a, b, a_min, b_min, min_lp_out)
    PROVE  TypeOK' /\ LpBacked' /\ ShareValueStep /\ SurplusStep
<1> DEFINE amount == DepositOf(a, b)
           minted == LpToUser(a, b)
<1>1. DepositQuoted(a, b) /\ \A s \in Side : balance[s][u] >= amount[s]
  BY DEF AddLiquidity, CanAddLiquidity, AcceptsDeposit, CanMove
<1>2. /\ amount \in [Side -> Nat \ {0}]
      /\ ReserveAfterDeposit(a, b) \in [Side -> 0 .. MAX_SUPPLY_CAP]
      /\ minted \in Nat \ {0} /\ LpToLock \in Nat
  BY <1>1, DepositAmounts
<1>3. /\ balance' = [s \in Side |-> Moved(s, u, Vault, amount[s])]
      /\ lp' = [lp EXCEPT ![Locked] = @ + LpToLock, ![u] = @ + minted]
      /\ lp_supply' = lp_supply + minted + LpToLock
      /\ reserve' = ReserveAfterDeposit(a, b)
      /\ UNCHANGED <<pool_exists, fee_bps, supply, frozen, policy, paused>>
  BY <1>2, SupplyAsExpected
  DEF AddLiquidity, BalanceAfterDeposit, LpAfterDeposit, TypeOK, controlVars
<1>4. ReserveAfterDeposit(a, b) = [s \in Side |-> reserve[s] + amount[s]]
  BY DEF ReserveAfterDeposit
<1> HIDE DEF amount, minted
<1>5. u \in Accounts /\ Vault \in Accounts /\ u # Vault
  BY UserIsNotThePool
<1>6. \A s \in Side : /\ Moved(s, u, Vault, amount[s]) \in [Accounts -> Nat]
                      /\ Moved(s, u, Vault, amount[s])[Vault] = balance[s][Vault] + amount[s]
  BY <1>1, <1>2, <1>5, MovedBalances DEF TypeOK
<1>7. TypeOK'
  <2>1. balance' \in [Side -> [Accounts -> Nat]]
    BY <1>3, <1>6
  <2>2. lp' \in [LpAccounts -> Nat]
    <3>1. u \in LpAccounts /\ Locked \in LpAccounts /\ u # Locked
      BY UserIsNotThePool
    <3>2. lp \in [LpAccounts -> Nat]
      BY DEF TypeOK
    <3> QED
      BY <1>2, <1>3, <3>1, <3>2
  <2>3. lp_supply' \in Nat
    BY <1>2, <1>3 DEF TypeOK
  <2> QED
    BY <1>2, <1>3, <2>1, <2>2, <2>3 DEF TypeOK
<1>8. SurplusStep
  <2> SUFFICES ASSUME NEW s \in Side
               PROVE  balance'[s][Vault] - reserve'[s] >= balance[s][Vault] - reserve[s]
    BY DEF SurplusStep
  <2>1. balance'[s][Vault] = balance[s][Vault] + amount[s] /\ reserve'[s] = reserve[s] + amount[s]
    BY <1>3, <1>4, <1>6
  <2>2. balance[s][Vault] \in Nat /\ reserve[s] \in Nat /\ amount[s] \in Nat
    BY <1>2, <1>5, MathAssumption DEF TypeOK
  <2> QED
    BY <2>1, <2>2
<1>9. lp_supply \in Nat /\ lp_supply' \in Nat /\ reserve["A"] \in Nat /\ reserve["B"] \in Nat
      /\ reserve'["A"] \in Nat /\ reserve'["B"] \in Nat
  BY <1>7, MathAssumption DEF TypeOK, Side
<1>10. CASE lp_supply = 0
  <2>1. /\ reserve["A"] = 0
        /\ lp_supply' * lp_supply' <= reserve'["A"] * reserve'["B"]
    BY <1>1, <1>3, <1>10, FirstDepositIsBacked DEF minted
  <2> QED
    BY <1>7, <1>8, <1>9, <1>10, <2>1 DEF ShareValueStep, LpBacked
<1>11. CASE lp_supply # 0
  <2>1. /\ reserve["A"] * reserve["B"] \in Nat \ {0}
        /\ reserve["A"] * reserve["B"] * lp_supply' * lp_supply'
             <= reserve'["A"] * reserve'["B"] * lp_supply * lp_supply
    BY <1>1, <1>3, <1>11, DepositKeepsShareValue DEF minted
  <2>2. ShareValueStep
    BY <1>9, <2>1 DEF ShareValueStep
  <2>3. lp_supply' * lp_supply' <= reserve'["A"] * reserve'["B"]
    BY <1>9, <2>1, BackingFollowsShareValue, ProductNat DEF LpBacked
  <2> QED
    BY <1>7, <1>8, <2>2, <2>3 DEF LpBacked
<1> QED
  BY <1>10, <1>11

LEMMA RemoveLiquidityStep ==
    ASSUME TypeOK, LpBacked, NEW u \in Users, NEW n \in Nat, NEW min_a_out, NEW min_b_out,
           RemoveLiquidity(u, n, min_a_out, min_b_out)
    PROVE  TypeOK' /\ LpBacked' /\ ShareValueStep /\ SurplusStep
<1> DEFINE paid == PayoutOf(n)
<1>1. /\ QuoteRemoveLiquidity(n, reserve["A"], reserve["B"], lp_supply) = "Ok"
      /\ lp[u] >= n
      /\ \A s \in Side : balance[s][Vault] >= paid[s]
  BY DEF RemoveLiquidity, CanRemoveLiquidity, AcceptsWithdrawal, CanMove
<1>2. /\ \A s \in Side : paid[s] \in Nat /\ paid[s] <= reserve[s]
      /\ n <= lp_supply
      /\ reserve["A"] * reserve["B"] \in Nat \ {0}
      /\ reserve["A"] * reserve["B"] * (lp_supply - n) * (lp_supply - n)
           <= (reserve["A"] - paid["A"]) * (reserve["B"] - paid["B"]) * lp_supply * lp_supply
  BY <1>1, PayoutAmounts
<1>3. /\ balance' = [s \in Side |-> Moved(s, Vault, u, paid[s])]
      /\ lp' = [lp EXCEPT ![u] = @ - n]
      /\ lp_supply' = lp_supply - n
      /\ reserve' = [s \in Side |-> reserve[s] - paid[s]]
      /\ UNCHANGED <<pool_exists, fee_bps, supply, frozen, policy, paused>>
  BY DEF RemoveLiquidity, BalanceAfterWithdrawal, ReserveAfterWithdrawal, SupplyAfterWithdrawal,
         controlVars
<1> HIDE DEF paid
<1>4. u \in Accounts /\ Vault \in Accounts /\ u # Vault /\ u \in LpAccounts
  BY UserIsNotThePool
<1>5. \A s \in Side : /\ Moved(s, Vault, u, paid[s]) \in [Accounts -> Nat]
                      /\ Moved(s, Vault, u, paid[s])[Vault] = balance[s][Vault] - paid[s]
  BY <1>1, <1>2, <1>4, MovedBalances DEF TypeOK
<1>6. TypeOK'
  <2>1. balance' \in [Side -> [Accounts -> Nat]]
    BY <1>3, <1>5
  <2>2. lp' \in [LpAccounts -> Nat]
    BY <1>1, <1>3, <1>4 DEF TypeOK
  <2>3. lp_supply' \in Nat
    BY <1>2, <1>3 DEF TypeOK
  <2>4. reserve' \in [Side -> 0 .. MAX_SUPPLY_CAP]
    BY <1>2, <1>3, MathAssumption DEF TypeOK
  <2> QED
    BY <1>3, <2>1, <2>2, <2>3, <2>4 DEF TypeOK
<1>7. SurplusStep
  <2> SUFFICES ASSUME NEW s \in Side
               PROVE  balance'[s][Vault] - reserve'[s] >= balance[s][Vault] - reserve[s]
    BY DEF SurplusStep
  <2>1. balance'[s][Vault] = balance[s][Vault] - paid[s] /\ reserve'[s] = reserve[s] - paid[s]
    BY <1>3, <1>5
  <2>2. balance[s][Vault] \in Nat /\ reserve[s] \in Nat /\ paid[s] \in Nat
    BY <1>2, <1>4, MathAssumption DEF TypeOK
  <2> QED
    BY <2>1, <2>2
<1>8. lp_supply \in Nat /\ lp_supply' \in Nat /\ reserve["A"] \in Nat /\ reserve["B"] \in Nat
      /\ reserve'["A"] \in Nat /\ reserve'["B"] \in Nat
  BY <1>6, MathAssumption DEF TypeOK, Side
<1>9. reserve'["A"] = reserve["A"] - paid["A"] /\ reserve'["B"] = reserve["B"] - paid["B"]
  BY <1>3 DEF Side
<1>10. /\ reserve["A"] * reserve["B"] \in Nat \ {0}
       /\ reserve["A"] * reserve["B"] * lp_supply' * lp_supply'
            <= reserve'["A"] * reserve'["B"] * lp_supply * lp_supply
  BY <1>2, <1>3, <1>9
<1>11. ShareValueStep
  BY <1>8, <1>10 DEF ShareValueStep
<1>12. lp_supply' * lp_supply' <= reserve'["A"] * reserve'["B"]
  BY <1>8, <1>10, BackingFollowsShareValue, ProductNat DEF LpBacked
<1> QED
  BY <1>6, <1>7, <1>11, <1>12 DEF LpBacked

LEMMA SwapStep ==
    ASSUME TypeOK, LpBacked, NEW u \in Users, NEW In \in Side, NEW n \in Nat,
           NEW min_amount_out, Swap(u, In, n, min_amount_out)
    PROVE  TypeOK' /\ LpBacked' /\ ShareValueStep /\ SurplusStep
<1> DEFINE out == SwapOut(In, n)
           Out == Other(In)
<1>1. /\ QuoteSwap(n, reserve[In], reserve[Out], fee_bps) = "Ok"
      /\ balance[In][u] >= n
      /\ balance[Out][Vault] >= out
  BY DEF Swap, CanSwap, AcceptsSwap, CanMove
<1>2. /\ out \in Nat /\ out <= reserve[Out]
      /\ reserve[In] + n <= MAX_SUPPLY_CAP
      /\ reserve["A"] * reserve["B"] \in Nat \ {0}
  BY <1>1, SwapAmounts
<1>3. /\ balance' = [s \in Side |-> IF s = In THEN Moved(s, u, Vault, n) ELSE Moved(s, Vault, u, out)]
      /\ reserve' = [s \in Side |-> IF s = In THEN reserve[s] + n ELSE reserve[s] - out]
      /\ reserve'["A"] * reserve'["B"] >= reserve["A"] * reserve["B"]
      /\ UNCHANGED <<pool_exists, fee_bps, supply, frozen, policy, paused, lp, lp_supply>>
  BY DEF Swap, SwapRechecks, BalanceAfterSwap, ReserveAfterSwap, controlVars, lpVars
<1> HIDE DEF out
<1>4. u \in Accounts /\ Vault \in Accounts /\ u # Vault
  BY UserIsNotThePool
<1>5. In # Out /\ Out \in Side /\ \A s \in Side : s # In => s = Out
  BY DEF Side, Other
<1> HIDE DEF Out
<1>6. /\ Moved(In, u, Vault, n) \in [Accounts -> Nat]
      /\ Moved(In, u, Vault, n)[Vault] = balance[In][Vault] + n
  BY <1>1, <1>4, MovedBalances DEF TypeOK
<1>7. /\ Moved(Out, Vault, u, out) \in [Accounts -> Nat]
      /\ Moved(Out, Vault, u, out)[Vault] = balance[Out][Vault] - out
  BY <1>1, <1>2, <1>4, <1>5, MovedBalances DEF TypeOK
<1>8. TypeOK'
  <2>1. balance' \in [Side -> [Accounts -> Nat]]
    BY <1>3, <1>5, <1>6, <1>7
  <2>2. reserve' \in [Side -> 0 .. MAX_SUPPLY_CAP]
    BY <1>2, <1>3, <1>5, MathAssumption DEF TypeOK
  <2> QED
    BY <1>3, <2>1, <2>2 DEF TypeOK
<1>9. SurplusStep
  <2> SUFFICES ASSUME NEW s \in Side
               PROVE  balance'[s][Vault] - reserve'[s] >= balance[s][Vault] - reserve[s]
    BY DEF SurplusStep
  <2>1. balance[s][Vault] \in Nat /\ reserve[s] \in Nat
    BY <1>4, MathAssumption DEF TypeOK
  <2>2. CASE s = In
    BY <1>3, <1>6, <2>1, <2>2
  <2>3. CASE s # In
    BY <1>2, <1>3, <1>5, <1>7, <2>1, <2>3
  <2> QED
    BY <2>2, <2>3
<1>10. lp_supply \in Nat /\ lp_supply' = lp_supply
       /\ reserve["A"] \in Nat /\ reserve["B"] \in Nat
       /\ reserve'["A"] \in Nat /\ reserve'["B"] \in Nat
  BY <1>3, <1>8, MathAssumption DEF TypeOK, Side
<1>11. ShareValueStep
  <2> DEFINE k == reserve["A"] * reserve["B"]
             k2 == reserve'["A"] * reserve'["B"]
             l == lp_supply
  <2>1. k \in Nat /\ k2 \in Nat /\ l \in Nat /\ k <= k2
    BY <1>3, <1>10
  <2>2. ShareValueStep <=> k2 * l * l >= k * l * l
    BY <1>10 DEF ShareValueStep
  <2> HIDE DEF k, k2, l
  <2>3. k * (l * l) <= k2 * (l * l)
    BY <2>1, ProductMonotone, ProductNat
  <2>4. k2 * l * l >= k * l * l
    BY <2>1, <2>3
  <2> QED
    BY <2>2, <2>4
<1>12. lp_supply' * lp_supply' <= reserve'["A"] * reserve'["B"]
  BY <1>3, <1>10 DEF LpBacked
<1> QED
  BY <1>8, <1>9, <1>11, <1>12 DEF LpBacked

-----------------------------------------------------------------------------
(* Steps that leave the reserves alone: what is behind an LP token can     *)
(* only grow, since LP tokens burn but are not minted outside the pool.    *)
LEMMA ReservesAlone ==
    ASSUME TypeOK, TypeOK', LpBacked, UNCHANGED reserve, lp_supply' <= lp_supply,
           \A s \in Side : balance'[s][Vault] >= balance[s][Vault]
    PROVE  LpBacked' /\ ShareValueStep /\ SurplusStep
<1> DEFINE k == reserve["A"] * reserve["B"]
           l == lp_supply
           l2 == lp_supply'
<1>1. k \in Nat /\ l \in Nat /\ l2 \in Nat /\ l2 <= l
  <2>1. reserve["A"] \in Nat /\ reserve["B"] \in Nat /\ lp_supply \in Nat /\ lp_supply' \in Nat
    BY MathAssumption DEF TypeOK, Side
  <2> QED
    BY <2>1, ProductNat
<1>2. reserve'["A"] = reserve["A"] /\ reserve'["B"] = reserve["B"]
  OBVIOUS
<1>3. l * l <= k
  BY DEF LpBacked
<1>4. LpBacked' <=> l2 * l2 <= k
  BY <1>2 DEF LpBacked
<1>5. ShareValueStep <=> k * l * l >= k * l2 * l2
  BY <1>2 DEF ShareValueStep
<1>6. SurplusStep
  <2>1. \A s \in Side : /\ balance[s][Vault] \in Nat /\ balance'[s][Vault] \in Nat
                        /\ reserve[s] \in Nat /\ reserve'[s] = reserve[s]
    BY MathAssumption DEF TypeOK, Accounts
  <2> QED
    BY <2>1 DEF SurplusStep
<1> HIDE DEF k, l, l2
<1>7. l2 * l2 <= l * l
  <2>1. l2 * l2 <= l * l2
    BY <1>1, ProductMonotone
  <2>2. l2 * l <= l * l
    BY <1>1, ProductMonotone
  <2> QED
    BY <1>1, <2>1, <2>2, ProductNat
<1>8. l2 * l2 \in Nat /\ l * l \in Nat
  BY <1>1, ProductNat
<1>9. (l2 * l2) * k <= (l * l) * k
  BY <1>1, <1>7, <1>8, ProductMonotone
<1>10. k * l2 * l2 = (l2 * l2) * k /\ k * l * l = (l * l) * k
  BY <1>1
<1>11. (l2 * l2) * k \in Nat /\ (l * l) * k \in Nat
  BY <1>1, <1>8, ProductNat
<1>12. l2 * l2 <= k
  BY <1>1, <1>3, <1>7, <1>8
<1> QED
  BY <1>4, <1>5, <1>6, <1>9, <1>10, <1>11, <1>12

LEMMA OutsideStepKeeps ==
    ASSUME TypeOK, LpBacked, OutsideStep
    PROVE  TypeOK' /\ LpBacked' /\ ShareValueStep /\ SurplusStep
<1> DEFINE Kept == /\ TypeOK' /\ UNCHANGED <<pool_exists, reserve>>
                   /\ lp_supply' <= lp_supply
                   /\ \A s \in Side : balance'[s][Vault] >= balance[s][Vault]
<1>1. /\ lp_supply \in Nat /\ lp \in [LpAccounts -> Nat]
      /\ supply \in [Side -> 0 .. SupplyCap]
      /\ balance \in [Side -> [Accounts -> Nat]]
      /\ frozen \in [Side -> [Accounts -> BOOLEAN]]
      /\ policy \in [Side -> [Accounts -> Status \cup {"None"}]]
      /\ paused \in [Side -> BOOLEAN]
  BY DEF TypeOK
<1>2. Vault \in Accounts /\ \A u \in Users : u \in Accounts /\ u # Vault /\ u \in LpAccounts
  BY UserIsNotThePool DEF Accounts
<1>3. /\ IssueAmounts \subseteq Nat /\ GiftAmounts \subseteq Nat /\ LpAmounts \subseteq Nat
      /\ PolicyMoves \subseteq Accounts \X Status /\ PausableSides \subseteq Side
      /\ SupplyCap \in Nat
  BY AmmAssumption, MathAssumption DEF Accounts
<1>4. ASSUME NEW s \in Side, NEW move \in PolicyMoves, SetWalletPolicy(s, move[1], move[2])
      PROVE  Kept
  <2>1. move[1] \in Accounts /\ move[2] \in Status
    BY <1>3
  <2>2. /\ policy' = [policy EXCEPT ![s][move[1]] = move[2]]
        /\ frozen' = [frozen EXCEPT ![s][move[1]] = (move[2] = "Blocked")]
        /\ UNCHANGED <<pool_exists, fee_bps, reserve, supply, balance, paused, lp, lp_supply>>
    BY <1>4 DEF SetWalletPolicy, poolVars, tokenVars, lpVars
  <2>3. policy' \in [Side -> [Accounts -> Status \cup {"None"}]]
    BY <1>1, <2>1, <2>2
  <2>4. frozen' \in [Side -> [Accounts -> BOOLEAN]]
    BY <1>1, <2>1, <2>2
  <2> QED
    BY <1>1, <1>2, <2>2, <2>3, <2>4 DEF TypeOK
<1>5. ASSUME NEW s \in PausableSides, SetPause(s)
      PROVE  Kept
  BY <1>1, <1>2, <1>3, <1>5 DEF SetPause, TypeOK, poolVars, tokenVars, lpVars
<1>6. ASSUME NEW s \in Side, NEW x \in Accounts, NEW n \in IssueAmounts, MintTo(s, x, n)
      PROVE  Kept
  <2>1. /\ n \in Nat /\ balance' = [balance EXCEPT ![s][x] = @ + n]
        /\ supply[s] + n <= SupplyCap /\ supply' = [supply EXCEPT ![s] = @ + n]
        /\ UNCHANGED <<pool_exists, fee_bps, reserve, frozen, policy, paused, lp, lp_supply>>
    BY <1>3, <1>6 DEF MintTo, poolVars, lpVars, controlVars
  <2>2. balance' \in [Side -> [Accounts -> Nat]]
    BY <1>1, <2>1
  <2>3. \A t \in Side : balance'[t][Vault] >= balance[t][Vault]
    BY <1>1, <1>2, <2>1
  <2>4. supply' \in [Side -> 0 .. SupplyCap]
    BY <1>1, <1>3, <2>1
  <2> QED
    BY <1>1, <2>1, <2>2, <2>3, <2>4 DEF TypeOK
<1>7. ASSUME NEW s \in Side, NEW u \in Users, NEW n \in IssueAmounts, Burn(s, u, n)
      PROVE  Kept
  <2>1. /\ n \in Nat /\ balance[s][u] >= n /\ balance' = [balance EXCEPT ![s][u] = @ - n]
        /\ supply[s] >= n /\ supply' = [supply EXCEPT ![s] = @ - n]
        /\ UNCHANGED <<pool_exists, fee_bps, reserve, frozen, policy, paused, lp, lp_supply>>
    BY <1>3, <1>7 DEF Burn, poolVars, lpVars, controlVars
  <2>2. balance' \in [Side -> [Accounts -> Nat]]
    BY <1>1, <1>2, <2>1
  <2>3. \A t \in Side : balance'[t][Vault] >= balance[t][Vault]
    BY <1>1, <1>2, <2>1
  <2>4. supply' \in [Side -> 0 .. SupplyCap]
    BY <1>1, <1>3, <2>1
  <2> QED
    BY <1>1, <2>1, <2>2, <2>3, <2>4 DEF TypeOK
<1>8. ASSUME NEW s \in Side, NEW u \in Users, NEW x \in Accounts, NEW n \in GiftAmounts,
             Transfer(s, u, x, n)
      PROVE  Kept
  <2>1. /\ n \in Nat /\ x # u /\ balance[s][u] >= n
        /\ balance' = [balance EXCEPT ![s] = Moved(s, u, x, n)]
        /\ UNCHANGED <<pool_exists, fee_bps, reserve, supply, frozen, policy, paused, lp, lp_supply>>
    BY <1>3, <1>8 DEF Transfer, CanMove, poolVars, lpVars, controlVars
  <2>2. /\ Moved(s, u, x, n) \in [Accounts -> Nat]
        /\ Moved(s, u, x, n)[x] = balance[s][x] + n
        /\ \A y \in Accounts \ {u, x} : Moved(s, u, x, n)[y] = balance[s][y]
    BY <1>1, <1>2, <2>1, MovedBalances
  <2>3. Moved(s, u, x, n)[Vault] >= balance[s][Vault]
    BY <1>1, <1>2, <2>1, <2>2
  <2>4. balance' \in [Side -> [Accounts -> Nat]]
    BY <1>1, <2>1, <2>2
  <2>5. \A t \in Side : balance'[t][Vault] >= balance[t][Vault]
    BY <1>1, <1>2, <2>1, <2>3
  <2> QED
    BY <1>1, <2>1, <2>4, <2>5 DEF TypeOK
<1>9. ASSUME NEW s \in Side, NEW u \in Users, ReopenAccount(s, u)
      PROVE  Kept
  BY <1>1, <1>2, <1>9 DEF ReopenAccount, TypeOK, poolVars, tokenVars, lpVars
<1>10. ASSUME NEW u \in Users, NEW x \in LpAccounts, NEW n \in LpAmounts, TransferLp(u, x, n)
       PROVE  Kept
  <2>1. /\ n \in Nat /\ x # u /\ lp[u] >= n
        /\ lp' = [lp EXCEPT ![u] = @ - n, ![x] = @ + n]
        /\ UNCHANGED <<pool_exists, fee_bps, reserve, supply, balance, frozen, policy, paused, lp_supply>>
    BY <1>3, <1>10 DEF TransferLp, poolVars, tokenVars, controlVars
  <2>2. lp' \in [LpAccounts -> Nat]
    BY <1>1, <1>2, <2>1
  <2> QED
    BY <1>1, <1>2, <2>1, <2>2 DEF TypeOK
<1>11. ASSUME NEW u \in Users, NEW n \in LpAmounts, BurnLp(u, n)
       PROVE  Kept
  <2>1. /\ n \in Nat /\ lp[u] >= n /\ lp_supply >= n
        /\ lp' = [lp EXCEPT ![u] = @ - n] /\ lp_supply' = lp_supply - n
        /\ UNCHANGED <<pool_exists, fee_bps, reserve, supply, balance, frozen, policy, paused>>
    BY <1>3, <1>11 DEF BurnLp, poolVars, tokenVars, controlVars
  <2>2. lp' \in [LpAccounts -> Nat] /\ lp_supply' \in Nat /\ lp_supply' <= lp_supply
    BY <1>1, <1>2, <2>1
  <2> QED
    BY <1>1, <1>2, <2>1, <2>2 DEF TypeOK
<1>12. Kept
  BY <1>4, <1>5, <1>6, <1>7, <1>8, <1>9, <1>10, <1>11 DEF OutsideStep
<1> QED
  BY <1>12, ReservesAlone

-----------------------------------------------------------------------------
(* The inductive invariant.  LpBacked is what carries share value into the *)
(* next state; that an unopened pool is empty is what initialize_pool,     *)
(* which writes zero reserves, relies on.                                  *)
EmptyBeforePool == ~pool_exists => lp_supply = 0 /\ \A s \in Side : reserve[s] = 0

IInv == TypeOK /\ LpBacked /\ EmptyBeforePool

StepFacts == IInv' /\ ShareValueStep /\ SurplusStep

LEMMA InitIsInductive ==
    ASSUME Init
    PROVE  IInv
<1>1. Endowment \in Nat /\ Endowment * Cardinality(Enrolled) \in 0 .. SupplyCap
  <2>1. Cardinality(Enrolled) \in Nat
    BY AmmAssumption, FS_CardinalityType
  <2> QED
    BY <2>1, AmmAssumption, MathAssumption, ProductNat
<1>2. TypeOK
  <2>1. 0 \in 0 .. MAX_FEE_BPS /\ 0 \in 0 .. MAX_SUPPLY_CAP
    BY MathAssumption
  <2>2. balance \in [Side -> [Accounts -> Nat]] /\ lp \in [LpAccounts -> Nat]
    BY <1>1 DEF Init
  <2>3. frozen \in [Side -> [Accounts -> BOOLEAN]] /\ paused \in [Side -> BOOLEAN]
    <3>1. \A x \in Accounts : (x \notin Enrolled) \in BOOLEAN
      OBVIOUS
    <3> QED
      BY <3>1 DEF Init
  <2>4. policy \in [Side -> [Accounts -> Status \cup {"None"}]]
    BY DEF Init, Status
  <2> QED
    BY <1>1, <2>1, <2>2, <2>3, <2>4 DEF Init, TypeOK
<1>3. reserve["A"] = 0 /\ reserve["B"] = 0 /\ lp_supply = 0
  BY DEF Init, Side
<1> QED
  BY <1>2, <1>3 DEF IInv, LpBacked, EmptyBeforePool, Side

LEMMA InitializePoolStep ==
    ASSUME IInv, NEW fee \in Nat, InitializePool(fee)
    PROVE  StepFacts
<1>1. /\ fee \in Nat /\ fee <= MAX_FEE_BPS /\ fee_bps' = fee
      /\ pool_exists' = TRUE
      /\ reserve' = [s \in Side |-> 0]
      /\ UNCHANGED <<supply, balance, lp, lp_supply, frozen, policy, paused>>
  BY AmmAssumption DEF InitializePool, tokenVars, lpVars, controlVars
<1>2. reserve = [s \in Side |-> 0] /\ lp_supply = 0
  BY DEF InitializePool, IInv, EmptyBeforePool, TypeOK
<1>3. UNCHANGED reserve
  BY <1>1, <1>2
<1>4. TypeOK'
  BY <1>1, <1>3, MathAssumption DEF IInv, TypeOK
<1>5. EmptyBeforePool'
  BY <1>1 DEF EmptyBeforePool
<1>6. lp_supply' <= lp_supply
  BY <1>1, <1>2
<1>7. \A s \in Side : balance'[s][Vault] >= balance[s][Vault]
  BY <1>1 DEF IInv, TypeOK, Accounts
<1> QED
  BY <1>3, <1>4, <1>5, <1>6, <1>7, ReservesAlone DEF IInv, StepFacts

LEMMA AddLiquidityKeeps ==
    ASSUME IInv, NEW u \in Users, NEW a \in Nat, NEW b \in Nat,
           NEW a_min, NEW b_min, NEW min_lp_out,
           AddLiquidity(u, a, b, a_min, b_min, min_lp_out)
    PROVE  StepFacts
<1>1. TypeOK' /\ LpBacked' /\ ShareValueStep /\ SurplusStep
  BY AddLiquidityStep DEF IInv
<1>2. EmptyBeforePool'
  BY DEF AddLiquidity, CanAddLiquidity, AcceptsDeposit, EmptyBeforePool
<1> QED
  BY <1>1, <1>2 DEF StepFacts, IInv

LEMMA RemoveLiquidityKeeps ==
    ASSUME IInv, NEW u \in Users, NEW n \in Nat, NEW min_a_out, NEW min_b_out,
           RemoveLiquidity(u, n, min_a_out, min_b_out)
    PROVE  StepFacts
<1>1. TypeOK' /\ LpBacked' /\ ShareValueStep /\ SurplusStep
  BY RemoveLiquidityStep DEF IInv
<1>2. EmptyBeforePool'
  BY DEF RemoveLiquidity, CanRemoveLiquidity, AcceptsWithdrawal, EmptyBeforePool
<1> QED
  BY <1>1, <1>2 DEF StepFacts, IInv

LEMMA SwapKeeps ==
    ASSUME IInv, NEW u \in Users, NEW In \in Side, NEW n \in Nat, NEW min_amount_out,
           Swap(u, In, n, min_amount_out)
    PROVE  StepFacts
<1>1. TypeOK' /\ LpBacked' /\ ShareValueStep /\ SurplusStep
  BY SwapStep DEF IInv
<1>2. EmptyBeforePool'
  BY DEF Swap, CanSwap, AcceptsSwap, EmptyBeforePool
<1> QED
  BY <1>1, <1>2 DEF StepFacts, IInv

LEMMA PoolStepKeeps ==
    ASSUME IInv, PoolStep
    PROVE  StepFacts
<1>1. Fees \subseteq Nat /\ Amounts \subseteq Nat /\ LpAmounts \subseteq Nat
  BY AmmAssumption
<1>2. CASE \E fee \in Fees : InitializePool(fee)
  BY <1>1, <1>2, InitializePoolStep
<1>3. CASE \E u \in Users, a, b \in Amounts, a_min, b_min, min_lp_out \in Minimums :
             AddLiquidity(u, a, b, a_min, b_min, min_lp_out)
  BY <1>1, <1>3, AddLiquidityKeeps
<1>4. CASE \E u \in Users, n \in LpAmounts, min_a_out, min_b_out \in Minimums :
             RemoveLiquidity(u, n, min_a_out, min_b_out)
  BY <1>1, <1>4, RemoveLiquidityKeeps
<1>5. CASE \E u \in Users, In \in Side, amount_in \in Amounts, min_amount_out \in Minimums :
             Swap(u, In, amount_in, min_amount_out)
  BY <1>1, <1>5, SwapKeeps
<1> QED
  BY <1>2, <1>3, <1>4, <1>5 DEF PoolStep

LEMMA NextKeeps ==
    ASSUME IInv, [Next]_vars
    PROVE  StepFacts
<1>1. CASE PoolStep
  BY <1>1, PoolStepKeeps
<1>2. CASE OutsideStep
  <2>1. TypeOK' /\ LpBacked' /\ ShareValueStep /\ SurplusStep
    BY <1>2, OutsideStepKeeps DEF IInv
  <2>2. EmptyBeforePool'
    <3>1. UNCHANGED <<pool_exists, reserve>>
      BY <1>2 DEF OutsideStep, SetWalletPolicy, SetPause, MintTo, Burn, Transfer,
                  ReopenAccount, TransferLp, BurnLp, poolVars
    <3>2. lp_supply' = lp_supply \/ \E n \in LpAmounts : lp_supply >= n /\ lp_supply' = lp_supply - n
      BY <1>2 DEF OutsideStep, SetWalletPolicy, SetPause, MintTo, Burn, Transfer,
                  ReopenAccount, TransferLp, BurnLp, poolVars, lpVars
    <3>3. LpAmounts \subseteq Nat
      BY AmmAssumption
    <3> QED
      BY <3>1, <3>2, <3>3 DEF EmptyBeforePool, IInv
  <2> QED
    BY <2>1, <2>2 DEF StepFacts, IInv
<1>3. CASE UNCHANGED vars
  <2>1. TypeOK' /\ UNCHANGED <<reserve, balance, lp_supply>> /\ EmptyBeforePool'
    BY <1>3 DEF vars, IInv, TypeOK, EmptyBeforePool
  <2>2. lp_supply \in Nat /\ \A s \in Side : balance[s][Vault] \in Nat
    BY DEF IInv, TypeOK, Accounts
  <2>3. lp_supply' <= lp_supply /\ \A s \in Side : balance'[s][Vault] >= balance[s][Vault]
    BY <2>1, <2>2
  <2> QED
    BY <2>1, <2>3, ReservesAlone DEF IInv, StepFacts
<1> QED
  BY <1>1, <1>2, <1>3 DEF Next

(* The invariant holds in every reachable state of the pool.               *)
THEOREM InductiveInvariant == Spec => []IInv
<1>1. Init => IInv
  BY InitIsInductive
<1>2. IInv /\ [Next]_vars => IInv'
  BY NextKeeps DEF StepFacts
<1> QED
  BY <1>1, <1>2, PTL DEF Spec

-----------------------------------------------------------------------------
(* The fields of the pool and of its accounts stay in range: reserves      *)
(* within MAX_SUPPLY_CAP, the fee within MAX_FEE_BPS, no balance, LP       *)
(* balance or LP supply below zero.                                        *)
THEOREM TypeCorrect == Spec => []TypeOK
<1>1. IInv => TypeOK
  BY DEF IInv
<1> QED
  BY <1>1, InductiveInvariant, PTL

(* The square of the LP supply never exceeds the product of the reserves,  *)
(* so no sequence of deposits, withdrawals, swaps and burns, however its   *)
(* roundings fall, leaves an LP token without its unit of liquidity.       *)
THEOREM LpAlwaysBacked == Spec => []LpBacked
<1>1. IInv => LpBacked
  BY DEF IInv
<1> QED
  BY <1>1, InductiveInvariant, PTL

(* No step of anyone lowers the value behind an LP token.                  *)
THEOREM ShareValue == Spec => ShareValueNeverFalls
<1>1. IInv /\ [Next]_vars
        => [ reserve'["A"] * reserve'["B"] * lp_supply * lp_supply
               >= reserve["A"] * reserve["B"] * lp_supply' * lp_supply' ]_vars
  BY NextKeeps DEF StepFacts, ShareValueStep
<1> QED
  BY <1>1, InductiveInvariant, PTL DEF Spec, ShareValueNeverFalls

(* No step of anyone pays out what a vault holds beyond its reserve.       *)
THEOREM Stranded == Spec => SurplusStaysStranded
<1>1. IInv /\ [Next]_vars
        => [ \A s \in Side :
               balance'[s][Vault] - reserve'[s] >= balance[s][Vault] - reserve[s] ]_vars
  BY NextKeeps DEF StepFacts, SurplusStep
<1> QED
  BY <1>1, InductiveInvariant, PTL DEF Spec, SurplusStaysStranded

(* Every vault always covers the reserve recorded for it: it starts empty  *)
(* beside a zero reserve, and no step lowers what it holds beyond it.      *)
THEOREM AlwaysSolvent == Spec => []Solvent
<1>1. Init => Solvent
  BY AmmAssumption DEF Init, Solvent, Accounts, Side
<1>2. IInv /\ Solvent /\ [Next]_vars => Solvent'
  <2> SUFFICES ASSUME IInv, Solvent, [Next]_vars, NEW s \in Side
               PROVE  balance'[s][Vault] >= reserve'[s]
    BY DEF Solvent
  <2>1. IInv' /\ balance'[s][Vault] - reserve'[s] >= balance[s][Vault] - reserve[s]
    BY NextKeeps DEF StepFacts, SurplusStep
  <2>2. balance[s][Vault] \in Nat /\ reserve[s] \in Nat /\ balance[s][Vault] >= reserve[s]
    BY MathAssumption DEF IInv, TypeOK, Accounts, Solvent
  <2>3. balance'[s][Vault] \in Nat /\ reserve'[s] \in Nat
    BY <2>1, MathAssumption DEF IInv, TypeOK, Accounts
  <2> QED
    BY <2>1, <2>2, <2>3
<1> QED
  BY <1>1, <1>2, InductiveInvariant, PTL DEF Spec

-----------------------------------------------------------------------------
(* The pool is never stuck between empty and seeded.  The step that needs  *)
(* more than the checks of the program is an LP token burnt outside it:    *)
(* that the supply stays above the locked balance then follows from the    *)
(* conservation of LP tokens, of which the pool keeps no record.           *)
LpTallied == IsFiniteSet(Units(lp, LpAccounts)) /\ lp_supply = Total(lp, LpAccounts)

Sound == LpTallied /\ EmptyOrSeeded

LEMMA InitIsSound ==
    ASSUME Init
    PROVE  Sound
<1>1. \A x \in LpAccounts : lp[x] = 0
  BY DEF Init
<1>2. LpTallied
  BY <1>1, NothingHeld DEF Init, LpTallied
<1>3. lp[Locked] = 0
  BY <1>1 DEF LpAccounts
<1> QED
  BY <1>2, <1>3 DEF Init, EmptyOrSeeded, Sound

(* LP tokens and reserves as they were.                                    *)
LEMMA NothingChangesSoundness ==
    ASSUME Sound, UNCHANGED <<reserve, lp, lp_supply>>
    PROVE  Sound'
  BY DEF Sound, LpTallied, EmptyOrSeeded, Units, Total

LEMMA SeededAfter ==
    ASSUME EnsureSeeded(reserve', lp_supply', lp'[Locked])
    PROVE  EmptyOrSeeded'
  BY DEF EnsureSeeded, EmptyOrSeeded

LEMMA AddLiquidityIsSound ==
    ASSUME IInv, Sound, NEW u \in Users, NEW a \in Amounts, NEW b \in Amounts,
           NEW a_min, NEW b_min, NEW min_lp_out,
           AddLiquidity(u, a, b, a_min, b_min, min_lp_out)
    PROVE  Sound'
<1>1. a \in Nat /\ b \in Nat /\ u \in LpAccounts /\ u # Locked /\ Locked \in LpAccounts
  BY AmmAssumption, UserIsNotThePool
<1>2. LpToUser(a, b) \in Nat /\ LpToLock \in Nat
  <2>1. DepositQuoted(a, b)
    BY DEF AddLiquidity, CanAddLiquidity, AcceptsDeposit
  <2> QED
    BY <1>1, <2>1, DepositAmounts DEF IInv
<1> DEFINE minted == LpToUser(a, b)
           locked == LpToLock
<1>3. /\ lp' = [lp EXCEPT ![Locked] = @ + locked, ![u] = @ + minted]
      /\ lp_supply' = lp_supply + minted + locked
      /\ EnsureSeeded(reserve', lp_supply', lp'[Locked])
  BY <1>2, SupplyAsExpected DEF AddLiquidity, DepositRechecks, LpAfterDeposit, IInv, TypeOK
<1>4. lp \in [LpAccounts -> Nat] /\ minted \in Nat /\ locked \in Nat
  BY <1>2 DEF IInv, TypeOK
<1> HIDE DEF minted, locked
<1>5. /\ lp' \in [LpAccounts -> Nat]
      /\ lp'[Locked] = lp[Locked] + locked /\ lp'[u] = lp[u] + minted
      /\ \A z \in LpAccounts : z # Locked /\ z # u => lp'[z] = lp[z]
  BY <1>1, <1>3, <1>4
<1>6. /\ IsFiniteSet(Units(lp', LpAccounts))
      /\ Total(lp', LpAccounts) = Total(lp, LpAccounts) - lp[Locked] - lp[u] + lp'[Locked] + lp'[u]
      /\ Total(lp, LpAccounts) \in Nat
  BY <1>1, <1>4, <1>5, TwoChanged DEF Sound, LpTallied
<1>7. lp[Locked] \in Nat /\ lp[u] \in Nat
  BY <1>1, <1>4
<1>8. Total(lp', LpAccounts) = Total(lp, LpAccounts) + minted + locked
  BY <1>4, <1>5, <1>6, <1>7
<1>9. LpTallied'
  BY <1>3, <1>6, <1>8 DEF Sound, LpTallied, Units, Total
<1> QED
  BY <1>3, <1>9, SeededAfter DEF Sound

(* LP tokens leave one account and the supply together.                    *)
LEMMA LpBurnt ==
    ASSUME IInv, LpTallied, NEW u \in Users, NEW n \in Nat, lp[u] >= n,
           lp' = [lp EXCEPT ![u] = @ - n], lp_supply' = lp_supply - n
    PROVE  LpTallied' /\ lp'[Locked] = lp[Locked] /\ lp'[Locked] <= lp_supply'
<1>1. u \in LpAccounts /\ u # Locked /\ Locked \in LpAccounts
  BY UserIsNotThePool
<1>2. lp \in [LpAccounts -> Nat]
  BY DEF IInv, TypeOK
<1>3. lp[u] \in Nat /\ lp[Locked] \in Nat
  BY <1>1, <1>2
<1>4. /\ lp'[u] = lp[u] - n /\ lp'[u] \in Nat
      /\ \A y \in LpAccounts : y # u => lp'[y] = lp[y]
  BY <1>1, <1>2, <1>3
<1>5. /\ IsFiniteSet(Units(lp', LpAccounts))
      /\ Total(lp', LpAccounts) = Total(lp, LpAccounts) - lp[u] + lp'[u]
      /\ Total(lp, LpAccounts) \in Nat
  <2>1. IsFiniteSet(Units(lp, LpAccounts))
    BY DEF LpTallied
  <2>2. u \in LpAccounts /\ lp[u] \in Nat /\ lp'[u] \in Nat
    BY <1>1, <1>3, <1>4
  <2>3. \A y \in LpAccounts : y # u => lp'[y] = lp[y]
    BY <1>4
  <2> QED
    BY ONLY <2>1, <2>2, <2>3, OneChanged
<1>6. lp[u] + lp[Locked] <= Total(lp, LpAccounts)
  BY <1>1, <1>2, TwoHoldingsArePart DEF LpTallied
<1>7. LpTallied'
  BY <1>3, <1>4, <1>5 DEF LpTallied, Units, Total
<1> QED
  BY <1>1, <1>3, <1>4, <1>5, <1>6, <1>7 DEF LpTallied

LEMMA RemoveLiquidityIsSound ==
    ASSUME IInv, Sound, NEW u \in Users, NEW n \in LpAmounts, NEW min_a_out, NEW min_b_out,
           RemoveLiquidity(u, n, min_a_out, min_b_out)
    PROVE  Sound'
<1>1. /\ n \in Nat /\ lp[u] >= n
      /\ lp' = [lp EXCEPT ![u] = @ - n] /\ lp_supply' = lp_supply - n
      /\ EnsureSeeded(reserve', lp_supply', lp[Locked])
  BY AmmAssumption
  DEF RemoveLiquidity, WithdrawalRechecks, CanRemoveLiquidity, SupplyAfterWithdrawal, NewLpSupply
<1>2. LpTallied' /\ lp'[Locked] = lp[Locked]
  BY <1>1, LpBurnt DEF Sound
<1>3. EmptyOrSeeded'
  BY <1>1, <1>2, SeededAfter
<1> QED
  BY <1>2, <1>3 DEF Sound

(* A swap takes less than the whole reserve of the side it pays out.       *)
LEMMA SwapIsSound ==
    ASSUME IInv, Sound, NEW u \in Users, NEW In \in Side, NEW n \in Amounts,
           NEW min_amount_out \in Minimums, Swap(u, In, n, min_amount_out)
    PROVE  Sound'
<1>1. n \in Nat /\ UNCHANGED <<lp, lp_supply>>
      /\ reserve'["A"] * reserve'["B"] >= reserve["A"] * reserve["B"]
      /\ QuoteSwap(n, reserve[In], reserve[Other(In)], fee_bps) = "Ok"
  BY AmmAssumption DEF Swap, SwapRechecks, CanSwap, AcceptsSwap, lpVars
<1>2. reserve["A"] * reserve["B"] \in Nat \ {0}
  BY <1>1, SwapAmounts DEF IInv
<1>3. TypeOK'
  <2>1. [Next]_vars
    BY DEF Next, PoolStep
  <2>2. StepFacts
    BY <2>1, NextKeeps
  <2> QED
    BY <2>2 DEF StepFacts, IInv
<1>4. /\ reserve["A"] \in Nat /\ reserve["B"] \in Nat
      /\ reserve'["A"] \in Nat /\ reserve'["B"] \in Nat
  BY <1>3, MathAssumption DEF IInv, TypeOK, Side
<1>5. reserve'["A"] # 0 /\ reserve'["B"] # 0
  <2>1. \A k \in Nat : 0 * k = 0 /\ k * 0 = 0
    OBVIOUS
  <2> QED
    BY <1>1, <1>2, <1>4, <2>1
<1>6. ~(reserve = [s \in Side |-> 0])
  BY <1>2 DEF Side
<1>7. MINIMUM_LIQUIDITY <= lp[Locked] /\ lp[Locked] <= lp_supply
  BY <1>6 DEF Sound, EmptyOrSeeded
<1>8. \A s \in Side : reserve'[s] > 0
  BY <1>4, <1>5 DEF Side
<1>9. EmptyOrSeeded'
  BY <1>1, <1>7, <1>8 DEF EmptyOrSeeded
<1>10. LpTallied'
  BY <1>1 DEF Sound, LpTallied, Units, Total
<1> QED
  BY <1>9, <1>10 DEF Sound

LEMMA TransferLpIsSound ==
    ASSUME IInv, Sound, NEW u \in Users, NEW x \in LpAccounts, NEW n \in LpAmounts,
           TransferLp(u, x, n)
    PROVE  Sound'
<1>1. /\ n \in Nat /\ n > 0 /\ x # u /\ lp[u] >= n
      /\ lp' = [lp EXCEPT ![u] = @ - n, ![x] = @ + n]
      /\ UNCHANGED <<reserve, lp_supply>>
  BY AmmAssumption DEF TransferLp, poolVars
<1>2. u \in LpAccounts /\ u # Locked /\ Locked \in LpAccounts
  BY UserIsNotThePool
<1>3. lp \in [LpAccounts -> Nat]
  BY DEF IInv, TypeOK
<1>4. lp[u] \in Nat /\ lp[x] \in Nat /\ lp[Locked] \in Nat
  BY <1>2, <1>3
<1>5. /\ lp' \in [LpAccounts -> Nat]
      /\ lp'[u] = lp[u] - n /\ lp'[x] = lp[x] + n
      /\ \A z \in LpAccounts : z # u /\ z # x => lp'[z] = lp[z]
  BY <1>1, <1>2, <1>3, <1>4
<1>6. /\ IsFiniteSet(Units(lp', LpAccounts))
      /\ Total(lp', LpAccounts) = Total(lp, LpAccounts) - lp[u] - lp[x] + lp'[u] + lp'[x]
      /\ Total(lp, LpAccounts) \in Nat
  <2>1. IsFiniteSet(Units(lp, LpAccounts)) /\ u # x
    BY <1>1 DEF Sound, LpTallied
  <2> QED
    BY ONLY <2>1, <1>2, <1>3, <1>5, x \in LpAccounts, TwoChanged
<1>7. Total(lp', LpAccounts) = Total(lp, LpAccounts)
  BY <1>1, <1>4, <1>5, <1>6
<1>8. LpTallied'
  BY <1>1, <1>6, <1>7 DEF Sound, LpTallied, Units, Total
<1>9. lp_supply # 0
  <2>1. lp[u] <= Total(lp, LpAccounts)
    BY <1>2, <1>4, HoldingIsPart DEF Sound, LpTallied
  <2> QED
    BY <1>1, <1>4, <1>6, <2>1 DEF Sound, LpTallied
<1>10. lp'[Locked] \in Nat /\ lp'[Locked] >= lp[Locked]
  BY <1>1, <1>2, <1>4, <1>5
<1>11. lp'[Locked] <= lp_supply'
  <2>1. lp'[Locked] <= Total(lp', LpAccounts)
    BY <1>2, <1>6, <1>10, HoldingIsPart
  <2> QED
    BY <1>1, <1>7, <2>1 DEF Sound, LpTallied
<1>12. EmptyOrSeeded'
  BY <1>1, <1>4, <1>9, <1>10, <1>11, MathAssumption DEF Sound, EmptyOrSeeded
<1> QED
  BY <1>8, <1>12 DEF Sound

LEMMA BurnLpIsSound ==
    ASSUME IInv, Sound, NEW u \in Users, NEW n \in LpAmounts, BurnLp(u, n)
    PROVE  Sound'
<1>1. /\ n \in Nat /\ n > 0 /\ lp[u] >= n
      /\ lp' = [lp EXCEPT ![u] = @ - n] /\ lp_supply' = lp_supply - n
      /\ UNCHANGED reserve
  BY AmmAssumption DEF BurnLp, poolVars
<1>2. LpTallied' /\ lp'[Locked] = lp[Locked] /\ lp'[Locked] <= lp_supply'
  BY <1>1, LpBurnt DEF Sound
<1>3. lp_supply # 0
  <2>1. u \in LpAccounts /\ lp[u] \in Nat
    BY UserIsNotThePool DEF IInv, TypeOK
  <2>2. lp[u] <= Total(lp, LpAccounts)
    BY <2>1, HoldingIsPart DEF Sound, LpTallied
  <2> QED
    BY <1>1, <2>1, <2>2 DEF Sound, LpTallied
<1>4. EmptyOrSeeded'
  BY <1>1, <1>2, <1>3 DEF Sound, EmptyOrSeeded
<1> QED
  BY <1>2, <1>4 DEF Sound

LEMMA StepIsSound ==
    ASSUME IInv, Sound, [Next]_vars
    PROVE  Sound'
<1>1. ASSUME NEW fee \in Fees, InitializePool(fee)
      PROVE  Sound'
  <2>1. reserve = [s \in Side |-> 0]
    BY <1>1 DEF InitializePool, IInv, EmptyBeforePool, TypeOK
  <2> QED
    BY <1>1, <2>1, NothingChangesSoundness DEF InitializePool, lpVars
<1>2. CASE PoolStep
  BY <1>1, <1>2, AddLiquidityIsSound, RemoveLiquidityIsSound, SwapIsSound DEF PoolStep
<1>3. CASE OutsideStep
  <2>1. ASSUME UNCHANGED <<reserve, lp, lp_supply>>
        PROVE  Sound'
    BY <2>1, NothingChangesSoundness
  <2>2. CASE \/ \E s \in Side, move \in PolicyMoves : SetWalletPolicy(s, move[1], move[2])
             \/ \E s \in PausableSides : SetPause(s)
             \/ \E s \in Side, x \in Accounts, n \in IssueAmounts : MintTo(s, x, n)
             \/ \E s \in Side, u \in Users, n \in IssueAmounts : Burn(s, u, n)
             \/ \E s \in Side, u \in Users, x \in Accounts, n \in GiftAmounts : Transfer(s, u, x, n)
             \/ \E s \in Side, u \in Users : ReopenAccount(s, u)
    BY <2>1, <2>2 DEF SetWalletPolicy, SetPause, MintTo, Burn, Transfer, ReopenAccount,
                      poolVars, lpVars
  <2> QED
    BY <1>3, <2>2, TransferLpIsSound, BurnLpIsSound DEF OutsideStep
<1>4. CASE UNCHANGED vars
  BY <1>4, NothingChangesSoundness DEF vars
<1> QED
  BY <1>2, <1>3, <1>4 DEF Next

LEMMA AlwaysSound == Spec => []Sound
<1>1. Init => Sound
  BY InitIsSound
<1>2. IInv /\ Sound /\ [Next]_vars => Sound'
  BY StepIsSound
<1> QED
  BY <1>1, <1>2, InductiveInvariant, PTL DEF Spec

(* The pool is empty or seeded, whatever holders burn or send: it never    *)
(* holds reserves it refuses to work with, nor has LP tokens no reserve    *)
(* is behind, and what is locked stays locked.                             *)
THEOREM NeverStuck == Spec => []EmptyOrSeeded
<1>1. Sound => EmptyOrSeeded
  BY DEF Sound
<1> QED
  BY <1>1, AlwaysSound, PTL

-----------------------------------------------------------------------------
(* The checks the handlers repeat after their transfers.                   *)

LEMMA DepositPassesAgain ==
    ASSUME TypeOK, NEW u \in Users, NEW a \in Nat, NEW b \in Nat,
           CanAddLiquidity(u, a, b, 0, 0, 0)
    PROVE  DepositRechecks(u, a, b)
<1> DEFINE amount == DepositOf(a, b)
           minted == LpToUser(a, b)
           locked == LpToLock
<1>1. /\ DepositQuoted(a, b) /\ EnsureSolvent(reserve, balance)
      /\ \A s \in Side : balance[s][u] >= amount[s]
  BY DEF CanAddLiquidity, AcceptsDeposit, CanMove
<1>2. amount \in [Side -> Nat \ {0}] /\ minted \in Nat \ {0} /\ locked \in Nat
  BY <1>1, DepositAmounts
<1>3. /\ lp \in [LpAccounts -> Nat] /\ lp_supply \in Nat /\ reserve \in [Side -> Nat]
      /\ balance \in [Side -> [Accounts -> Nat]]
  BY MathAssumption DEF TypeOK
<1>4. /\ ReserveAfterDeposit(a, b) = [s \in Side |-> reserve[s] + amount[s]]
      /\ BalanceAfterDeposit(u, a, b) = [s \in Side |-> Moved(s, u, Vault, amount[s])]
      /\ LpAfterDeposit(u, a, b) = [lp EXCEPT ![Locked] = @ + locked, ![u] = @ + minted]
      /\ SupplyAfterDeposit(a, b) = lp_supply + minted + locked
      /\ ExpectedLpSupply(a, b) = lp_supply + minted + locked
  BY <1>2, <1>3, SupplyAsExpected DEF ReserveAfterDeposit, BalanceAfterDeposit, LpAfterDeposit
<1>5. \/ locked = MINIMUM_LIQUIDITY /\ lp[Locked] = 0 /\ lp_supply = 0
      \/ /\ locked = 0 /\ lp_supply >= MINIMUM_LIQUIDITY
         /\ lp[Locked] >= MINIMUM_LIQUIDITY /\ lp[Locked] <= lp_supply
  BY <1>1 DEF DepositQuoted, LpToLock, EnsureSeeded
<1> HIDE DEF amount, minted, locked
<1>6. EnsureSolvent(ReserveAfterDeposit(a, b), BalanceAfterDeposit(u, a, b))
  <2> SUFFICES ASSUME NEW s \in Side
               PROVE  BalanceAfterDeposit(u, a, b)[s][Vault] >= ReserveAfterDeposit(a, b)[s]
    BY DEF EnsureSolvent
  <2>1. /\ amount[s] \in Nat /\ balance[s][u] >= amount[s] /\ balance[s][Vault] >= reserve[s]
        /\ reserve[s] \in Nat /\ balance[s][Vault] \in Nat
    BY <1>1, <1>2, <1>3, UserIsNotThePool DEF EnsureSolvent
  <2>2. Moved(s, u, Vault, amount[s])[Vault] = balance[s][Vault] + amount[s]
    BY <1>3, <2>1, MovedBalances, UserIsNotThePool
  <2> QED
    BY <1>4, <2>1, <2>2
<1>7. EnsureSeeded(ReserveAfterDeposit(a, b), ExpectedLpSupply(a, b),
                   LpAfterDeposit(u, a, b)[Locked])
  <2>1. ASSUME NEW s \in Side
        PROVE  ReserveAfterDeposit(a, b)[s] > 0
    <3>1. reserve[s] \in Nat /\ amount[s] \in Nat \ {0}
      BY <1>2, <1>3
    <3> QED
      BY <1>4, <3>1
  <2>2. LpAfterDeposit(u, a, b)[Locked] = lp[Locked] + locked /\ lp[Locked] \in Nat
    BY <1>3, <1>4, UserIsNotThePool
  <2> QED
    BY <1>2, <1>3, <1>4, <1>5, <2>1, <2>2, MathAssumption DEF EnsureSeeded
<1> QED
  BY <1>4, <1>6, <1>7 DEF DepositRechecks

(* Less than all LP tokens redeem less than the whole reserve.             *)
LEMMA PartIsLess ==
    ASSUME NEW l \in Nat, NEW n \in Nat, n < l, NEW r \in Nat \ {0}
    PROVE  WithdrawnOf(n, r, l) \in Nat /\ WithdrawnOf(n, r, l) < r
<1> DEFINE out == (n * r) \div l
<1>1. out \in Nat /\ out * l <= n * r
  BY DivBounds
<1> HIDE DEF out
<1>2. n * r < l * r
  OBVIOUS
<1>3. ASSUME out >= r PROVE FALSE
  <2>1. r * l <= out * l
    BY <1>1, <1>3, ProductMonotone
  <2> QED
    BY <1>1, <1>2, <2>1
<1> QED
  BY <1>1, <1>3 DEF WithdrawnOf, out

LEMMA WithdrawalPassesAgain ==
    ASSUME TypeOK, NEW u \in Users, NEW n \in Nat, CanRemoveLiquidity(u, n, 0, 0)
    PROVE  WithdrawalRechecks(u, n)
<1> DEFINE paid == PayoutOf(n)
<1>1. /\ EnsureSolvent(reserve, balance) /\ EnsureSeeded(reserve, lp_supply, lp[Locked])
      /\ lp_supply - n >= lp[Locked]
      /\ \A s \in Side : balance[s][Vault] >= paid[s]
  BY DEF CanRemoveLiquidity, AcceptsWithdrawal, NewLpSupply, CanMove
<1>2. /\ lp[Locked] \in Nat /\ lp_supply \in Nat /\ reserve \in [Side -> Nat]
      /\ balance \in [Side -> [Accounts -> Nat]]
  BY MathAssumption DEF TypeOK, LpAccounts
<1>3. lp[Locked] >= MINIMUM_LIQUIDITY /\ n < lp_supply /\ \A s \in Side : reserve[s] > 0
  BY <1>1, <1>2, MathAssumption DEF EnsureSeeded
<1>4. \A s \in Side : paid[s] \in Nat /\ paid[s] < reserve[s]
  BY <1>2, <1>3, PartIsLess DEF PayoutOf
<1>5. /\ ReserveAfterWithdrawal(n) = [s \in Side |-> reserve[s] - paid[s]]
      /\ BalanceAfterWithdrawal(u, n) = [s \in Side |-> Moved(s, Vault, u, paid[s])]
  BY DEF ReserveAfterWithdrawal, BalanceAfterWithdrawal
<1> HIDE DEF paid
<1>6. EnsureSolvent(ReserveAfterWithdrawal(n), BalanceAfterWithdrawal(u, n))
  <2> SUFFICES ASSUME NEW s \in Side
               PROVE  BalanceAfterWithdrawal(u, n)[s][Vault] >= ReserveAfterWithdrawal(n)[s]
    BY DEF EnsureSolvent
  <2>1. /\ paid[s] \in Nat /\ balance[s][Vault] >= paid[s] /\ balance[s][Vault] >= reserve[s]
        /\ reserve[s] \in Nat /\ balance[s][Vault] \in Nat
    BY <1>1, <1>2, <1>4, UserIsNotThePool DEF EnsureSolvent
  <2>2. Moved(s, Vault, u, paid[s])[Vault] = balance[s][Vault] - paid[s]
    BY <1>2, <2>1, MovedBalances, UserIsNotThePool
  <2> QED
    BY <1>5, <2>1, <2>2
<1>7. EnsureSeeded(ReserveAfterWithdrawal(n), lp_supply - n, lp[Locked])
  <2>1. \A s \in Side : ReserveAfterWithdrawal(n)[s] > 0
    BY <1>2, <1>4, <1>5
  <2> QED
    BY <1>1, <1>2, <1>3, <2>1, MathAssumption DEF EnsureSeeded
<1> QED
  BY <1>6, <1>7 DEF WithdrawalRechecks, SupplyAfterWithdrawal, NewLpSupply

LEMMA SwapPassesAgain ==
    ASSUME TypeOK, NEW u \in Users, NEW In \in Side, NEW n \in Nat, CanSwap(u, In, n, 0)
    PROVE  SwapRechecks(u, In, n)
<1> DEFINE Out == Other(In)
           out == SwapOut(In, n)
<1>1. /\ EnsureSolvent(reserve, balance) /\ QuoteSwap(n, reserve[In], reserve[Out], fee_bps) = "Ok"
      /\ balance[In][u] >= n /\ balance[Out][Vault] >= out
  BY DEF CanSwap, AcceptsSwap, CanMove
<1>2. /\ In # Out /\ Out \in Side /\ \A s \in Side : s = In \/ s = Out
      /\ reserve \in [Side -> Nat] /\ fee_bps \in Nat /\ balance \in [Side -> [Accounts -> Nat]]
  BY MathAssumption DEF TypeOK, Side, Other
<1>3. out \in Nat /\ out <= reserve[Out]
  BY <1>1, SwapAmounts
<1>4. (reserve[In] + n) * (reserve[Out] - out) >= reserve[In] * reserve[Out]
  <2>1. reserve[In] \in Nat /\ reserve[Out] \in Nat
    BY <1>2
  <2>2. ~((reserve[In] + n) * (reserve[Out] - out) < reserve[In] * reserve[Out])
    <3> HIDE DEF Out
    <3>1. out = AmountOut(n, reserve[In], reserve[Out], fee_bps)
      BY DEF SwapOut, Out
    <3> HIDE DEF out
    <3> QED
      BY <1>1, <1>2, <2>1, <3>1, QuoteSwapKeepsProduct
  <2>3. reserve[In] + n \in Nat /\ reserve[Out] - out \in Nat
    BY <1>3, <2>1
  <2> HIDE DEF out, Out
  <2> QED
    BY <2>1, <2>2, <2>3, ProductNat
<1> HIDE DEF out
<1>5. /\ ReserveAfterSwap(In, n) = [s \in Side |-> IF s = In THEN reserve[s] + n ELSE reserve[s] - out]
      /\ BalanceAfterSwap(u, In, n) =
             [s \in Side |-> IF s = In THEN Moved(s, u, Vault, n) ELSE Moved(s, Vault, u, out)]
  BY DEF ReserveAfterSwap, BalanceAfterSwap, out
<1>6. ReserveAfterSwap(In, n)["A"] * ReserveAfterSwap(In, n)["B"] >= reserve["A"] * reserve["B"]
  <2>1. ReserveAfterSwap(In, n)[In] = reserve[In] + n /\ ReserveAfterSwap(In, n)[Out] = reserve[Out] - out
    BY <1>2, <1>5
  <2>2. /\ reserve["A"] \in Nat /\ reserve["B"] \in Nat
        /\ ReserveAfterSwap(In, n)["A"] \in Int /\ ReserveAfterSwap(In, n)["B"] \in Int
    BY <1>2, <1>3, <2>1 DEF Side
  <2>3. CASE In = "A"
    BY <1>4, <2>1, <2>3 DEF Other
  <2>4. CASE In = "B"
    <3>1. /\ ReserveAfterSwap(In, n)["B"] * ReserveAfterSwap(In, n)["A"] >= reserve["B"] * reserve["A"]
      BY <1>4, <2>1, <2>4 DEF Other
    <3> QED
      BY <2>2, <3>1
  <2> QED
    BY <2>3, <2>4 DEF Side
<1>7. EnsureSolvent(ReserveAfterSwap(In, n), BalanceAfterSwap(u, In, n))
  <2>1. /\ reserve[In] \in Nat /\ balance[In][Vault] \in Nat /\ balance[In][Vault] >= reserve[In]
        /\ reserve[Out] \in Nat /\ balance[Out][Vault] \in Nat /\ balance[Out][Vault] >= reserve[Out]
    BY <1>1, <1>2, UserIsNotThePool DEF EnsureSolvent
  <2>2. Moved(In, u, Vault, n)[Vault] = balance[In][Vault] + n
    BY <1>1, <1>2, MovedBalances, UserIsNotThePool
  <2>3. Moved(Out, Vault, u, out)[Vault] = balance[Out][Vault] - out
    BY <1>1, <1>2, <1>3, MovedBalances, UserIsNotThePool
  <2>4. BalanceAfterSwap(u, In, n)[In][Vault] >= ReserveAfterSwap(In, n)[In]
    BY <1>2, <1>5, <2>1, <2>2
  <2>5. BalanceAfterSwap(u, In, n)[Out][Vault] >= ReserveAfterSwap(In, n)[Out]
    BY <1>2, <1>3, <1>5, <2>1, <2>3
  <2> QED
    BY <1>2, <2>4, <2>5 DEF EnsureSolvent
<1> QED
  BY <1>6, <1>7 DEF SwapRechecks

(* What passes the checks before the transfers passes those after them.    *)
THEOREM RechecksHold == Spec => []RechecksNeverFire
<1>1. TypeOK => RechecksNeverFire
  BY DepositPassesAgain, WithdrawalPassesAgain, SwapPassesAgain, AmmAssumption
     DEF RechecksNeverFire
<1> QED
  BY <1>1, TypeCorrect, PTL

(* Nobody's LP tokens and the locked ones are more than there are, and     *)
(* there are never more than the cap.                                      *)
LEMMA LpWithinSupply ==
    ASSUME IInv, Sound, NEW u \in Users
    PROVE  /\ lp[u] \in Nat /\ lp[Locked] \in Nat
           /\ lp[u] + lp[Locked] <= lp_supply
           /\ lp_supply \in 0 .. MAX_SUPPLY_CAP
<1>1. /\ lp \in [LpAccounts -> Nat] /\ lp_supply \in Nat /\ MAX_SUPPLY_CAP \in Nat
      /\ reserve["A"] \in 0 .. MAX_SUPPLY_CAP /\ reserve["B"] \in 0 .. MAX_SUPPLY_CAP
      /\ lp_supply * lp_supply <= reserve["A"] * reserve["B"]
  BY MathAssumption DEF IInv, TypeOK, LpBacked, Side
<1>2. lp[u] + lp[Locked] <= lp_supply
  BY <1>1, UserIsNotThePool, TwoHoldingsArePart DEF Sound, LpTallied
<1>3. ASSUME lp_supply > MAX_SUPPLY_CAP PROVE FALSE
  <2> DEFINE c == MAX_SUPPLY_CAP
             l == lp_supply
             ra == reserve["A"]
             rb == reserve["B"]
  <2>1. /\ c \in Nat /\ l \in Nat /\ ra \in Nat /\ rb \in Nat /\ ra <= c /\ rb <= c /\ c + 1 <= l
        /\ l * l <= ra * rb
    BY <1>1, <1>3
  <2> HIDE DEF c, l, ra, rb
  <2>2. ra * rb <= c * rb /\ rb * c <= c * c
    BY <2>1, ProductMonotone
  <2>3. (c + 1) * (c + 1) <= l * (c + 1) /\ (c + 1) * l <= l * l
    BY <2>1, ProductMonotone
  <2> QED
    BY <2>1, <2>2, <2>3
<1> QED
  BY <1>1, <1>2, <1>3, UserIsNotThePool

LEMMA ExitPasses ==
    ASSUME IInv, Solvent, Sound, NEW u \in Users, EnsureUnpaused, WalletAllowed(u),
           \A s \in Side : ~frozen[s][u] /\ ~frozen[s][Vault],
           lp[u] > 0, \A s \in Side : PayoutOf(lp[u])[s] > 0
    PROVE  CanRemoveLiquidity(u, lp[u], 0, 0) /\ WithdrawalRechecks(u, lp[u])
<1> DEFINE n == lp[u]
           paid == PayoutOf(n)
<1>1. /\ n \in Nat \ {0} /\ lp[Locked] \in Nat /\ n + lp[Locked] <= lp_supply
      /\ lp_supply \in 0 .. MAX_SUPPLY_CAP
  BY LpWithinSupply
<1>2. pool_exists
  BY <1>1, MathAssumption DEF IInv, EmptyBeforePool, TypeOK
<1>3. EnsureSeeded(reserve, lp_supply, lp[Locked])
  BY <1>1, MathAssumption DEF Sound, EmptyOrSeeded, EnsureSeeded
<1>4. /\ reserve["A"] \in 1 .. MAX_SUPPLY_CAP /\ reserve["B"] \in 1 .. MAX_SUPPLY_CAP
      /\ lp_supply - n >= lp[Locked] /\ lp_supply - n >= MINIMUM_LIQUIDITY
  BY <1>1, <1>3, MathAssumption DEF EnsureSeeded, IInv, TypeOK, Side
<1>5. /\ WithdrawnOf(n, reserve["A"], lp_supply) # 0 /\ WithdrawnOf(n, reserve["B"], lp_supply) # 0
  BY DEF PayoutOf, Side
<1>6. QuoteRemoveLiquidity(n, reserve["A"], reserve["B"], lp_supply) = "Ok"
  BY <1>1, <1>4, <1>5, QuoteRemoveLiquidityPasses
<1>7. \A s \in Side : /\ paid[s] \in Nat /\ paid[s] <= reserve[s]
                      /\ reserve[s] \in Nat /\ balance[s][Vault] \in Nat
                      /\ balance[s][Vault] >= reserve[s]
  BY <1>1, <1>6, PayoutAmounts, UserIsNotThePool, MathAssumption DEF IInv, TypeOK, Solvent
<1>8. \A s \in Side : CanMove(s, Vault, u, paid[s])
  BY <1>7 DEF CanMove, EnsureUnpaused
<1>9. paid["A"] >= 0 /\ paid["B"] >= 0 /\ n > 0
  BY <1>1, <1>7 DEF Side
<1>10. CanRemoveLiquidity(u, n, 0, 0)
  <2>1. EnsureSolvent(reserve, balance)
    BY DEF Solvent, EnsureSolvent
  <2>2. AcceptsWithdrawal(u, n, 0, 0)
    BY <1>2, <1>3, <1>4, <1>6, <1>9, <2>1 DEF AcceptsWithdrawal, NewLpSupply
  <2>3. lp[u] >= n
    BY <1>1
  <2> QED
    BY <1>8, <2>2, <2>3 DEF CanRemoveLiquidity
<1> QED
  BY <1>1, <1>10, WithdrawalPassesAgain DEF IInv

(* A holder can always leave whole: no donation, no LP transfer to the     *)
(* locked account and no LP burn of others can brick the pool.  It needs   *)
(* the conservation of LP tokens, of which the pool keeps no record.       *)
THEOREM ExitStaysOpen == Spec => []ExitNeverBlocked
<1>1. IInv /\ Solvent /\ Sound => ExitNeverBlocked
  BY ExitPasses DEF ExitNeverBlocked
<1> QED
  BY <1>1, InductiveInvariant, AlwaysSolvent, AlwaysSound, PTL

-----------------------------------------------------------------------------
(* Only what compliance has allowed is thawed.  The instructions of the    *)
(* pool check the caller's policies and leave the vaults to the freeze;    *)
(* this is what makes the freeze speak for the policy.                     *)
ThawedIsAllowed == \A s \in Side, x \in Accounts : ~frozen[s][x] => policy[s][x] = "Allowed"

LEMMA ThawedStaysAllowed ==
    ASSUME IInv, ThawedIsAllowed, [Next]_vars
    PROVE  ThawedIsAllowed'
<1>1. ASSUME UNCHANGED <<frozen, policy>>
      PROVE  ThawedIsAllowed'
  BY <1>1 DEF ThawedIsAllowed
<1>2. CASE PoolStep
  BY <1>1, <1>2 DEF PoolStep, InitializePool, AddLiquidity, RemoveLiquidity, Swap, controlVars
<1>3. ASSUME NEW t \in Side, NEW move \in PolicyMoves, SetWalletPolicy(t, move[1], move[2])
      PROVE  ThawedIsAllowed'
  <2>1. /\ move[1] \in Accounts /\ move[2] \in {"Allowed", "Blocked"}
        /\ policy \in [Side -> [Accounts -> Status \cup {"None"}]]
        /\ frozen \in [Side -> [Accounts -> BOOLEAN]]
    BY AmmAssumption DEF Accounts, Status, IInv, TypeOK
  <2>2. /\ policy' = [policy EXCEPT ![t][move[1]] = move[2]]
        /\ frozen' = [frozen EXCEPT ![t][move[1]] = (move[2] = "Blocked")]
    BY <1>3 DEF SetWalletPolicy
  <2> SUFFICES ASSUME NEW s \in Side, NEW x \in Accounts, ~frozen'[s][x]
               PROVE  policy'[s][x] = "Allowed"
    BY DEF ThawedIsAllowed
  <2>3. CASE s = t /\ x = move[1]
    BY <2>1, <2>2, <2>3
  <2>4. CASE ~(s = t /\ x = move[1])
    <3>1. frozen'[s][x] = frozen[s][x] /\ policy'[s][x] = policy[s][x]
      BY <2>1, <2>2, <2>4
    <3> QED
      BY <3>1 DEF ThawedIsAllowed
  <2> QED
    BY <2>3, <2>4
<1>4. ASSUME NEW t \in Side, NEW u \in Users, ReopenAccount(t, u)
      PROVE  ThawedIsAllowed'
  <2>1. /\ frozen' = [frozen EXCEPT ![t][u] = TRUE] /\ UNCHANGED policy
        /\ u \in Accounts /\ frozen \in [Side -> [Accounts -> BOOLEAN]]
    BY <1>4, UserIsNotThePool DEF ReopenAccount, IInv, TypeOK
  <2>2. \A s \in Side, x \in Accounts : ~frozen'[s][x] => ~frozen[s][x]
    BY <2>1
  <2> QED
    BY <2>1, <2>2 DEF ThawedIsAllowed
<1>5. CASE OutsideStep
  BY <1>1, <1>3, <1>4, <1>5
     DEF OutsideStep, SetPause, MintTo, Burn, Transfer, TransferLp, BurnLp, controlVars
<1>6. CASE UNCHANGED vars
  BY <1>1, <1>6 DEF vars
<1> QED
  BY <1>2, <1>5, <1>6 DEF Next

(* What a step that moves the reserves needs.                              *)
PermittedStep ==
    reserve' # reserve =>
        /\ \A s \in Side : ~paused[s] /\ policy[s][Vault] = "Allowed"
        /\ \A u \in Users :
             (\E s \in Side : balance'[s][u] # balance[s][u]) => WalletAllowed(u)

LEMMA PoolStepIsPermitted ==
    ASSUME IInv, ThawedIsAllowed, PoolStep
    PROVE  PermittedStep
<1>1. ASSUME NEW fee \in Fees, InitializePool(fee)
      PROVE  PermittedStep
  <2>1. reserve = [s \in Side |-> 0]
    BY <1>1 DEF InitializePool, IInv, EmptyBeforePool, TypeOK
  <2> QED
    BY <1>1, <2>1 DEF InitializePool, PermittedStep
<1>2. ASSUME NEW u \in Users, WalletAllowed(u),
             \A s \in Side : \/ \E n : CanMove(s, u, Vault, n) /\ balance'[s] = Moved(s, u, Vault, n)
                             \/ \E n : CanMove(s, Vault, u, n) /\ balance'[s] = Moved(s, Vault, u, n)
      PROVE  PermittedStep
  <2>1. \A s \in Side : ~paused[s] /\ ~frozen[s][Vault]
    BY <1>2 DEF CanMove
  <2>2. \A s \in Side : policy[s][Vault] = "Allowed"
    BY <2>1 DEF ThawedIsAllowed, Accounts
  <2>3. \A v \in Users : v # u => \A s \in Side : balance'[s][v] = balance[s][v]
    <3> SUFFICES ASSUME NEW v \in Users, v # u, NEW s \in Side
                 PROVE  balance'[s][v] = balance[s][v]
      OBVIOUS
    <3>1. balance[s] \in [Accounts -> Nat] /\ v \in Accounts /\ v # Vault
      BY UserIsNotThePool DEF IInv, TypeOK
    <3> QED
      BY <1>2, <3>1 DEF Moved
  <2> QED
    BY <1>2, <2>1, <2>2, <2>3 DEF PermittedStep
<1>3. ASSUME NEW u \in Users, NEW a \in Amounts, NEW b \in Amounts, NEW a_min, NEW b_min,
             NEW min_lp_out, AddLiquidity(u, a, b, a_min, b_min, min_lp_out)
      PROVE  PermittedStep
  <2>1. /\ WalletAllowed(u)
        /\ \A s \in Side : CanMove(s, u, Vault, DepositOf(a, b)[s])
        /\ balance' = [s \in Side |-> Moved(s, u, Vault, DepositOf(a, b)[s])]
    BY <1>3 DEF AddLiquidity, BalanceAfterDeposit, CanAddLiquidity, AcceptsDeposit
  <2>2. \A s \in Side : balance'[s] = Moved(s, u, Vault, DepositOf(a, b)[s])
    BY <2>1
  <2> QED
    BY <1>2, <2>1, <2>2
<1>4. ASSUME NEW u \in Users, NEW n \in LpAmounts, NEW min_a_out, NEW min_b_out,
             RemoveLiquidity(u, n, min_a_out, min_b_out)
      PROVE  PermittedStep
  <2>1. /\ WalletAllowed(u)
        /\ \A s \in Side : CanMove(s, Vault, u, PayoutOf(n)[s])
        /\ balance' = [s \in Side |-> Moved(s, Vault, u, PayoutOf(n)[s])]
    BY <1>4 DEF RemoveLiquidity, BalanceAfterWithdrawal, CanRemoveLiquidity, AcceptsWithdrawal
  <2>2. \A s \in Side : balance'[s] = Moved(s, Vault, u, PayoutOf(n)[s])
    BY <2>1
  <2> QED
    BY <1>2, <2>1, <2>2
<1>5. ASSUME NEW u \in Users, NEW In \in Side, NEW n \in Amounts, NEW min_amount_out,
             Swap(u, In, n, min_amount_out)
      PROVE  PermittedStep
  <2> DEFINE out == SwapOut(In, n)
  <2>1. /\ WalletAllowed(u)
        /\ CanMove(In, u, Vault, n) /\ CanMove(Other(In), Vault, u, out)
        /\ balance' = [s \in Side |-> IF s = In THEN Moved(s, u, Vault, n)
                                                ELSE Moved(s, Vault, u, out)]
    BY <1>5 DEF Swap, BalanceAfterSwap, CanSwap, AcceptsSwap
  <2> HIDE DEF out
  <2>2. \A s \in Side : s # In => s = Other(In)
    BY DEF Side, Other
  <2>3. \A s \in Side : IF s = In THEN CanMove(s, u, Vault, n) /\ balance'[s] = Moved(s, u, Vault, n)
                        ELSE CanMove(s, Vault, u, out) /\ balance'[s] = Moved(s, Vault, u, out)
    BY <2>1, <2>2
  <2> QED
    BY <1>2, <2>1, <2>3
<1> QED
  BY <1>1, <1>3, <1>4, <1>5 DEF PoolStep

LEMMA StepIsPermitted ==
    ASSUME IInv, ThawedIsAllowed, [Next]_vars
    PROVE  PermittedStep
<1>1. CASE PoolStep
  BY <1>1, PoolStepIsPermitted
<1>2. ASSUME UNCHANGED reserve
      PROVE  PermittedStep
  BY <1>2 DEF PermittedStep
<1>3. CASE OutsideStep
  BY <1>2, <1>3 DEF OutsideStep, SetWalletPolicy, SetPause, MintTo, Burn, Transfer,
                    ReopenAccount, TransferLp, BurnLp, poolVars
<1>4. CASE UNCHANGED vars
  BY <1>2, <1>4 DEF vars
<1> QED
  BY <1>1, <1>3, <1>4 DEF Next

(* Reserves move only while nothing is paused and neither vault is         *)
(* blocked, and only the balances of wallets allowed on both sides move    *)
(* with them.                                                              *)
THEOREM OnlyWhenPermitted == Spec => ReservesMoveOnlyWhenPermitted
<1>1. ASSUME Init
      PROVE  ThawedIsAllowed
  <2> SUFFICES ASSUME NEW s \in Side, NEW x \in Accounts, ~frozen[s][x]
               PROVE  policy[s][x] = "Allowed"
    BY DEF ThawedIsAllowed
  <2>1. frozen[s][x] = (x \notin Enrolled)
    BY <1>1 DEF Init
  <2>2. policy[s][x] = IF x \in Enrolled THEN "Allowed" ELSE "None"
    BY <1>1 DEF Init
  <2> QED
    BY <2>1, <2>2
<1>2. IInv /\ ThawedIsAllowed /\ [Next]_vars => ThawedIsAllowed'
  BY ThawedStaysAllowed
<1>3. IInv /\ ThawedIsAllowed /\ [Next]_vars
        => [ reserve' # reserve =>
               /\ \A s \in Side : ~paused[s] /\ policy[s][Vault] = "Allowed"
               /\ \A u \in Users :
                    (\E s \in Side : balance'[s][u] # balance[s][u]) => WalletAllowed(u) ]_vars
  BY StepIsPermitted DEF PermittedStep
<1> QED
  BY <1>1, <1>2, <1>3, InductiveInvariant, PTL DEF Spec, ReservesMoveOnlyWhenPermitted
-----------------------------------------------------------------------------
(* The pool as a vault of shares.                                          *)

LEMMA ShareStarts ==
    ASSUME Init
    PROVE  Share!Init
<1>1. lp[Locked] = 0
  BY DEF Init, LpAccounts
<1> QED
  BY <1>1 DEF Init, Share!Init

LEMMA DepositIsFoundOrJoin ==
    ASSUME IInv, NEW u \in Users, NEW a \in Amounts, NEW b \in Amounts,
           NEW a_min, NEW b_min, NEW min_lp_out,
           AddLiquidity(u, a, b, a_min, b_min, min_lp_out)
    PROVE  Share!Found \/ Share!Join
<1> DEFINE amount == DepositOf(a, b)
           minted == LpToUser(a, b)
           locked == LpToLock
<1>1. a \in Nat /\ b \in Nat /\ u \in LpAccounts /\ u # Locked /\ Locked \in LpAccounts
  BY AmmAssumption, UserIsNotThePool
<1>2. DepositQuoted(a, b)
  BY DEF AddLiquidity, CanAddLiquidity, AcceptsDeposit
<1>3. /\ \A s \in Side : amount[s] \in Nat /\ amount[s] > 0
      /\ minted \in Nat \ {0} /\ locked \in Nat
  BY <1>1, <1>2, DepositAmounts DEF IInv
<1>4. /\ lp \in [LpAccounts -> Nat] /\ lp_supply \in Nat
      /\ \A s \in Side : reserve[s] \in Nat
  BY MathAssumption DEF IInv, TypeOK
<1>5. /\ lp' = [lp EXCEPT ![Locked] = @ + locked, ![u] = @ + minted]
      /\ lp_supply' = lp_supply + minted + locked
      /\ reserve' = ReserveAfterDeposit(a, b)
      /\ \A s \in Side : reserve'[s] = reserve[s] + amount[s]
  BY <1>3, <1>4, SupplyAsExpected DEF AddLiquidity, LpAfterDeposit, ReserveAfterDeposit
<1> HIDE DEF amount, minted, locked
<1>6. lp'[Locked] = lp[Locked] + locked /\ lp[Locked] \in Nat
  BY <1>1, <1>3, <1>4, <1>5
<1>7. CASE lp_supply = 0
  <2>1. /\ \A s \in Side : reserve[s] = 0
        /\ lp[Locked] = 0 /\ locked = MINIMUM_LIQUIDITY
    BY <1>2, <1>7 DEF DepositQuoted, LpToLock, locked
  <2>2. MINIMUM_LIQUIDITY <= lp'[Locked] /\ lp'[Locked] < lp_supply'
    BY <1>3, <1>5, <1>6, <1>7, <2>1
  <2>3. \A s \in Side : reserve[s] = 0 /\ reserve'[s] > 0
    BY <1>3, <1>5, <2>1
  <2> QED
    BY <1>7, <2>2, <2>3 DEF Share!Found
<1>8. CASE lp_supply # 0
  <2>1. locked = 0
    BY <1>8 DEF LpToLock, locked
  <2>2. \A s \in Side : reserve[s] * (lp_supply + minted + locked)
                          <= ReserveAfterDeposit(a, b)[s] * lp_supply
    BY <1>1, <1>2, <1>8, DepositKeepsShareValue DEF IInv, minted, locked
  <2>3. Share!ClaimsKept
    BY <1>5, <2>2 DEF Share!ClaimsKept
  <2>4. \A s \in Side : reserve'[s] > reserve[s]
    BY <1>3, <1>4, <1>5
  <2>5. lp_supply > 0 /\ lp_supply' > lp_supply /\ lp'[Locked] = lp[Locked]
    BY <1>3, <1>4, <1>5, <1>6, <1>8, <2>1
  <2> QED
    BY <2>3, <2>4, <2>5 DEF Share!Join
<1> QED
  BY <1>7, <1>8

LEMMA WithdrawalIsLeave ==
    ASSUME IInv, NEW u \in Users, NEW n \in LpAmounts, NEW min_a_out, NEW min_b_out,
           RemoveLiquidity(u, n, min_a_out, min_b_out)
    PROVE  Share!Leave
<1> DEFINE paid == PayoutOf(n)
<1>1. /\ n \in Nat /\ lp_supply - n >= lp[Locked]
      /\ lp' = [lp EXCEPT ![u] = @ - n] /\ lp_supply' = lp_supply - n
      /\ \A s \in Side : reserve'[s] > 0
      /\ \A s \in Side : reserve'[s] = reserve[s] - paid[s]
      /\ QuoteRemoveLiquidity(n, reserve["A"], reserve["B"], lp_supply) = "Ok"
  BY AmmAssumption DEF RemoveLiquidity, WithdrawalRechecks, ReserveAfterWithdrawal,
                       SupplyAfterWithdrawal, NewLpSupply,
                       CanRemoveLiquidity, AcceptsWithdrawal, EnsureSeeded
<1>2. /\ \A s \in Side : paid[s] \in Nat /\ paid[s] # 0 /\ n # 0
      /\ \A s \in Side : reserve[s] * (lp_supply - n) <= (reserve[s] - paid[s]) * lp_supply
  BY <1>1, PayoutAmounts DEF IInv
<1> HIDE DEF paid
<1>3. /\ lp \in [LpAccounts -> Nat] /\ lp_supply \in Nat
      /\ \A s \in Side : reserve[s] \in Nat
  BY MathAssumption DEF IInv, TypeOK
<1>4. lp'[Locked] = lp[Locked] /\ lp[Locked] \in Nat
  BY <1>1, <1>3, UserIsNotThePool
<1>5. Share!ClaimsKept
  BY <1>1, <1>2 DEF Share!ClaimsKept
<1>6. \A s \in Side : 0 < reserve'[s] /\ reserve'[s] < reserve[s]
  BY <1>1, <1>2, <1>3
<1>7. "A" \in Side
  BY DEF Side
<1>8. lp[Locked] <= lp_supply' /\ lp_supply' < lp_supply
  BY <1>1, <1>2, <1>3, <1>4, <1>7
<1> QED
  BY <1>4, <1>5, <1>6, <1>8 DEF Share!Leave

LEMMA SwapIsTrade ==
    ASSUME IInv, NEW u \in Users, NEW In \in Side, NEW n \in Amounts, NEW min_amount_out,
           Swap(u, In, n, min_amount_out)
    PROVE  Share!Trade
<1> DEFINE out == SwapOut(In, n)
           Out == Other(In)
<1>1. /\ n \in Nat
      /\ QuoteSwap(n, reserve[In], reserve[Out], fee_bps) = "Ok"
      /\ reserve' = [s \in Side |-> IF s = In THEN reserve[s] + n ELSE reserve[s] - out]
      /\ reserve'["A"] * reserve'["B"] >= reserve["A"] * reserve["B"]
      /\ UNCHANGED <<lp, lp_supply>>
  BY AmmAssumption DEF Swap, SwapRechecks, ReserveAfterSwap, CanSwap, AcceptsSwap, lpVars
<1>2. n # 0 /\ out \in Nat /\ out # 0 /\ out < reserve[Out]
  BY <1>1, SwapAmounts DEF IInv
<1> HIDE DEF out
<1>3. Out \in Side /\ In # Out
  BY DEF Side, Other
<1>4. \A s \in Side : reserve[s] \in Nat
  BY MathAssumption DEF IInv, TypeOK
<1>5. reserve'[In] = reserve[In] + n /\ reserve'[Out] = reserve[Out] - out
  BY <1>1, <1>3
<1>6. /\ reserve'[In] > reserve[In] /\ 0 < reserve'[Out] /\ reserve'[Out] < reserve[Out]
      /\ reserve'[In] \in Nat /\ reserve'[Out] \in Nat
  BY <1>1, <1>2, <1>3, <1>4, <1>5
<1>7. reserve'[In] * reserve'[Out] >= reserve[In] * reserve[Out]
  <2>1. \A j, k \in Nat : j * k = k * j
    OBVIOUS
  <2>2. (In = "A" /\ Out = "B") \/ (In = "B" /\ Out = "A")
    BY DEF Side, Other
  <2> QED
    BY <1>1, <1>3, <1>4, <1>6, <2>1, <2>2
<1> QED
  BY <1>1, <1>3, <1>6, <1>7 DEF Share!Trade

LEMMA LpTransferIsPin ==
    ASSUME IInv, Sound, NEW u \in Users, NEW x \in LpAccounts, NEW n \in LpAmounts,
           TransferLp(u, x, n)
    PROVE  Share!Pin \/ UNCHANGED Share!vars
<1>1. /\ n \in Nat /\ n > 0 /\ x # u
      /\ lp' = [lp EXCEPT ![u] = @ - n, ![x] = @ + n]
      /\ UNCHANGED <<reserve, lp_supply>>
  BY AmmAssumption DEF TransferLp, poolVars
<1>2. u \in LpAccounts /\ u # Locked /\ Locked \in LpAccounts /\ lp \in [LpAccounts -> Nat]
  BY UserIsNotThePool DEF IInv, TypeOK
<1>3. CASE x # Locked
  <2>1. lp'[Locked] = lp[Locked]
    BY <1>1, <1>2, <1>3
  <2> QED
    BY <1>1, <2>1 DEF Share!vars
<1>4. CASE x = Locked
  <2>1. lp'[Locked] = lp[Locked] + n /\ lp[Locked] \in Nat
    BY <1>1, <1>2, <1>4
  <2>2. EmptyOrSeeded'
    BY TransferLpIsSound DEF Sound
  <2>3. lp'[Locked] <= lp_supply'
    BY <1>1, <2>1, <2>2 DEF EmptyOrSeeded
  <2> QED
    BY <1>1, <2>1, <2>3 DEF Share!Pin
<1> QED
  BY <1>3, <1>4

LEMMA LpBurnIsForfeit ==
    ASSUME IInv, Sound, NEW u \in Users, NEW n \in LpAmounts, BurnLp(u, n)
    PROVE  Share!Forfeit
<1>1. /\ n \in Nat /\ n > 0 /\ lp[u] >= n
      /\ lp' = [lp EXCEPT ![u] = @ - n] /\ lp_supply' = lp_supply - n
      /\ UNCHANGED reserve
  BY AmmAssumption DEF BurnLp, poolVars
<1>2. lp'[Locked] = lp[Locked] /\ lp'[Locked] <= lp_supply'
  BY <1>1, LpBurnt DEF Sound
<1>3. lp_supply' < lp_supply
  BY <1>1 DEF IInv, TypeOK
<1> QED
  BY <1>1, <1>2, <1>3 DEF Share!Forfeit

LEMMA ShareStep ==
    ASSUME IInv, Sound, [Next]_vars
    PROVE  [Share!Next]_(Share!vars)
<1>1. ASSUME UNCHANGED <<reserve, lp, lp_supply>>
      PROVE  UNCHANGED Share!vars
  BY <1>1 DEF Share!vars
<1>2. ASSUME NEW fee \in Fees, InitializePool(fee)
      PROVE  UNCHANGED Share!vars
  <2>1. reserve = [s \in Side |-> 0]
    BY <1>2 DEF InitializePool, IInv, EmptyBeforePool, TypeOK
  <2> QED
    BY <1>1, <1>2, <2>1 DEF InitializePool, lpVars
<1>3. CASE PoolStep
  BY <1>2, <1>3, DepositIsFoundOrJoin, WithdrawalIsLeave, SwapIsTrade DEF PoolStep, Share!Next
<1>4. CASE OutsideStep
  <2>1. CASE \/ \E s \in Side, move \in PolicyMoves : SetWalletPolicy(s, move[1], move[2])
             \/ \E s \in PausableSides : SetPause(s)
             \/ \E s \in Side, x \in Accounts, n \in IssueAmounts : MintTo(s, x, n)
             \/ \E s \in Side, u \in Users, n \in IssueAmounts : Burn(s, u, n)
             \/ \E s \in Side, u \in Users, x \in Accounts, n \in GiftAmounts : Transfer(s, u, x, n)
             \/ \E s \in Side, u \in Users : ReopenAccount(s, u)
    BY <1>1, <2>1 DEF SetWalletPolicy, SetPause, MintTo, Burn, Transfer, ReopenAccount,
                      poolVars, lpVars
  <2> QED
    BY <1>4, <2>1, LpTransferIsPin, LpBurnIsForfeit DEF OutsideStep, Share!Next
<1>5. CASE UNCHANGED vars
  BY <1>1, <1>5 DEF vars
<1> QED
  BY <1>3, <1>4, <1>5 DEF Next

(* A pool implements the share vault, whatever its users, the issuers and  *)
(* the holders of its LP tokens do.                                        *)
THEOREM VaultImplemented == Spec => ImplementsShareVault
<1>1. Init => Sound /\ Share!Init
  BY InitIsSound, ShareStarts
<1>2. IInv /\ Sound /\ [Next]_vars => Sound'
  BY StepIsSound
<1>3. IInv /\ Sound /\ [Next]_vars => [Share!Next]_(Share!vars)
  BY ShareStep
<1> QED
  BY <1>1, <1>2, <1>3, InductiveInvariant, PTL DEF Spec, ImplementsShareVault, Share!Spec

-----------------------------------------------------------------------------
(* No run: what a holder could withdraw outlasts what the others do.       *)

(* If a part of l shares is worth no less of r2 among l2 than of r among   *)
(* l, it still is when what is paid is rounded down.                       *)
LEMMA PartKeepsWorth ==
    ASSUME NEW n \in Nat, NEW r \in Nat, NEW r2 \in Nat,
           NEW l \in Nat \ {0}, NEW l2 \in Nat \ {0}, r * l2 <= r2 * l
    PROVE  WithdrawnOf(n, r, l) <= WithdrawnOf(n, r2, l2)
<1> DEFINE q == (n * r) \div l
<1>1. n * r \in Nat /\ n * r2 \in Nat
  BY ProductNat
<1>2. q \in Nat /\ q * l <= n * r
  BY <1>1, DivBounds
<1> HIDE DEF q
<1>3. (q * l2) * l <= (n * r2) * l
  <2>1. (q * l) * l2 <= (n * r) * l2
    BY <1>1, <1>2, ProductNat, ProductMonotone
  <2>2. (r * l2) * n <= (r2 * l) * n
    BY ProductNat, ProductMonotone
  <2>3. (q * l) * l2 = (q * l2) * l /\ (n * r) * l2 = (r * l2) * n /\ (r2 * l) * n = (n * r2) * l
    BY <1>2
  <2>4. q * l2 \in Nat /\ r * l2 \in Nat
    BY <1>2, ProductNat
  <2>5. (q * l2) * l \in Nat /\ (r * l2) * n \in Nat /\ (n * r2) * l \in Nat
    BY <1>1, <2>4, ProductNat
  <2> QED
    BY <2>1, <2>2, <2>3, <2>5
<1>4. q * l2 <= n * r2
  BY <1>1, <1>2, <1>3, ProductNat, ProductCancel
<1> QED
  BY <1>1, <1>2, <1>4, DivIsLargest DEF WithdrawnOf, q

LEMMA HolderKeepsWorth ==
    ASSUME IInv, Sound, [Next]_vars, NEW u \in Users, lp[u] > 0, lp'[u] = lp[u]
    PROVE  (\A s \in Side : PayoutOf(lp[u])'[s] >= PayoutOf(lp[u])[s]) \/ Trade
<1>1. lp[u] \in Nat /\ lp[Locked] \in Nat /\ lp_supply \in Nat /\ lp_supply > 0
      /\ \A s \in Side : reserve[s] \in Nat
  BY LpWithinSupply, MathAssumption DEF IInv, TypeOK
<1>2. lp_supply' \in Nat /\ \A s \in Side : reserve'[s] \in Nat
  BY NextKeeps, MathAssumption DEF StepFacts, IInv, TypeOK
<1>3. lp[Locked] > 0
  BY <1>1, MathAssumption DEF Sound, EmptyOrSeeded
<1>4. ASSUME lp_supply' > 0, Share!ClaimsKept
      PROVE  \A s \in Side : PayoutOf(lp[u])'[s] >= PayoutOf(lp[u])[s]
  <2> SUFFICES ASSUME NEW s \in Side
               PROVE  PayoutOf(lp[u])'[s] >= PayoutOf(lp[u])[s]
    OBVIOUS
  <2>1. /\ PayoutOf(lp[u])[s] = WithdrawnOf(lp[u], reserve[s], lp_supply)
        /\ PayoutOf(lp[u])'[s] = WithdrawnOf(lp[u], reserve'[s], lp_supply')
    BY DEF PayoutOf, WithdrawnOf
  <2>2. reserve[s] * lp_supply' <= reserve'[s] * lp_supply
    BY <1>4 DEF Share!ClaimsKept
  <2>3. WithdrawnOf(lp[u], reserve[s], lp_supply) <= WithdrawnOf(lp[u], reserve'[s], lp_supply')
    BY <1>1, <1>2, <1>4, <2>2, PartKeepsWorth
  <2>4. /\ WithdrawnOf(lp[u], reserve[s], lp_supply) \in Nat
        /\ WithdrawnOf(lp[u], reserve'[s], lp_supply') \in Nat
    <3>1. lp[u] * reserve[s] \in Nat /\ lp[u] * reserve'[s] \in Nat
      BY <1>1, <1>2, ProductNat
    <3>2. lp_supply \in Nat \ {0} /\ lp_supply' \in Nat \ {0}
      BY <1>1, <1>2, <1>4
    <3> QED
      BY <3>1, <3>2, DivBounds DEF WithdrawnOf
  <2> QED
    BY <2>1, <2>3, <2>4
<1>5. CASE Share!Found
  BY <1>1, <1>5 DEF Share!Found
<1>6. CASE Share!Join \/ Share!Leave
  BY <1>1, <1>2, <1>3, <1>4, <1>6 DEF Share!Join, Share!Leave
<1>7. CASE Share!Trade
  BY <1>7 DEF Share!Trade, Trade
<1>8. CASE Share!Forfeit
  <2>1. lp_supply' > 0 /\ lp_supply' <= lp_supply /\ reserve' = reserve
    BY <1>1, <1>2, <1>3, <1>8 DEF Share!Forfeit
  <2>2. ASSUME NEW s \in Side PROVE reserve[s] * lp_supply' <= reserve'[s] * lp_supply
    <3>1. lp_supply' * reserve[s] <= lp_supply * reserve[s]
      BY <1>1, <1>2, <2>1, ProductMonotone
    <3> QED
      BY <1>1, <1>2, <2>1, <3>1
  <2> QED
    BY <1>4, <2>1, <2>2 DEF Share!ClaimsKept
<1>9. CASE Share!Pin \/ UNCHANGED Share!vars
  <2>1. lp_supply' = lp_supply /\ reserve' = reserve
    BY <1>9 DEF Share!Pin, Share!vars
  <2>2. ASSUME NEW s \in Side PROVE reserve[s] * lp_supply' <= reserve'[s] * lp_supply
    BY <1>1, <2>1
  <2> QED
    BY <1>1, <1>4, <2>1, <2>2 DEF Share!ClaimsKept
<1> QED
  BY <1>5, <1>6, <1>7, <1>8, <1>9, ShareStep DEF Share!Next

(* There is no run on a pool, with rounding and for any number of holders: *)
(* a holder can only gain from what others do, a trade aside.              *)
THEOREM NoRun == Spec => NobodyRunsFirst
<1>1. Init => Sound
  BY InitIsSound
<1>2. IInv /\ Sound /\ [Next]_vars => Sound'
  BY StepIsSound
<1>3. IInv /\ Sound /\ [Next]_vars
        => [ \A u \in Users :
               lp[u] > 0 /\ lp'[u] = lp[u] =>
                   \/ \A s \in Side : PayoutOf(lp[u])'[s] >= PayoutOf(lp[u])[s]
                   \/ Trade ]_vars
  BY HolderKeepsWorth
<1> QED
  BY <1>1, <1>2, <1>3, InductiveInvariant, PTL DEF Spec, NobodyRunsFirst
=============================================================================
