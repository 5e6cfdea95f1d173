--------------------------- MODULE CallerTheorems ---------------------------
(***************************************************************************)
(* Theorems about those who use a pool from outside: the reader of its log *)
(* (PoolEvents) and the script that calls it (Client).                     *)
(***************************************************************************)
EXTENDS AmmTheorems, PoolEvents, Client

-----------------------------------------------------------------------------
(* The reader of the log.                                                  *)

ReportType == [fee_bps : Nat, reserve : [Side -> Nat], lp_supply : Nat]

LogInv == view \in ReportType /\ shares \in Int /\ forfeited \in Nat /\ BooksBalance

(* The types, spelled out for the steps below.                             *)
LEMMA PoolTypes ==
    ASSUME IInv
    PROVE  /\ fee_bps \in Nat /\ reserve \in [Side -> Nat] /\ lp_supply \in Nat
           /\ lp \in [LpAccounts -> Nat]
           /\ balance \in [Side -> [Accounts -> Nat]]
  BY MathAssumption DEF IInv, TypeOK

(* Once it has LP tokens a pool always has some: those it has locked.      *)
LEMMA SupplyLasts ==
    ASSUME IInv, Sound, [Next]_vars, lp_supply > 0
    PROVE  lp_supply' > 0
<1>1. lp_supply \in Nat /\ lp[Locked] \in Nat /\ lp_supply' \in Nat
  <2>1. lp_supply \in Nat /\ lp[Locked] \in Nat
    BY PoolTypes DEF LpAccounts
  <2>2. IInv'
    BY NextKeeps DEF StepFacts
  <2> QED
    BY <2>1, <2>2 DEF IInv, TypeOK
<1>2. lp[Locked] > 0
  BY <1>1, MathAssumption DEF Sound, EmptyOrSeeded
<1> QED
  BY <1>1, <1>2, ShareStep
  DEF Share!Next, Share!Found, Share!Join, Share!Leave, Share!Trade, Share!Forfeit, Share!Pin,
      Share!vars

LEMMA BooksOpen ==
    ASSUME EventsInit
    PROVE  LogInv
<1>1. Zeros \in [Side -> Nat]
  BY DEF Zeros
<1>2. /\ view = [fee_bps |-> 0, reserve |-> Zeros, lp_supply |-> 0]
      /\ net = Zeros /\ shares = 0 /\ forfeited = 0
      /\ fee_bps = 0 /\ reserve = Zeros /\ lp_supply = 0
  BY DEF EventsInit, Init, Zeros
<1>3. view.fee_bps = 0 /\ view.reserve = Zeros /\ view.lp_supply = 0
  BY <1>2
<1>4. lp_supply <= view.lp_supply /\ view.lp_supply <= lp_supply + forfeited
  BY <1>2, <1>3
<1>5. view \in ReportType
  BY <1>1, <1>2 DEF ReportType
<1> QED
  BY <1>2, <1>3, <1>4, <1>5 DEF LogInv, BooksBalance

LEMMA InitializePoolReported ==
    ASSUME IInv, LogInv, IInv', NEW fee \in Fees, InitializePoolEmits(fee), UNCHANGED forfeited
    PROVE  LogInv'
<1>1. /\ ~pool_exists /\ fee_bps' = fee /\ reserve' = [s \in Side |-> 0]
      /\ lp_supply' = lp_supply /\ net' = net /\ shares' = shares
      /\ view' = [view EXCEPT !.fee_bps = fee]
  BY DEF InitializePoolEmits, InitializePool, PoolInitialized, lpVars
<1>2. reserve' = reserve
  <2>1. \A s \in Side : reserve[s] = 0
    BY <1>1 DEF IInv, EmptyBeforePool
  <2> QED
    BY <1>1, <2>1, PoolTypes
<1>3. view' \in ReportType /\ view'.fee_bps = fee
      /\ view'.reserve = view.reserve /\ view'.lp_supply = view.lp_supply
  BY <1>1, AmmAssumption DEF LogInv, ReportType
<1> QED
  BY <1>1, <1>2, <1>3 DEF LogInv, BooksBalance

(* After a deposit or a withdrawal the reader knows the LP supply exactly. *)
LEMMA LiquidityReported ==
    ASSUME LogInv, IInv', UNCHANGED <<fee_bps, forfeited>>,
           view' = [view EXCEPT !.reserve = reserve', !.lp_supply = lp_supply'],
           net' = reserve', lp_supply' > 0,
           shares' \in Int, shares' + MINIMUM_LIQUIDITY = lp_supply' + forfeited
    PROVE  LogInv'
<1>1. reserve' \in [Side -> Nat] /\ lp_supply' \in Nat /\ forfeited' \in Nat
  BY MathAssumption DEF IInv, TypeOK, LogInv
<1>2. /\ view' \in ReportType /\ view'.fee_bps = view.fee_bps
      /\ view'.reserve = reserve' /\ view'.lp_supply = lp_supply'
  BY <1>1 DEF LogInv, ReportType
<1>3. lp_supply' <= view'.lp_supply /\ view'.lp_supply <= lp_supply' + forfeited'
  BY <1>1, <1>2
<1>4. shares' + (IF lp_supply' = 0 THEN 0 ELSE MINIMUM_LIQUIDITY) = lp_supply' + forfeited'
  BY <1>1
<1> QED
  BY <1>1, <1>2, <1>3, <1>4 DEF LogInv, BooksBalance

LEMMA AddLiquidityReported ==
    ASSUME IInv, LogInv, IInv', NEW u \in Users, NEW a \in Amounts, NEW b \in Amounts,
           NEW a_min, NEW b_min, NEW min_lp_out,
           AddLiquidityEmits(u, a, b, a_min, b_min, min_lp_out), UNCHANGED forfeited
    PROVE  LogInv'
<1> DEFINE minted == LpToUser(a, b)
           locked == LpToLock
<1>1. /\ DepositQuoted(a, b) /\ lp_supply' = SupplyAfterDeposit(a, b)
      /\ reserve' = ReserveAfterDeposit(a, b) /\ fee_bps' = fee_bps
      /\ view' = [view EXCEPT !.reserve = reserve', !.lp_supply = ExpectedLpSupply(a, b)]
      /\ net' = [s \in Side |-> net[s] + DepositOf(a, b)[s]]
      /\ shares' = shares + minted
  BY DEF AddLiquidityEmits, AddLiquidity, CanAddLiquidity, AcceptsDeposit, LiquidityAdded
<1>2. minted \in Nat \ {0} /\ locked \in Nat /\ lp_supply \in Nat
  BY <1>1, DepositAmounts, PoolTypes, AmmAssumption DEF IInv
<1>3. /\ lp_supply' = lp_supply + minted + locked
      /\ view' = [view EXCEPT !.reserve = reserve', !.lp_supply = lp_supply']
  BY <1>1, <1>2, SupplyAsExpected
<1>4. locked = IF lp_supply = 0 THEN MINIMUM_LIQUIDITY ELSE 0
  BY DEF LpToLock
<1>5. /\ shares \in Int /\ forfeited \in Nat /\ MINIMUM_LIQUIDITY \in Nat
      /\ shares + (IF lp_supply = 0 THEN 0 ELSE MINIMUM_LIQUIDITY) = lp_supply + forfeited
  BY MathAssumption DEF LogInv, BooksBalance
<1>6. net' = reserve'
  BY <1>1 DEF ReserveAfterDeposit, LogInv, BooksBalance
<1> HIDE DEF minted, locked
<1>7. lp_supply' > 0 /\ shares' \in Int /\ shares' + MINIMUM_LIQUIDITY = lp_supply' + forfeited
  BY <1>1, <1>2, <1>3, <1>4, <1>5
<1> QED
  BY <1>1, <1>3, <1>6, <1>7, LiquidityReported

LEMMA RemoveLiquidityReported ==
    ASSUME IInv, LogInv, IInv', NEW u \in Users, NEW n \in LpAmounts,
           NEW min_a_out, NEW min_b_out,
           RemoveLiquidityEmits(u, n, min_a_out, min_b_out), UNCHANGED forfeited
    PROVE  LogInv'
<1>1. /\ reserve' = ReserveAfterWithdrawal(n) /\ fee_bps' = fee_bps
      /\ lp_supply' = lp_supply - n
      /\ view' = [view EXCEPT !.reserve = reserve', !.lp_supply = lp_supply']
      /\ net' = [s \in Side |-> net[s] - PayoutOf(n)[s]]
      /\ shares' = shares - n
      /\ EnsureSeeded(reserve, lp_supply, lp[Locked])
      /\ EnsureSeeded(ReserveAfterWithdrawal(n), lp_supply - n, lp[Locked])
  BY DEF RemoveLiquidityEmits, RemoveLiquidity, LiquidityRemoved, SupplyAfterWithdrawal,
         NewLpSupply, WithdrawalRechecks, CanRemoveLiquidity, AcceptsWithdrawal
<1>2. net' = reserve'
  BY <1>1 DEF ReserveAfterWithdrawal, LogInv, BooksBalance
<1>3. /\ n \in Nat /\ lp_supply \in Nat /\ MINIMUM_LIQUIDITY \in Nat \ {0}
      /\ shares \in Int /\ forfeited \in Nat
      /\ shares + (IF lp_supply = 0 THEN 0 ELSE MINIMUM_LIQUIDITY) = lp_supply + forfeited
  BY MathAssumption, AmmAssumption, PoolTypes DEF LogInv, BooksBalance
<1>4. lp_supply >= MINIMUM_LIQUIDITY /\ lp_supply - n >= MINIMUM_LIQUIDITY
  BY <1>1 DEF EnsureSeeded
<1>5. lp_supply' > 0 /\ shares' \in Int /\ shares' + MINIMUM_LIQUIDITY = lp_supply' + forfeited
  BY <1>1, <1>3, <1>4
<1> QED
  BY <1>1, <1>2, <1>5, LiquidityReported

LEMMA SwapReported ==
    ASSUME IInv, LogInv, IInv', NEW u \in Users, NEW In \in Side, NEW n \in Amounts,
           NEW min_amount_out, SwapEmits(u, In, n, min_amount_out), UNCHANGED forfeited
    PROVE  LogInv'
<1> DEFINE out == SwapOut(In, n)
<1>1. /\ reserve' = ReserveAfterSwap(In, n)
      /\ fee_bps' = fee_bps /\ lp_supply' = lp_supply
      /\ view' = [view EXCEPT !.reserve = reserve']
      /\ net' = [net EXCEPT ![In] = @ + n, ![Other(In)] = @ - out]
      /\ shares' = shares
  BY DEF SwapEmits, Swap, SwapExecuted, lpVars
<1>2. net' = reserve'
  <2>1. In # Other(In) /\ Other(In) \in Side /\ \A s \in Side : s = In \/ s = Other(In)
    BY DEF Side, Other
  <2>2. reserve' = [s \in Side |-> IF s = In THEN reserve[s] + n ELSE reserve[s] - out]
    BY <1>1 DEF ReserveAfterSwap
  <2>3. net = reserve /\ reserve \in [Side -> Nat]
    BY PoolTypes DEF LogInv, BooksBalance
  <2> HIDE DEF out
  <2> QED
    BY <1>1, <2>1, <2>2, <2>3
<1>3. reserve' \in [Side -> Nat]
  BY MathAssumption DEF IInv, TypeOK
<1>4. /\ view' \in ReportType /\ view'.fee_bps = view.fee_bps
      /\ view'.reserve = reserve' /\ view'.lp_supply = view.lp_supply
  BY <1>1, <1>3 DEF LogInv, ReportType
<1> QED
  BY <1>1, <1>2, <1>4 DEF LogInv, BooksBalance

(* Nobody else moves the reserves or the fee, and what others take off the *)
(* LP supply they forfeit.                                                 *)
LEMMA SilenceKept ==
    ASSUME IInv, Sound, LogInv, Silent \/ UNCHANGED <<vars, logVars>>
    PROVE  LogInv'
<1>1. CASE Silent
  <2>1. /\ UNCHANGED <<fee_bps, reserve, view, net, shares>>
        /\ lp_supply' = lp_supply \/ \E n \in LpAmounts : lp_supply >= n /\ lp_supply' = lp_supply - n
        /\ forfeited' = forfeited + (lp_supply - lp_supply')
    BY <1>1 DEF Silent, OutsideStep, SetWalletPolicy, SetPause, MintTo, Burn, Transfer,
                ReopenAccount, TransferLp, BurnLp, poolVars, lpVars, tokenVars, controlVars
  <2>2. /\ lp_supply \in Nat /\ forfeited \in Nat /\ LpAmounts \subseteq Nat
        /\ view.lp_supply \in Nat
        /\ lp_supply <= view.lp_supply /\ view.lp_supply <= lp_supply + forfeited
    BY PoolTypes, AmmAssumption DEF LogInv, BooksBalance, ReportType
  <2>3. /\ forfeited' \in Nat /\ lp_supply' <= view.lp_supply
        /\ view.lp_supply <= lp_supply' + forfeited'
    BY <2>1, <2>2
  <2>4. shares + (IF lp_supply' = 0 THEN 0 ELSE MINIMUM_LIQUIDITY) = lp_supply' + forfeited'
    <3>1. lp_supply' = 0 <=> lp_supply = 0
      <4>1. [Next]_vars
        BY <1>1 DEF Silent, Next
      <4>2. lp_supply > 0 => lp_supply' > 0
        BY <4>1, SupplyLasts
      <4> QED
        BY <2>1, <2>2, <4>2
    <3>2. lp_supply' + forfeited' = lp_supply + forfeited
      BY <2>1, <2>2
    <3> QED
      BY <3>1, <3>2 DEF LogInv, BooksBalance
  <2> QED
    BY <2>1, <2>3, <2>4 DEF LogInv, BooksBalance
<1>2. CASE UNCHANGED <<vars, logVars>>
  BY <1>2 DEF vars, logVars, LogInv, BooksBalance
<1> QED
  BY <1>1, <1>2

LEMMA EventsAreSteps ==
    ASSUME [EventsNext]_<<vars, logVars>>
    PROVE  [Next]_vars
  BY DEF EventsNext, Announced, Silent, Next, PoolStep, InitializePoolEmits, AddLiquidityEmits,
         RemoveLiquidityEmits, SwapEmits, vars

(* Whoever keeps books from the log alone knows the fee and the reserves   *)
(* exactly, donations or not, the LP supply up to what holders have burned *)
(* themselves, and finds the shares to add up to it but for those and for  *)
(* the minimum.                                                            *)
THEOREM BooksAlwaysBalance == EventsSpec => []BooksBalance
<1>1. EventsInit => IInv /\ Sound /\ LogInv
  BY InitIsInductive, InitIsSound, BooksOpen DEF EventsInit
<1>2. ASSUME IInv, Sound, LogInv, [EventsNext]_<<vars, logVars>>
      PROVE  IInv' /\ Sound' /\ LogInv'
  <2>1. IInv'
    BY <1>2, EventsAreSteps, NextKeeps DEF StepFacts
  <2>2. ASSUME Announced PROVE LogInv'
    <3>1. IInv /\ LogInv /\ UNCHANGED forfeited
      BY <1>2, <2>2 DEF Announced
    <3>2. ASSUME NEW fee \in Fees, InitializePoolEmits(fee) PROVE LogInv'
      BY ONLY <2>1, <3>1, <3>2, InitializePoolReported
    <3>3. ASSUME NEW u \in Users, NEW a \in Amounts, NEW b \in Amounts, NEW a_min, NEW b_min,
                 NEW min_lp_out, AddLiquidityEmits(u, a, b, a_min, b_min, min_lp_out)
          PROVE  LogInv'
      BY ONLY <2>1, <3>1, <3>3, AddLiquidityReported
    <3>4. ASSUME NEW u \in Users, NEW n \in LpAmounts, NEW min_a_out, NEW min_b_out,
                 RemoveLiquidityEmits(u, n, min_a_out, min_b_out)
          PROVE  LogInv'
      BY ONLY <2>1, <3>1, <3>4, RemoveLiquidityReported
    <3>5. ASSUME NEW u \in Users, NEW In \in Side, NEW n \in Amounts, NEW min_amount_out,
                 SwapEmits(u, In, n, min_amount_out)
          PROVE  LogInv'
      BY ONLY <2>1, <3>1, <3>5, SwapReported
    <3> QED
      BY <2>2, <3>2, <3>3, <3>4, <3>5 DEF Announced
  <2>3. ASSUME Silent \/ UNCHANGED <<vars, logVars>> PROVE LogInv'
    BY <1>2, <2>3, SilenceKept
  <2>4. Sound'
    BY <1>2, EventsAreSteps, StepIsSound
  <2> QED
    BY <1>2, <2>1, <2>2, <2>3, <2>4 DEF EventsNext
<1>3. LogInv => BooksBalance
  BY DEF LogInv
<1> QED
  BY <1>1, <1>2, <1>3, PTL DEF EventsSpec

-----------------------------------------------------------------------------
(* The script's square root.  Newton's step from a root that is too large  *)
(* goes down, and no step goes below the integer root.                     *)

LEMMA NewtonGoesDown ==
    ASSUME NEW v \in Nat, NEW r \in Nat \ {0}, v < r * r
    PROVE  (r + v \div r) \div 2 < r
<1> DEFINE q == v \div r
<1>1. q \in Nat /\ q * r <= v
  BY DivBounds
<1> HIDE DEF q
<1>2. q < r
  <2>1. SUFFICES ASSUME q >= r PROVE FALSE
    BY <1>1
  <2>2. r * r <= q * r
    BY <1>1, <2>1, ProductMonotone
  <2>3. r * r \in Nat /\ q * r \in Nat
    BY <1>1, ProductNat
  <2> QED
    BY <1>1, <2>2, <2>3
<1> QED
  BY <1>1, <1>2 DEF q

LEMMA NewtonStaysAbove ==
    ASSUME NEW v \in Nat, NEW r \in Nat \ {0}, NEW s \in Nat, s * s <= v
    PROVE  s <= (r + v \div r) \div 2
<1> DEFINE q == v \div r
<1>1. q \in Nat /\ v < q * r + r
  BY DivBounds
<1> HIDE DEF q
<1>2. 2 * s <= r + q
  <2>1. SUFFICES ASSUME r + q < 2 * s PROVE FALSE
    BY <1>1
  <2>2. (q + 1) * r = q * r + r
    BY <1>1
  <2>3. s * s < (q + 1) * r
    BY <1>1, <2>2, ProductNat
  <2>4. PICK d \in Int : r = s + d
    <3>1. r = s + (r - s)
      OBVIOUS
    <3> QED
      BY <3>1
  <2>5. q + 1 <= s - d
    BY <1>1, <2>1, <2>4
  <2>6. (q + 1) * r <= (s - d) * r
    BY <1>1, <2>4, <2>5
  <2>7. (s - d) * r = s * s - d * d
    BY <2>4
  <2>8. d * d >= 0
    BY <2>4
  <2> QED
    BY <1>1, <2>3, <2>4, <2>6, <2>7, <2>8
<1> QED
  BY <1>1, <1>2 DEF q

THEOREM NewtonIsExact ==
    ASSUME NEW value \in Nat
    PROVE  NewtonSqrt(value) = IntegerSqrt(value)
<1> DEFINE s == IntegerSqrt(value)
           next(r) == NextRoot(value, r)
           Roots == 1 .. value
           Descent(f) == f = [r \in Roots |-> IF next(r) < r THEN f[next(r)] ELSE r]
           Down == CHOOSE f : Descent(f)
           Found == [r \in Roots |-> IF r < s THEN r ELSE s]
<1>1. s \in Nat /\ s <= value /\ s * s <= value /\ value < (s + 1) * (s + 1)
  BY IntegerSqrtBounds
<1>2. CASE value < 2
  <2>1. NewtonSqrt(value) = value
    BY <1>2 DEF NewtonSqrt
  <2>2. s = value
    <3>1. value = 0 \/ value = 1
      BY <1>2
    <3>2. s = 0 \/ s = 1
      BY <1>1, <3>1
    <3> HIDE DEF s
    <3> QED
      BY <1>1, <3>1, <3>2
  <2> QED
    BY <2>1, <2>2
<1>3. CASE value >= 2
  <2> HIDE DEF s
  <2>1. s # 0
    BY <1>1, <1>3
  <2>2. \A r \in Roots : next(r) \in Nat /\ s <= next(r)
    <3>1. TAKE r \in Roots
    <3>2. r \in Nat \ {0}
      OBVIOUS
    <3>3. value \div r \in Nat
      BY <3>2, DivBounds
    <3> QED
      BY <1>1, <3>2, <3>3, NewtonStaysAbove DEF NextRoot
  <2>3. \A r \in Roots : s < r => next(r) < r
    <3>1. SUFFICES ASSUME NEW r \in Roots, s < r PROVE next(r) < r
      OBVIOUS
    <3>2. r \in Nat \ {0} /\ s + 1 <= r
      BY <1>1, <3>1
    <3>3. (s + 1) * (s + 1) <= r * (s + 1) /\ (s + 1) * r <= r * r
      BY <1>1, <3>2, ProductMonotone
    <3>4. value < r * r
      BY <1>1, <3>2, <3>3
    <3> QED
      BY <3>2, <3>4, NewtonGoesDown DEF NextRoot
  <2>4. next(s) >= s /\ s \in Roots
    BY <1>1, <2>1, <2>2
  <2>5. value \in Roots
    BY <1>3
  <2> HIDE DEF next
  <2>6. \A r \in Roots : next(r) < r => next(r) \in Roots
    BY <1>1, <2>1, <2>2
  <2>7. Descent(Found)
    <3>1. ASSUME NEW r \in Roots
          PROVE  Found[r] = IF next(r) < r THEN Found[next(r)] ELSE r
      <4>1. CASE next(r) < r
        <5>1. next(r) \in Roots /\ s <= next(r) /\ ~(next(r) < s) /\ s < r
          BY <1>1, <2>2, <2>6, <4>1
        <5> QED
          BY <1>1, <4>1, <5>1
      <4>2. CASE ~(next(r) < r)
        <5>1. ~(s < r)
          BY <2>3, <4>2
        <5>2. r < s \/ r = s
          BY <1>1, <5>1
        <5> QED
          BY <4>2, <5>2
      <4> QED
        BY <4>1, <4>2
    <3> QED
      BY <3>1
  <2>8. Descent(Down)
    <3> HIDE DEF Descent
    <3> QED
      BY <2>7, Zenon
  <2>9. Down[value] = s
    <3> DEFINE Bad == {r \in Roots : s <= r /\ Down[r] # s}
    <3>1. SUFFICES ASSUME Bad # {} PROVE FALSE
      BY <1>1, <2>5
    <3>2. Bad \subseteq Nat
      OBVIOUS
    <3>3. PICK least \in Bad : \A r \in Bad : <<r, least>> \notin OpToRel(<, Nat)
      BY <3>1, <3>2, NatLessThanWellFounded, WFMin
    <3>4. \A r \in Bad : ~(r < least)
      BY <3>2, <3>3 DEF OpToRel
    <3>5. least \in Roots /\ s <= least /\ Down[least] # s
      OBVIOUS
    <3>6. Down[least] = IF next(least) < least THEN Down[next(least)] ELSE least
      <4> HIDE DEF Down
      <4> QED
        BY <2>8, <3>5
    <3> HIDE DEF Down
    <3>7. CASE next(least) < least
      <4>1. next(least) \in Roots /\ s <= next(least)
        BY <2>2, <2>6, <3>5, <3>7
      <4>2. next(least) \notin Bad
        BY <3>4, <3>7
      <4> QED
        BY <3>5, <3>6, <3>7, <4>1, <4>2
    <3>8. CASE ~(next(least) < least)
      <4>1. ~(s < least)
        BY <2>3, <3>5, <3>8
      <4>2. s = least
        BY <1>1, <3>5, <4>1
      <4> QED
        BY <3>5, <3>6, <3>8, <4>2
    <3> QED
      BY <3>7, <3>8
  <2>10. NewtonSqrt(value) = Down[value]
    <3>1. ~(value < 2)
      BY <1>3
    <3> QED
      BY <3>1, Zenon DEF NewtonSqrt, next
  <2> QED
    BY <2>9, <2>10 DEF s
<1> QED
  BY <1>2, <1>3

-----------------------------------------------------------------------------
(* The script and those who come between its transactions.                 *)

LEMMA MeIsAUser == Me \in Users
  BY ClientAssumption, AmmAssumption

(* Compliance deciding on a vault touches no amount.                       *)
LEMMA AllowVaultKeeps ==
    ASSUME IInv, NEW s \in Side, SetWalletPolicy(s, Vault, "Allowed")
    PROVE  IInv'
<1>1. /\ policy' = [policy EXCEPT ![s][Vault] = "Allowed"]
      /\ frozen' = [frozen EXCEPT ![s][Vault] = FALSE]
      /\ UNCHANGED <<pool_exists, fee_bps, reserve, supply, balance, paused, lp, lp_supply>>
  BY DEF SetWalletPolicy, poolVars, tokenVars, lpVars
<1>2. policy' \in [Side -> [Accounts -> Status \cup {"None"}]]
  BY <1>1 DEF IInv, TypeOK, Status
<1>3. frozen' \in [Side -> [Accounts -> BOOLEAN]]
  BY <1>1 DEF IInv, TypeOK
<1>4. TypeOK'
  BY <1>1, <1>2, <1>3 DEF IInv, TypeOK
<1> QED
  BY <1>1, <1>4 DEF IInv, LpBacked, EmptyBeforePool

LEMMA PoolUseKeeps ==
    ASSUME IInv, NEW u \in Users, PoolUse(u)
    PROVE  IInv'
<1>1. Amounts \subseteq Nat /\ LpAmounts \subseteq Nat
  BY AmmAssumption
<1>2. CASE \E a, b \in Amounts : AddLiquidity(u, a, b, 0, 0, 0)
  BY <1>1, <1>2, AddLiquidityKeeps DEF StepFacts
<1>3. CASE \E n \in LpAmounts : RemoveLiquidity(u, n, 0, 0)
  BY <1>1, <1>3, RemoveLiquidityKeeps DEF StepFacts
<1>4. CASE \E s \in Side, n \in Amounts : Swap(u, s, n, 0)
  BY <1>1, <1>4, SwapKeeps DEF StepFacts
<1>5. CASE \/ \E n \in LpAmounts : BurnLp(u, n) \/ TransferLp(u, Locked, n)
           \/ \E s \in Side, n \in GiftAmounts : Transfer(s, u, Vault, n)
  <2>1. [Next]_vars
    BY <1>5, UserIsNotThePool DEF Next, OutsideStep
  <2> QED
    BY <2>1, NextKeeps DEF StepFacts
<1> QED
  BY <1>2, <1>3, <1>4, <1>5 DEF PoolUse

LEMMA ClientKeeps ==
    ASSUME IInv, burned \in Nat, [ClientNext]_<<vars, clientVars>>
    PROVE  IInv'
<1>1. /\ FEE_BPS \in Nat
      /\ \A s \in Side : DepositAmount[s] \in Nat /\ SwapAmount[s] \in Nat
      /\ "A" \in Side /\ "B" \in Side
  BY ClientAssumption DEF Side
<1>2. CASE UNCHANGED vars
  BY <1>2, NextKeeps DEF StepFacts
<1>3. CASE CreatePool
  BY <1>1, <1>3, InitializePoolStep DEF CreatePool, StepFacts
<1>4. CASE \E s \in Side : AllowVault(s)
  BY <1>4, AllowVaultKeeps DEF AllowVault
<1>5. CASE DepositFirst
  BY <1>1, <1>5, AddLiquidityKeeps, MeIsAUser DEF DepositFirst, StepFacts
<1>6. CASE \E s \in Side : MySwap(s)
  BY <1>1, <1>6, SwapKeeps, MeIsAUser DEF MySwap, StepFacts
<1>7. CASE WithdrawHalf
  BY <1>7, RemoveLiquidityKeeps, MeIsAUser DEF WithdrawHalf, StepFacts
<1>8. CASE OthersStep
  <2>1. CASE \E fee \in Fees : InitializePool(fee)
    BY <2>1, InitializePoolStep, AmmAssumption DEF StepFacts
  <2>2. CASE \E u \in Users \ {Me} : PoolUse(u)
    BY <2>2, PoolUseKeeps
  <2> QED
    BY <1>8, <2>1, <2>2 DEF OthersStep
<1> QED
  BY <1>2, <1>3, <1>4, <1>5, <1>6, <1>7, <1>8
  DEF ClientNext, ScriptStep, QuoteMySwap, FetchBalance, FetchReserves, FetchSupply, Fail

SwapStage(s) == IF s = "A" THEN "swap_A" ELSE "swap_B"

(* What the script asks for of the next swap is its share of what the      *)
(* program offered when it asked, which the program still offers as long   *)
(* as nobody has touched the pool; and the pool and its fee stay as they   *)
(* are once it exists.                                                     *)
SwapQuoted ==
    \A s \in Side : stage = SwapStage(s) =>
        /\ minimum[Other(s)] = Bounded(worth[Other(s)])
        /\ ~touched => worth[Other(s)] = SwapOut(s, SwapAmount[s])

WithdrawalQuoted ==
    ~touched =>
        /\ stage = "fetch_supply" => live = reserve
        /\ stage = "withdraw" =>
              minimum = [s \in Side |-> Bounded(QuoteRemoveOut(burned, reserve[s], lp_supply))]

PoolOpen == stage \notin {"create_pool", "failed"} => pool_exists

ScriptInv == burned \in Nat /\ SwapQuoted /\ WithdrawalQuoted /\ PoolOpen

LEMMA ScriptStarts ==
    ASSUME ClientInit
    PROVE  IInv /\ ScriptInv
<1>1. IInv /\ stage = "create_pool" /\ burned = 0
  BY InitIsInductive DEF ClientInit
<1> QED
  BY <1>1 DEF ScriptInv, SwapQuoted, WithdrawalQuoted, PoolOpen, SwapStage

(* Neither the script nor anybody else closes a pool or changes its fee.   *)
LEMMA PoolStaysOpen ==
    ASSUME pool_exists, [ClientNext]_<<vars, clientVars>>
    PROVE  pool_exists' /\ fee_bps' = fee_bps
<1>1. UNCHANGED <<pool_exists, fee_bps>>
  BY DEF ClientNext, ScriptStep, CreatePool, AllowVault, DepositFirst, QuoteMySwap, MySwap,
         FetchBalance, FetchReserves, FetchSupply, WithdrawHalf, Fail, OthersStep, PoolUse,
         InitializePool, SetWalletPolicy, AddLiquidity, RemoveLiquidity, Swap, BurnLp,
         TransferLp, Transfer, poolVars, vars
<1> QED
  BY <1>1

LEMMA OthersKeepQuotes ==
    ASSUME ScriptInv, OthersStep
    PROVE  ScriptInv'
<1>1. /\ UNCHANGED <<stage, burned, live, minimum>> /\ stage \notin {"done", "failed"}
      /\ touched' = (touched \/ <<reserve, lp_supply>>' # <<reserve, lp_supply>>)
      /\ ~Fetching => worth' = [s \in Side |-> worth[s]]
  BY DEF OthersStep, scriptVars
<1>2. ~touched' => ~touched /\ reserve' = reserve /\ lp_supply' = lp_supply
  BY <1>1
<1>3. pool_exists => pool_exists' /\ fee_bps' = fee_bps
  BY PoolStaysOpen DEF ClientNext
<1>4. SwapQuoted'
  <2>1. SUFFICES ASSUME NEW s \in Side, stage = SwapStage(s)
                 PROVE  /\ minimum'[Other(s)] = Bounded(worth'[Other(s)])
                        /\ ~touched' => worth'[Other(s)] = SwapOut(s, SwapAmount[s])'
    BY <1>1 DEF SwapQuoted, SwapStage, Bounded, Other
  <2>2. stage \notin {"create_pool", "failed"} /\ ~Fetching /\ Other(s) \in Side
    BY <2>1 DEF SwapStage, Fetching, Other, Side
  <2>3. worth'[Other(s)] = worth[Other(s)] /\ minimum' = minimum
    BY <1>1, <2>2
  <2>4. fee_bps' = fee_bps
    BY <1>3, <2>2 DEF ScriptInv, PoolOpen
  <2>5. ~touched' => ~touched /\ SwapOut(s, SwapAmount[s])' = SwapOut(s, SwapAmount[s])
    BY <1>2, <2>4 DEF SwapOut
  <2> QED
    BY <2>1, <2>3, <2>5 DEF ScriptInv, SwapQuoted
<1>5. WithdrawalQuoted'
  BY <1>1, <1>2 DEF ScriptInv, WithdrawalQuoted, Bounded, QuoteRemoveOut
<1>6. PoolOpen' /\ burned' \in Nat
  BY <1>1, <1>3 DEF ScriptInv, PoolOpen
<1> QED
  BY <1>4, <1>5, <1>6 DEF ScriptInv

LEMMA ScriptKeepsQuotes ==
    ASSUME IInv, ScriptInv, ScriptStep
    PROVE  ScriptInv'
<1>1. PoolOpen'
  <2>1. CASE CreatePool
    BY <2>1 DEF CreatePool, InitializePool, PoolOpen
  <2>2. CASE ~CreatePool
    <3>1. stage' = "failed" \/ stage \notin {"create_pool", "failed"}
      BY <2>2 DEF ScriptStep, Await, DepositFirst, WithdrawHalf, Fail, FetchBalance,
                  FetchReserves, FetchSupply, AllowVault, QuoteMySwap, MySwap
    <3>2. pool_exists => pool_exists'
      BY PoolStaysOpen DEF ClientNext
    <3> QED
      BY <3>1, <3>2 DEF ScriptInv, PoolOpen
  <2> QED
    BY <2>1, <2>2
<1>2. CASE CreatePool \/ DepositFirst \/ WithdrawHalf \/ Fail \/ \E s \in Side : AllowVault(s)
  <2>1. burned' = burned
    BY <1>2 DEF CreatePool, DepositFirst, WithdrawHalf, Fail, AllowVault
  <2>2. stage' \in {"allow_A", "allow_B", "deposit", "quote_A", "done", "failed"}
    BY <1>2 DEF CreatePool, DepositFirst, WithdrawHalf, Fail, AllowVault, Await, NextStage, Side
  <2> QED
    BY <1>1, <2>1, <2>2 DEF ScriptInv, SwapQuoted, WithdrawalQuoted, SwapStage
<1>3. ASSUME NEW s \in Side, MySwap(s)
      PROVE  ScriptInv'
  <2>1. burned' = burned
    BY <1>3 DEF MySwap
  <2>2. stage' \in {"quote_B", "fetch_balance"}
    BY <1>3 DEF MySwap, Await, NextStage, Side
  <2> QED
    BY <1>1, <2>1, <2>2 DEF ScriptInv, SwapQuoted, WithdrawalQuoted, SwapStage
<1>4. ASSUME NEW s \in Side, QuoteMySwap(s)
      PROVE  ScriptInv'
  <2>1. stage' = SwapStage(s) /\ burned' = burned
    BY <1>4 DEF QuoteMySwap, Await, NextStage, SwapStage, Side
  <2>2. Other(s) \in Side /\ \A t \in Side : stage' = SwapStage(t) => t = s
    BY <2>1 DEF Other, Side, SwapStage
  <2>3. /\ minimum'[Other(s)] = Bounded(QuoteSwapOut(SwapAmount[s], reserve[s],
                                                     reserve[Other(s)], fee_bps))
        /\ worth'[Other(s)] = SwapOut(s, SwapAmount[s])
        /\ UNCHANGED <<reserve, fee_bps>>
    BY <1>4, <2>2 DEF QuoteMySwap, Nothing, vars
  <2>4. QuoteSwapOut(SwapAmount[s], reserve[s], reserve[Other(s)], fee_bps)
          = SwapOut(s, SwapAmount[s])
    BY DEF QuoteSwapOut, SwapOut, AmountOut, InWithFee
  <2>5. SwapOut(s, SwapAmount[s])' = SwapOut(s, SwapAmount[s])
    BY <2>3 DEF SwapOut
  <2>6. minimum'[Other(s)] = Bounded(worth'[Other(s)])
    BY <2>3, <2>4
  <2>7. SwapQuoted'
    BY <2>2, <2>3, <2>5, <2>6 DEF SwapQuoted, Bounded, SwapStage, Other
  <2>8. WithdrawalQuoted'
    BY <2>1 DEF WithdrawalQuoted, SwapStage
  <2> QED
    BY <1>1, <2>1, <2>7, <2>8 DEF ScriptInv
<1>5. CASE FetchBalance
  <2>1. stage' = "fetch_reserves" /\ burned' = lp[Me] \div 2
    BY <1>5 DEF FetchBalance, Await, NextStage
  <2>2. burned' \in Nat
    BY <2>1, MeIsAUser, UserIsNotThePool DEF IInv, TypeOK
  <2> QED
    BY <1>1, <2>1, <2>2 DEF ScriptInv, SwapQuoted, WithdrawalQuoted, SwapStage
<1>6. CASE FetchReserves
  <2>1. /\ stage' = "fetch_supply" /\ live' = reserve
        /\ burned' = burned /\ reserve' = reserve
    BY <1>6 DEF FetchReserves, Await, NextStage, vars
  <2> QED
    BY <1>1, <2>1 DEF ScriptInv, SwapQuoted, WithdrawalQuoted, SwapStage
<1>7. CASE FetchSupply
  <2>1. /\ stage = "fetch_supply" /\ stage' = "withdraw"
        /\ minimum' = [s \in Side |-> Bounded(QuoteRemoveOut(burned, live[s], lp_supply))]
        /\ UNCHANGED <<burned, touched, reserve, lp_supply>>
    BY <1>7 DEF FetchSupply, Await, NextStage, vars, historyVars
  <2>2. WithdrawalQuoted'
    BY <2>1 DEF ScriptInv, WithdrawalQuoted, Bounded, QuoteRemoveOut
  <2>3. SwapQuoted'
    BY <2>1 DEF SwapQuoted, SwapStage
  <2> QED
    BY <1>1, <2>1, <2>2, <2>3 DEF ScriptInv
<1> QED
  BY <1>2, <1>3, <1>4, <1>5, <1>6, <1>7 DEF ScriptStep

LEMMA ScriptAlways == ClientSpec => [](IInv /\ ScriptInv)
<1>1. ASSUME IInv, ScriptInv, [ClientNext]_<<vars, clientVars>>
      PROVE  IInv' /\ ScriptInv'
  <2>1. IInv'
    BY <1>1, ClientKeeps DEF ScriptInv
  <2>2. CASE UNCHANGED <<vars, clientVars>>
    BY <1>1, <2>1, <2>2
    DEF vars, clientVars, scriptVars, historyVars, ScriptInv, SwapQuoted, WithdrawalQuoted,
        PoolOpen, Bounded, QuoteRemoveOut, SwapOut
  <2> QED
    BY <1>1, <2>1, <2>2, OthersKeepQuotes, ScriptKeepsQuotes DEF ClientNext
<1> QED
  BY <1>1, ScriptStarts, PTL DEF ClientSpec

(* A share of a quote is no more than the quote.                           *)
LEMMA BoundedIsLess ==
    ASSUME NEW n \in Nat
    PROVE  Bounded(n) \in Nat /\ Bounded(n) <= n
<1>1. FEE_DENOMINATOR \in Nat \ {0} /\ SLIPPAGE_BPS \in Nat /\ SLIPPAGE_BPS <= FEE_DENOMINATOR
  BY MathAssumption, ClientAssumption
<1>2. SLIPPAGE_BPS * n <= FEE_DENOMINATOR * n
  BY <1>1, ProductMonotone
<1>3. n * SLIPPAGE_BPS \in Nat
  BY <1>1, ProductNat
<1>4. /\ Bounded(n) \in Nat
      /\ Bounded(n) * FEE_DENOMINATOR <= n * SLIPPAGE_BPS
  BY <1>1, <1>3, DivBounds DEF Bounded
<1>5. Bounded(n) * FEE_DENOMINATOR <= n * FEE_DENOMINATOR
  BY <1>1, <1>2, <1>4
<1> QED
  BY <1>1, <1>4, <1>5, ProductCancel

(* Whatever others do between the script's fetch and its swap, the swap    *)
(* pays at least the share asked for of what the program offered at the    *)
(* fetch, or does not happen.                                              *)
THEOREM ToleranceKept == ClientSpec => SwapsPaidWithinTolerance
<1>1. ASSUME IInv, ScriptInv, NEW s \in Side, MySwap(s)
      PROVE  Received(Other(s)) >= Bounded(worth[Other(s)])
  <2> DEFINE out == SwapOut(s, SwapAmount[s])
  <2>1. /\ stage = SwapStage(s)
        /\ balance' = BalanceAfterSwap(Me, s, SwapAmount[s])
        /\ QuoteSwap(SwapAmount[s], reserve[s], reserve[Other(s)], fee_bps) = "Ok"
        /\ out >= minimum[Other(s)] /\ balance[Other(s)][Vault] >= out
    BY <1>1 DEF MySwap, Await, SwapStage, Swap, CanSwap, AcceptsSwap, CanMove
  <2>2. minimum[Other(s)] = Bounded(worth[Other(s)])
    BY <1>1, <2>1 DEF ScriptInv, SwapQuoted
  <2>3. out \in Nat
    BY <1>1, <2>1, ClientAssumption, SwapAmounts DEF IInv
  <2> HIDE DEF out
  <2>4. /\ balance \in [Side -> [Accounts -> Nat]]
        /\ Other(s) \in Side /\ Other(s) # s
        /\ Me \in Accounts /\ Vault \in Accounts /\ Me # Vault
    BY <1>1, MeIsAUser, UserIsNotThePool DEF IInv, TypeOK, Other, Side
  <2>5. Moved(Other(s), Vault, Me, out)[Me] = balance[Other(s)][Me] + out
    BY <2>1, <2>3, <2>4, MovedBalances
  <2>6. balance'[Other(s)] = Moved(Other(s), Vault, Me, out)
    BY <2>1, <2>4 DEF BalanceAfterSwap, out
  <2>7. balance'[Other(s)][Me] = balance[Other(s)][Me] + out /\ balance[Other(s)][Me] \in Nat
    BY <2>4, <2>5, <2>6
  <2>8. Received(Other(s)) = out
    BY <2>3, <2>7 DEF Received
  <2> QED
    BY <2>1, <2>2, <2>8
<1>2. IInv /\ ScriptInv /\ [ClientNext]_<<vars, clientVars>>
        => [\A s \in Side : MySwap(s) => Received(Other(s)) >= Bounded(worth[Other(s)])
           ]_<<vars, clientVars>>
  BY <1>1
<1> QED
  BY <1>2, ScriptAlways, PTL DEF ClientSpec, SwapsPaidWithinTolerance

(* The script's own arithmetic is the program's for every amount: unless   *)
(* somebody has come between, its minimum never makes the program refuse   *)
(* what it would have done without one.                                    *)
THEOREM QuotesAgree == ClientSpec => []QuotesMatchTheProgram
<1>1. ASSUME IInv, stage = "deposit", lp_supply = 0,
             CanAddLiquidity(Me, DepositAmount["A"], DepositAmount["B"], 0, 0, 0)
      PROVE  CanAddLiquidity(Me, DepositAmount["A"], DepositAmount["B"],
                             DepositAmount["A"], DepositAmount["B"], MinimumLp)
  <2> DEFINE a == DepositAmount["A"]
             b == DepositAmount["B"]
  <2>1. a \in Nat /\ b \in Nat
    BY ClientAssumption DEF Side
  <2>2. DepositOf(a, b)["A"] = a /\ DepositOf(a, b)["B"] = b
    BY <1>1 DEF DepositOf, Side
  <2>3. LpToUser(a, b) \in Nat
    BY <1>1, <2>1, DepositAmounts DEF IInv, CanAddLiquidity, AcceptsDeposit
  <2>4. QuoteInitialLp(a, b) = LpToUser(a, b)
    <3>1. a * b \in Nat
      BY <2>1, ProductNat
    <3> QED
      BY <1>1, <3>1, NewtonIsExact DEF QuoteInitialLp, LpToUser, InitialLp
  <2>5. LpToUser(a, b) >= MinimumLp
    BY <2>3, <2>4, BoundedIsLess DEF MinimumLp
  <2> QED
    BY <1>1, <2>1, <2>2, <2>5 DEF CanAddLiquidity, AcceptsDeposit
<1>2. ASSUME IInv, ScriptInv, NEW s \in Side, stage = SwapStage(s), ~touched,
             CanSwap(Me, s, SwapAmount[s], 0)
      PROVE  CanSwap(Me, s, SwapAmount[s], minimum[Other(s)])
  <2>1. minimum[Other(s)] = Bounded(SwapOut(s, SwapAmount[s]))
    BY <1>2 DEF ScriptInv, SwapQuoted
  <2>2. SwapOut(s, SwapAmount[s]) \in Nat
    BY <1>2, ClientAssumption, SwapAmounts DEF IInv, CanSwap, AcceptsSwap
  <2>3. SwapOut(s, SwapAmount[s]) >= minimum[Other(s)]
    BY <2>1, <2>2, BoundedIsLess
  <2> QED
    BY <1>2, <2>3 DEF CanSwap, AcceptsSwap
<1>3. ASSUME IInv, ScriptInv, stage = "withdraw", ~touched, CanRemoveLiquidity(Me, burned, 0, 0)
      PROVE  CanRemoveLiquidity(Me, burned, minimum["A"], minimum["B"])
  <2>1. \A s \in Side : /\ PayoutOf(burned)[s] = QuoteRemoveOut(burned, reserve[s], lp_supply)
                        /\ minimum[s] = Bounded(QuoteRemoveOut(burned, reserve[s], lp_supply))
    BY <1>3 DEF ScriptInv, WithdrawalQuoted, PayoutOf, WithdrawnOf, QuoteRemoveOut
  <2>2. \A s \in Side : PayoutOf(burned)[s] \in Nat
    BY <1>3, PayoutAmounts DEF IInv, ScriptInv, CanRemoveLiquidity, AcceptsWithdrawal
  <2>3. \A s \in Side : PayoutOf(burned)[s] >= minimum[s]
    BY <2>1, <2>2, BoundedIsLess
  <2>4. "A" \in Side /\ "B" \in Side
    BY DEF Side
  <2> QED
    BY <1>3, <2>3, <2>4 DEF CanRemoveLiquidity, AcceptsWithdrawal
<1>4. IInv /\ ScriptInv => QuotesMatchTheProgram
  BY <1>1, <1>2, <1>3 DEF QuotesMatchTheProgram, SwapStage
<1> QED
  BY <1>4, ScriptAlways, PTL
=============================================================================
