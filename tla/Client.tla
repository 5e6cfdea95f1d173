------------------------------- MODULE Client -------------------------------
(***************************************************************************)
(* A caller of the pool as scripts/demo.ts is one: it creates the pool,    *)
(* allows its vaults, deposits, swaps both ways and withdraws half of its  *)
(* LP tokens, one transaction after another.  Before a swap or withdrawal  *)
(* it fetches accounts, works out the quote itself and asks for a share of *)
(* it as its minimum.  Every fetch and every transaction is awaited, and   *)
(* others use the pool in between.                                         *)
(*                                                                         *)
(* The script holds every authority of both stablecoins, so nobody else    *)
(* mints, pauses or allows accounts; Init of module Amm has the others     *)
(* funded and allowed.  A transaction that is refused, or expires before   *)
(* it lands, ends the script.                                              *)
(***************************************************************************)
EXTENDS Amm

CONSTANTS
    Me,                     \* the script's wallet
    FEE_BPS,                \* the fee it creates the pool with
    DepositAmount,          \* DepositAmount[s]: what it deposits of each side
    SwapAmount,             \* SwapAmount[s]: what it swaps away of side s
    SLIPPAGE_BPS,           \* the share of its quote it asks for
    MaxRivals               \* bound of the model: transactions of others while it runs

ASSUME ClientAssumption ==
    /\ Me \in Enrolled
    /\ FEE_BPS \in Nat
    /\ DepositAmount \in [Side -> Nat] /\ SwapAmount \in [Side -> Nat]
    /\ SLIPPAGE_BPS \in 0 .. FEE_DENOMINATOR /\ MaxRivals \in Nat

VARIABLES
    stage,      \* what the script is at
    burned,     \* the LP tokens it is about to withdraw
    live,       \* the reserves it has fetched
    minimum,    \* minimum[s]: what its transaction in flight asks for of side s
    rivals,     \* history: transactions of others so far
    touched,    \* history: the pool has changed since the script began to fetch
    worth       \* history: the least the program would have paid, of each side,
                \* at any moment while the script fetched

scriptVars == <<stage, burned, live, minimum>>
historyVars == <<touched, worth>>
clientVars == <<scriptVars, rivals, historyVars>>

Nothing == [s \in Side |-> 0]

ClientInit ==
    /\ Init
    /\ stage = "create_pool"
    /\ burned = 0 /\ live = Nothing /\ minimum = Nothing
    /\ rivals = 0 /\ touched = FALSE /\ worth = Nothing

-----------------------------------------------------------------------------
(* The script's own arithmetic, on integers without bound.                 *)

Bounded(amount) == (amount * SLIPPAGE_BPS) \div FEE_DENOMINATOR

(* Newton's method, from above.                                            *)
NextRoot(value, root) == (root + value \div root) \div 2

NewtonSqrt(value) ==
    LET Down[root \in 1 .. value] ==
            IF NextRoot(value, root) < root THEN Down[NextRoot(value, root)] ELSE root
    IN  IF value < 2 THEN value ELSE Down[value]

QuoteInitialLp(a, b) == NewtonSqrt(a * b) - MINIMUM_LIQUIDITY

QuoteSwapOut_Faulty(amount_in, reserve_in, reserve_out, fee) ==
    (amount_in * reserve_out) \div (reserve_in + amount_in)

QuoteSwapOut(amount_in, reserve_in, reserve_out, fee) ==
    LET in_with_fee == amount_in * (FEE_DENOMINATOR - fee)
    IN  (in_with_fee * reserve_out) \div (reserve_in * FEE_DENOMINATOR + in_with_fee)

QuoteRemoveOut(lp_amount, one_reserve, supply_seen) == (lp_amount * one_reserve) \div supply_seen

-----------------------------------------------------------------------------
(* A transaction of the script lands, or never does.                       *)

NextStage ==
    [create_pool |-> "allow_A", allow_A |-> "allow_B", allow_B |-> "deposit",
     deposit |-> "quote_A", quote_A |-> "swap_A", swap_A |-> "quote_B", quote_B |-> "swap_B",
     swap_B |-> "fetch_balance", fetch_balance |-> "fetch_reserves",
     fetch_reserves |-> "fetch_supply", fetch_supply |-> "withdraw", withdraw |-> "done"]

Await(this) == stage = this /\ stage' = NextStage[this]

CreatePool ==
    /\ Await("create_pool")
    /\ InitializePool(FEE_BPS)
    /\ UNCHANGED <<burned, live, minimum, rivals, historyVars>>

AllowVault(s) ==
    /\ Await(IF s = "A" THEN "allow_A" ELSE "allow_B")
    /\ SetWalletPolicy(s, Vault, "Allowed")
    /\ UNCHANGED <<burned, live, minimum, rivals, historyVars>>

MinimumLp == Bounded(QuoteInitialLp(DepositAmount["A"], DepositAmount["B"]))

(* Nothing is fetched for the first deposit: it is to be taken whole.      *)
DepositFirst ==
    /\ Await("deposit")
    /\ AddLiquidity(Me, DepositAmount["A"], DepositAmount["B"],
                    DepositAmount["A"], DepositAmount["B"], MinimumLp)
    /\ UNCHANGED <<burned, live, minimum, rivals, historyVars>>

QuoteMySwap_Faulty(s) ==
    /\ Await(IF s = "A" THEN "quote_A" ELSE "quote_B")
    /\ minimum' = [Nothing EXCEPT ![Other(s)] =
                      Bounded(QuoteSwapOut(SwapAmount[s], reserve["A"], reserve["B"], fee_bps))]
    /\ touched' = FALSE
    /\ worth' = [Nothing EXCEPT ![Other(s)] = SwapOut(s, SwapAmount[s])]
    /\ UNCHANGED <<burned, live, rivals, vars>>

(* One fetch, of the Pool account.                                         *)
QuoteMySwap(s) ==
    /\ Await(IF s = "A" THEN "quote_A" ELSE "quote_B")
    /\ minimum' = [Nothing EXCEPT ![Other(s)] =
                      Bounded(QuoteSwapOut(SwapAmount[s], reserve[s], reserve[Other(s)], fee_bps))]
    /\ touched' = FALSE
    /\ worth' = [Nothing EXCEPT ![Other(s)] = SwapOut(s, SwapAmount[s])]
    /\ UNCHANGED <<burned, live, rivals, vars>>

MySwap(s) ==
    /\ Await(IF s = "A" THEN "swap_A" ELSE "swap_B")
    /\ Swap(Me, s, SwapAmount[s], minimum[Other(s)])
    /\ UNCHANGED <<burned, live, minimum, rivals, historyVars>>

(* Three fetches, of the script's LP account, the Pool and the LP mint.    *)
FetchBalance ==
    /\ Await("fetch_balance")
    /\ burned' = lp[Me] \div 2
    /\ touched' = FALSE
    /\ worth' = [s \in Side |-> WithdrawnOf(burned', reserve[s], lp_supply)]
    /\ UNCHANGED <<live, minimum, rivals, vars>>

FetchReserves ==
    /\ Await("fetch_reserves")
    /\ live' = reserve
    /\ UNCHANGED <<burned, minimum, rivals, historyVars, vars>>

FetchSupply ==
    /\ Await("fetch_supply")
    /\ minimum' = [s \in Side |-> Bounded(QuoteRemoveOut(burned, live[s], lp_supply))]
    /\ UNCHANGED <<burned, live, rivals, historyVars, vars>>

WithdrawHalf ==
    /\ Await("withdraw")
    /\ RemoveLiquidity(Me, burned, minimum["A"], minimum["B"])
    /\ UNCHANGED <<burned, live, minimum, rivals, historyVars>>

Fail ==
    /\ stage \notin {"done", "failed"}
    /\ stage' = "failed"
    /\ UNCHANGED <<burned, live, minimum, rivals, historyVars, vars>>

ScriptStep ==
    \/ CreatePool \/ DepositFirst \/ WithdrawHalf \/ Fail
    \/ FetchBalance \/ FetchReserves \/ FetchSupply
    \/ \E s \in Side : AllowVault(s) \/ QuoteMySwap(s) \/ MySwap(s)

-----------------------------------------------------------------------------
(* Everybody else.                                                         *)

Fetching == stage \in {"fetch_reserves", "fetch_supply"}

PoolUse(u) ==
    \/ \E a, b \in Amounts : AddLiquidity(u, a, b, 0, 0, 0)
    \/ \E n \in LpAmounts : RemoveLiquidity(u, n, 0, 0) \/ BurnLp(u, n)
    \/ \E s \in Side, n \in Amounts : Swap(u, s, n, 0)
    \/ \E s \in Side, n \in GiftAmounts : Transfer(s, u, Vault, n)
    \/ \E n \in LpAmounts : TransferLp(u, Locked, n)

OthersStep ==
    /\ stage \notin {"done", "failed"}
    /\ rivals < MaxRivals /\ rivals' = rivals + 1
    /\ \/ \E fee \in Fees : InitializePool(fee)
       \/ \E u \in Users \ {Me} : PoolUse(u)
    /\ touched' = (touched \/ <<reserve, lp_supply>>' # <<reserve, lp_supply>>)
    /\ worth' = [s \in Side |->
                    IF Fetching
                    THEN Lesser(worth[s], WithdrawnOf(burned, reserve'[s], lp_supply'))
                    ELSE worth[s]]
    /\ UNCHANGED scriptVars

ClientNext == ScriptStep \/ OthersStep

ClientSpec == ClientInit /\ [][ClientNext]_<<vars, clientVars>>

-----------------------------------------------------------------------------
(* The script's quotes are the program's: as long as nobody has touched    *)
(* the pool since it began to fetch, no minimum of it makes the program    *)
(* refuse what it would have done without one.                             *)
QuotesMatchTheProgram ==
    /\ stage = "deposit" /\ lp_supply = 0 =>
          (CanAddLiquidity(Me, DepositAmount["A"], DepositAmount["B"], 0, 0, 0) =>
             CanAddLiquidity(Me, DepositAmount["A"], DepositAmount["B"],
                             DepositAmount["A"], DepositAmount["B"], MinimumLp))
    /\ \A s \in Side :
          stage = (IF s = "A" THEN "swap_A" ELSE "swap_B") /\ ~touched =>
             (CanSwap(Me, s, SwapAmount[s], 0) =>
                CanSwap(Me, s, SwapAmount[s], minimum[Other(s)]))
    /\ stage = "withdraw" /\ ~touched =>
          (CanRemoveLiquidity(Me, burned, 0, 0) =>
             CanRemoveLiquidity(Me, burned, minimum["A"], minimum["B"]))

Received(s) == balance'[s][Me] - balance[s][Me]

(* Whoever comes between its quote and its swap, the script is paid at     *)
(* least the share it asked for of what the program offered then.          *)
SwapsPaidWithinTolerance ==
    [][ \A s \in Side : MySwap(s) => Received(Other(s)) >= Bounded(worth[Other(s)])
      ]_<<vars, clientVars>>

(* demo.ts:198-199, "99% of the quote leaves room for a competing          *)
(* transaction landing first without accepting an arbitrary price": the    *)
(* same of the withdrawal, whose quote comes from three fetches.           *)
WithdrawalPaidWithinTolerance ==
    [][ WithdrawHalf => \A s \in Side : Received(s) >= Bounded(worth[s])
      ]_<<vars, clientVars>>
=============================================================================
