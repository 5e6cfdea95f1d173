-------------------------------- MODULE Amm --------------------------------
(***************************************************************************)
(* One pool of the amm program, the token accounts it touches, and what    *)
(* the rest of the chain may do to them between two of its instructions.   *)
(*                                                                         *)
(* An instruction is one step: the chain runs a transaction alone and      *)
(* undoes it as a whole when any check or any token transfer in it fails,  *)
(* so an instruction that fails is a step that is not taken.  All checks   *)
(* of a handler, those it repeats after its transfers included, are        *)
(* conjuncts of its action.  Interleaved with the instructions, holders    *)
(* use Token-2022 directly (transfers, donations to a vault, LP transfers  *)
(* and LP burns), minters and holders change the supply, compliance        *)
(* allows or blocks accounts, the vaults included, and the issuer pauses.  *)
(***************************************************************************)
EXTENDS AmmMath, Totals

CONSTANTS
    Users,          \* wallets: each owns one account per stablecoin and one LP account
    Vault,          \* names the pool's own account of a stablecoin (vault_a, vault_b)
    Locked,         \* names the pool's own LP account (locked_lp)
    SupplyCap,      \* supply_cap of both stablecoins
    Enrolled,       \* users compliance has allowed, on both sides, before the start
    Endowment,      \* what an enrolled user holds of each stablecoin at the start
    Amounts,        \* amounts a caller may name, in tokens
    LpAmounts,      \* amounts a caller may name, in LP tokens
    Minimums,       \* slippage bounds a caller may set
    Fees,           \* fees a pool creator may ask for
    GiftAmounts,    \* amounts holders transfer directly
    IssueAmounts,   \* amounts minters mint and holders burn
    PolicyMoves,    \* the decisions compliance may take: pairs of account and status
    PausableSides   \* the stablecoins that may be paused

Side == {"A", "B"}
Status == {"Allowed", "Blocked"}

ASSUME AmmAssumption ==
    /\ Vault \notin Users /\ Locked \notin Users
    /\ Enrolled \subseteq Users /\ IsFiniteSet(Enrolled)
    /\ SupplyCap \in 0 .. MAX_SUPPLY_CAP
    /\ Endowment \in Nat
    /\ Endowment * Cardinality(Enrolled) <= SupplyCap
    /\ Amounts \subseteq Nat /\ LpAmounts \subseteq Nat
    /\ Minimums \subseteq Nat /\ Fees \subseteq Nat
    /\ GiftAmounts \subseteq Nat /\ IssueAmounts \subseteq Nat
    /\ PolicyMoves \subseteq (Users \cup {Vault}) \X Status
    /\ PausableSides \subseteq Side

Accounts == Users \cup {Vault}
LpAccounts == Users \cup {Locked}

VARIABLES
    pool_exists,    \* the Pool account has been initialized
    fee_bps,        \* Pool.fee_bps
    reserve,        \* Pool.reserve_a and Pool.reserve_b
    supply,         \* supply[s]: the live supply of the mint of stablecoin s
    balance,        \* balance[s][x]: the amount in account x of stablecoin s
    frozen,         \* frozen[s][x]: Token-2022 has the account frozen
    policy,         \* policy[s][x]: WalletPolicy.status, "None" when there is none
    paused,         \* paused[s]: MintConfig.paused, which mirrors the mint's own flag
    lp,             \* lp[x]: LP tokens in account x
    lp_supply       \* the live supply of the LP mint

poolVars == <<pool_exists, fee_bps, reserve>>
lpVars == <<lp, lp_supply>>
controlVars == <<frozen, policy, paused>>
tokenVars == <<supply, balance>>
vars == <<pool_exists, fee_bps, reserve, supply, balance, frozen, policy, paused, lp, lp_supply>>

(* Before the pool.  Enrolled users are funded and allowed; everybody      *)
(* else's account, and the vaults, Token-2022 opens empty and frozen.      *)
Init ==
    /\ pool_exists = FALSE
    /\ fee_bps = 0
    /\ reserve = [s \in Side |-> 0]
    /\ supply = [s \in Side |-> Endowment * Cardinality(Enrolled)]
    /\ balance = [s \in Side |-> [x \in Accounts |-> IF x \in Enrolled THEN Endowment ELSE 0]]
    /\ frozen = [s \in Side |-> [x \in Accounts |-> x \notin Enrolled]]
    /\ policy = [s \in Side |->
                    [x \in Accounts |-> IF x \in Enrolled THEN "Allowed" ELSE "None"]]
    /\ paused = [s \in Side |-> FALSE]
    /\ lp = [x \in LpAccounts |-> 0]
    /\ lp_supply = 0

-----------------------------------------------------------------------------
(* Token-2022, as the handlers and the holders use it.                     *)

CanMove(s, from, to, n) ==
    /\ ~paused[s]
    /\ ~frozen[s][from] /\ ~frozen[s][to]
    /\ balance[s][from] >= n

Moved(s, from, to, n) == [balance[s] EXCEPT ![from] = @ - n, ![to] = @ + n]

-----------------------------------------------------------------------------
(* Checks the handlers share (instructions/mod.rs).                        *)

EnsureUnpaused == \A s \in Side : ~paused[s]

EnsureSolvent_Faulty(reserves, balances) == \A s \in Side : balances[s][Vault] = reserves[s]

EnsureSolvent(reserves, balances) == \A s \in Side : balances[s][Vault] >= reserves[s]

EnsureSeeded(reserves, lp_live, locked_lp) ==
    /\ \A s \in Side : reserves[s] > 0
    /\ lp_live >= MINIMUM_LIQUIDITY
    /\ locked_lp >= MINIMUM_LIQUIDITY
    /\ locked_lp <= lp_live

(* The Accounts constraints on the caller's policy PDAs: both sides must   *)
(* be Allowed, whichever side is paid in.                                  *)
WalletAllowed(u) == \A s \in Side : policy[s][u] = "Allowed"

-----------------------------------------------------------------------------
InitializePool_Faulty(fee) ==
    /\ ~pool_exists
    /\ pool_exists' = TRUE
    /\ fee_bps' = fee
    /\ reserve' = [s \in Side |-> 0]
    /\ UNCHANGED <<tokenVars, lpVars, controlVars>>

InitializePool(fee) ==
    /\ ~pool_exists
    /\ fee <= MAX_FEE_BPS
    /\ pool_exists' = TRUE
    /\ fee_bps' = fee
    /\ reserve' = [s \in Side |-> 0]
    /\ UNCHANGED <<tokenVars, lpVars, controlVars>>

-----------------------------------------------------------------------------
(* add_liquidity.  The first deposit takes what is offered and locks the   *)
(* minimum; later ones take both sides in the ratio of the reserves.       *)

DepositOf(a, b) ==
    IF lp_supply = 0
    THEN [s \in Side |-> IF s = "A" THEN a ELSE b]
    ELSE [s \in Side |-> IF s = "A" THEN DepositA(a, b, reserve["A"], reserve["B"])
                                    ELSE DepositB(a, b, reserve["A"], reserve["B"])]

LpToUser(a, b) ==
    IF lp_supply = 0
    THEN InitialLp(a, b) - MINIMUM_LIQUIDITY
    ELSE LpMinted(DepositOf(a, b)["A"], DepositOf(a, b)["B"],
                  reserve["A"], reserve["B"], lp_supply)

LpToLock == IF lp_supply = 0 THEN MINIMUM_LIQUIDITY ELSE 0

DepositQuoted(a, b) ==
    IF lp_supply = 0
    THEN /\ \A s \in Side : reserve[s] = 0
         /\ lp[Locked] = 0
         /\ QuoteInitialLiquidity(a, b) = "Ok"
    ELSE /\ EnsureSeeded(reserve, lp_supply, lp[Locked])
         /\ QuoteAddLiquidity(a, b, reserve["A"], reserve["B"], lp_supply) = "Ok"

ReserveAfterDeposit_Faulty(a, b) ==
    [s \in Side |-> reserve[s] + (IF s = "A" THEN a ELSE b)]

ReserveAfterDeposit(a, b) == [s \in Side |-> reserve[s] + DepositOf(a, b)[s]]

(* What add_liquidity checks itself, and with Token-2022's own checks.     *)
AcceptsDeposit(u, a, b, a_min, b_min, min_lp_out) ==
    /\ pool_exists
    /\ WalletAllowed(u)
    /\ a > 0 /\ b > 0
    /\ EnsureUnpaused
    /\ EnsureSolvent(reserve, balance)
    /\ DepositQuoted(a, b)
    /\ DepositOf(a, b)["A"] >= a_min
    /\ DepositOf(a, b)["B"] >= b_min
    /\ LpToUser(a, b) >= min_lp_out

CanAddLiquidity(u, a, b, a_min, b_min, min_lp_out) ==
    /\ AcceptsDeposit(u, a, b, a_min, b_min, min_lp_out)
    /\ \A s \in Side : CanMove(s, u, Vault, DepositOf(a, b)[s])

BalanceAfterDeposit(u, a, b) == [s \in Side |-> Moved(s, u, Vault, DepositOf(a, b)[s])]

LpAfterDepositUnlocked_Faulty(u, a, b) == [lp EXCEPT ![u] = @ + LpToUser(a, b) + LpToLock]

LpAfterDeposit(u, a, b) == [lp EXCEPT ![Locked] = @ + LpToLock, ![u] = @ + LpToUser(a, b)]

(* The live supply after its calls to mint_to_checked: the first, of what  *)
(* is locked, is made only if that is not zero.                            *)
SupplyAfterDeposit(a, b) ==
    (IF LpToLock > 0 THEN lp_supply + LpToLock ELSE lp_supply) + LpToUser(a, b)

(* The supply the handler expects them to lead to (expected_lp_supply).    *)
ExpectedLpSupply_Faulty(a, b) == lp_supply + LpToUser(a, b)

ExpectedLpSupply(a, b) == lp_supply + LpToUser(a, b) + LpToLock

(* What it checks again on the accounts as the calls left them.            *)
DepositRechecks(u, a, b) ==
    /\ SupplyAfterDeposit(a, b) = ExpectedLpSupply(a, b)    \* else LpSupplyInvariant
    /\ EnsureSolvent(ReserveAfterDeposit(a, b), BalanceAfterDeposit(u, a, b))
    /\ EnsureSeeded(ReserveAfterDeposit(a, b), ExpectedLpSupply(a, b),
                    LpAfterDeposit(u, a, b)[Locked])

AddLiquidityUnlocked_Faulty(u, a, b, a_min, b_min, min_lp_out) ==
    /\ CanAddLiquidity(u, a, b, a_min, b_min, min_lp_out)
    /\ balance' = BalanceAfterDeposit(u, a, b)
    /\ lp' = LpAfterDepositUnlocked_Faulty(u, a, b)
    /\ lp_supply' = SupplyAfterDeposit(a, b)
    /\ reserve' = ReserveAfterDeposit(a, b)
    /\ UNCHANGED <<pool_exists, fee_bps, supply, controlVars>>

AddLiquidity(u, a, b, a_min, b_min, min_lp_out) ==
    /\ CanAddLiquidity(u, a, b, a_min, b_min, min_lp_out)
    /\ DepositRechecks(u, a, b)
    /\ balance' = BalanceAfterDeposit(u, a, b)
    /\ lp' = LpAfterDeposit(u, a, b)
    /\ lp_supply' = SupplyAfterDeposit(a, b)
    /\ reserve' = ReserveAfterDeposit(a, b)
    /\ UNCHANGED <<pool_exists, fee_bps, supply, controlVars>>

-----------------------------------------------------------------------------
(* remove_liquidity.                                                       *)

PayoutOfUnlocked_Faulty(n) ==
    [s \in Side |-> WithdrawnOf(n, reserve[s], lp_supply - lp[Locked])]

PayoutOf(n) == [s \in Side |-> WithdrawnOf(n, reserve[s], lp_supply)]

(* The live supply after burn_checked, and new_lp_supply of the quote.     *)
SupplyAfterWithdrawal(n) == lp_supply - n

NewLpSupply(n) == lp_supply - n

AcceptsWithdrawal(u, n, min_a_out, min_b_out) ==
    /\ pool_exists
    /\ WalletAllowed(u)
    /\ n > 0
    /\ EnsureUnpaused
    /\ EnsureSolvent(reserve, balance)
    /\ EnsureSeeded(reserve, lp_supply, lp[Locked])
    /\ QuoteRemoveLiquidity(n, reserve["A"], reserve["B"], lp_supply) = "Ok"
    /\ NewLpSupply(n) >= lp[Locked]
    /\ PayoutOf(n)["A"] >= min_a_out
    /\ PayoutOf(n)["B"] >= min_b_out

CanRemoveLiquidity(u, n, min_a_out, min_b_out) ==
    /\ AcceptsWithdrawal(u, n, min_a_out, min_b_out)
    /\ lp[u] >= n
    /\ \A s \in Side : CanMove(s, Vault, u, PayoutOf(n)[s])

BalanceAfterWithdrawal(u, n) == [s \in Side |-> Moved(s, Vault, u, PayoutOf(n)[s])]

ReserveAfterWithdrawal(n) == [s \in Side |-> reserve[s] - PayoutOf(n)[s]]

WithdrawalRechecks(u, n) ==
    /\ SupplyAfterWithdrawal(n) = NewLpSupply(n)            \* else LpSupplyInvariant
    /\ EnsureSolvent(ReserveAfterWithdrawal(n), BalanceAfterWithdrawal(u, n))
    /\ EnsureSeeded(ReserveAfterWithdrawal(n), NewLpSupply(n), lp[Locked])

RemoveLiquidity(u, n, min_a_out, min_b_out) ==
    /\ CanRemoveLiquidity(u, n, min_a_out, min_b_out)
    /\ WithdrawalRechecks(u, n)
    /\ lp' = [lp EXCEPT ![u] = @ - n]
    /\ lp_supply' = SupplyAfterWithdrawal(n)
    /\ balance' = BalanceAfterWithdrawal(u, n)
    /\ reserve' = ReserveAfterWithdrawal(n)
    /\ UNCHANGED <<pool_exists, fee_bps, supply, controlVars>>

-----------------------------------------------------------------------------
(* swap.  SwapDirection::AtoB is In = "A", BtoA is In = "B".               *)

Other(s) == IF s = "A" THEN "B" ELSE "A"

SwapOut(In, amount_in) == AmountOut(amount_in, reserve[In], reserve[Other(In)], fee_bps)

AcceptsSwap(u, In, amount_in, min_amount_out) ==
    /\ pool_exists
    /\ WalletAllowed(u)
    /\ amount_in > 0
    /\ EnsureUnpaused
    /\ EnsureSolvent(reserve, balance)
    /\ QuoteSwap(amount_in, reserve[In], reserve[Other(In)], fee_bps) = "Ok"
    /\ SwapOut(In, amount_in) >= min_amount_out

CanSwap(u, In, amount_in, min_amount_out) ==
    /\ AcceptsSwap(u, In, amount_in, min_amount_out)
    /\ CanMove(In, u, Vault, amount_in)
    /\ CanMove(Other(In), Vault, u, SwapOut(In, amount_in))

BalanceAfterSwap(u, In, amount_in) ==
    [s \in Side |-> IF s = In THEN Moved(s, u, Vault, amount_in)
                              ELSE Moved(s, Vault, u, SwapOut(In, amount_in))]

ReserveAfterSwap(In, amount_in) ==
    [s \in Side |-> IF s = In THEN reserve[s] + amount_in
                              ELSE reserve[s] - SwapOut(In, amount_in)]

SwapRechecks(u, In, amount_in) ==
    LET after == ReserveAfterSwap(In, amount_in) IN
    /\ after["A"] * after["B"] >= reserve["A"] * reserve["B"]
    /\ EnsureSolvent(after, BalanceAfterSwap(u, In, amount_in))

Swap(u, In, amount_in, min_amount_out) ==
    /\ CanSwap(u, In, amount_in, min_amount_out)
    /\ SwapRechecks(u, In, amount_in)
    /\ balance' = BalanceAfterSwap(u, In, amount_in)
    /\ reserve' = ReserveAfterSwap(In, amount_in)
    /\ UNCHANGED <<pool_exists, fee_bps, supply, lpVars, controlVars>>

-----------------------------------------------------------------------------
(* What others do between two instructions of the pool.                    *)

SetWalletPolicy_Faulty(s, x, status) ==
    /\ x = Vault => pool_exists
    /\ policy' = [policy EXCEPT ![s][x] = status]
    /\ frozen' = [frozen EXCEPT ![s][x] = @ /\ status = "Blocked"]
    /\ UNCHANGED <<poolVars, tokenVars, paused, lpVars>>

(* stablecoin::set_wallet_policy: record the status, freeze or thaw.       *)
SetWalletPolicy(s, x, status) ==
    /\ x = Vault => pool_exists
    /\ policy' = [policy EXCEPT ![s][x] = status]
    /\ frozen' = [frozen EXCEPT ![s][x] = (status = "Blocked")]
    /\ UNCHANGED <<poolVars, tokenVars, paused, lpVars>>

(* stablecoin::set_pause.                                                  *)
SetPause(s) ==
    /\ paused' = [paused EXCEPT ![s] = ~paused[s]]
    /\ UNCHANGED <<poolVars, tokenVars, frozen, policy, lpVars>>

(* stablecoin::mint_to, into any allowed account: a vault is one too.      *)
MintTo(s, x, n) ==
    /\ n > 0
    /\ ~paused[s] /\ policy[s][x] = "Allowed" /\ ~frozen[s][x]
    /\ supply[s] + n <= SupplyCap
    /\ balance' = [balance EXCEPT ![s][x] = @ + n]
    /\ supply' = [supply EXCEPT ![s] = @ + n]
    /\ UNCHANGED <<poolVars, controlVars, lpVars>>

(* stablecoin::burn or a direct Token-2022 burn by the owner.              *)
Burn(s, u, n) ==
    /\ n > 0
    /\ ~paused[s] /\ ~frozen[s][u] /\ balance[s][u] >= n /\ supply[s] >= n
    /\ balance' = [balance EXCEPT ![s][u] = @ - n]
    /\ supply' = [supply EXCEPT ![s] = @ - n]
    /\ UNCHANGED <<poolVars, controlVars, lpVars>>

(* A Token-2022 transfer by its owner; to a vault it is a donation.        *)
Transfer(s, u, x, n) ==
    /\ n > 0
    /\ x # u
    /\ CanMove(s, u, x, n)
    /\ balance' = [balance EXCEPT ![s] = Moved(s, u, x, n)]
    /\ UNCHANGED <<poolVars, supply, controlVars, lpVars>>

(* An owner closes an empty account and opens it again at the same         *)
(* address: Token-2022 opens it frozen, and its policy is still there.     *)
ReopenAccount(s, u) ==
    /\ balance[s][u] = 0
    /\ frozen' = [frozen EXCEPT ![s][u] = TRUE]
    /\ UNCHANGED <<poolVars, tokenVars, policy, paused, lpVars>>

(* LP tokens carry no policy: they move, even to the locked account, and   *)
(* burn at their owner's will.                                             *)
TransferLp(u, x, n) ==
    /\ n > 0
    /\ x # u
    /\ lp[u] >= n
    /\ lp' = [lp EXCEPT ![u] = @ - n, ![x] = @ + n]
    /\ UNCHANGED <<poolVars, tokenVars, controlVars, lp_supply>>

BurnLp(u, n) ==
    /\ n > 0
    /\ lp[u] >= n
    /\ lp_supply >= n
    /\ lp' = [lp EXCEPT ![u] = @ - n]
    /\ lp_supply' = lp_supply - n
    /\ UNCHANGED <<poolVars, tokenVars, controlVars>>

-----------------------------------------------------------------------------
PoolStep ==
    \/ \E fee \in Fees : InitializePool(fee)
    \/ \E u \in Users, a, b \in Amounts, a_min, b_min, min_lp_out \in Minimums :
           AddLiquidity(u, a, b, a_min, b_min, min_lp_out)
    \/ \E u \in Users, n \in LpAmounts, min_a_out, min_b_out \in Minimums :
           RemoveLiquidity(u, n, min_a_out, min_b_out)
    \/ \E u \in Users, In \in Side, amount_in \in Amounts, min_amount_out \in Minimums :
           Swap(u, In, amount_in, min_amount_out)

OutsideStep ==
    \/ \E s \in Side, move \in PolicyMoves : SetWalletPolicy(s, move[1], move[2])
    \/ \E s \in PausableSides : SetPause(s)
    \/ \E s \in Side, x \in Accounts, n \in IssueAmounts : MintTo(s, x, n)
    \/ \E s \in Side, u \in Users, n \in IssueAmounts : Burn(s, u, n)
    \/ \E s \in Side, u \in Users, x \in Accounts, n \in GiftAmounts : Transfer(s, u, x, n)
    \/ \E s \in Side, u \in Users : ReopenAccount(s, u)
    \/ \E u \in Users, x \in LpAccounts, n \in LpAmounts : TransferLp(u, x, n)
    \/ \E u \in Users, n \in LpAmounts : BurnLp(u, n)

Next == PoolStep \/ OutsideStep

Spec == Init /\ [][Next]_vars

-----------------------------------------------------------------------------
(* Type invariant.  Amounts the pool stores stay within MAX_SUPPLY_CAP.    *)
TypeOK ==
    /\ pool_exists \in BOOLEAN
    /\ fee_bps \in 0 .. MAX_FEE_BPS
    /\ reserve \in [Side -> 0 .. MAX_SUPPLY_CAP]
    /\ supply \in [Side -> 0 .. SupplyCap]
    /\ balance \in [Side -> [Accounts -> Nat]]
    /\ frozen \in [Side -> [Accounts -> BOOLEAN]]
    /\ policy \in [Side -> [Accounts -> Status \cup {"None"}]]
    /\ paused \in [Side -> BOOLEAN]
    /\ lp \in [LpAccounts -> Nat]
    /\ lp_supply \in Nat

(* Each vault holds at least the reserve the pool has recorded, whatever   *)
(* is donated, minted into a vault, blocked or paused (ensure_solvent).    *)
Solvent == \A s \in Side : balance[s][Vault] >= reserve[s]

(* The pool is either untouched or seeded, never between: reserves without *)
(* LP supply (add_liquidity would refuse for ever), supply without the     *)
(* locked minimum, or a locked balance above the supply, are unreachable   *)
(* although holders burn and send LP tokens as they like (ensure_seeded).  *)
EmptyOrSeeded ==
    \/ /\ reserve = [s \in Side |-> 0]
       /\ lp_supply = 0
       /\ lp[Locked] = 0
    \/ /\ \A s \in Side : reserve[s] > 0
       /\ MINIMUM_LIQUIDITY <= lp[Locked]
       /\ lp[Locked] <= lp_supply

(* Every LP token is backed: the square of the live supply never exceeds   *)
(* the product of the reserves, through rounding of all four operations.   *)
LpBacked == lp_supply * lp_supply <= reserve["A"] * reserve["B"]

(* The checks the handlers repeat after their transfers never fail: what   *)
(* passes the checks before the transfers goes through.                    *)
RechecksNeverFire ==
    \A u \in Users :
        /\ \A a, b \in Amounts : CanAddLiquidity(u, a, b, 0, 0, 0) => DepositRechecks(u, a, b)
        /\ \A n \in LpAmounts : CanRemoveLiquidity(u, n, 0, 0) => WithdrawalRechecks(u, n)
        /\ \A In \in Side, n \in Amounts : CanSwap(u, In, n, 0) => SwapRechecks(u, In, n)

(* A holder can always leave whole: when nothing is paused and the four    *)
(* accounts are allowed and thawed, redeeming all of one's LP tokens goes  *)
(* through if it is worth a unit of each side.  No donation, LP transfer   *)
(* to the locked account or LP burn of others can brick the pool           *)
(* (README.md, threat-model decisions).                                    *)
ExitNeverBlocked ==
    \A u \in Users :
        /\ EnsureUnpaused
        /\ WalletAllowed(u)
        /\ \A s \in Side : ~frozen[s][u] /\ ~frozen[s][Vault]
        /\ lp[u] > 0
        /\ \A s \in Side : PayoutOf(lp[u])[s] > 0
        => CanRemoveLiquidity(u, lp[u], 0, 0) /\ WithdrawalRechecks(u, lp[u])

(* The normalised value of the pool never falls: k' * L^2 >= k * L'^2 over *)
(* every step of anyone, direct LP burns included (README.md, security     *)
(* invariants).                                                            *)
ShareValueNeverFalls ==
    [][ reserve'["A"] * reserve'["B"] * lp_supply * lp_supply
          >= reserve["A"] * reserve["B"] * lp_supply' * lp_supply' ]_vars

(* There is no run on a pool: what a holder could withdraw from either     *)
(* side, rounded down, is never less after a deposit, a withdrawal, a      *)
(* donation, an LP transfer or an LP burn of somebody else, so who leaves  *)
(* last is paid no less than who leaves first.  Only a trade, which pays   *)
(* one side for the other, may lower one of the two (math.rs, "leaving any *)
(* remainder with the pool").                                              *)
Trade ==
    /\ lp_supply' = lp_supply
    /\ \E s \in Side : reserve'[s] > reserve[s]

NobodyRunsFirst ==
    [][ \A u \in Users :
          lp[u] > 0 /\ lp'[u] = lp[u] =>
              \/ \A s \in Side : PayoutOf(lp[u])'[s] >= PayoutOf(lp[u])[s]
              \/ Trade ]_vars

(* What a vault holds beyond its reserve is stranded: no step pays it out, *)
(* to anyone, ever (README.md, donations).                                 *)
SurplusStaysStranded ==
    [][ \A s \in Side :
          balance'[s][Vault] - reserve'[s] >= balance[s][Vault] - reserve[s] ]_vars

(* Whenever the reserves move, neither stablecoin is paused, neither vault *)
(* is blocked, and every wallet whose balance moves with them is allowed   *)
(* on both sides.  The program itself never reads a vault's policy: that   *)
(* blocking a vault halts the pool is left to the freeze.                  *)
ReservesMoveOnlyWhenPermitted ==
    [][ reserve' # reserve =>
          /\ \A s \in Side : ~paused[s] /\ policy[s][Vault] = "Allowed"
          /\ \A u \in Users :
               (\E s \in Side : balance'[s][u] # balance[s][u]) => WalletAllowed(u) ]_vars

(* Refinement.  Behind quotes, accounts, policies and pauses, a pool is a  *)
(* share vault: each step is of one kind, deposits pay for their claim on  *)
(* each side, withdrawals take no more than theirs, and the locked LP      *)
(* tokens stay below the supply although holders burn LP tokens outside    *)
(* the program, which keeps no record of the supply (README.md, security   *)
(* invariants).                                                            *)
Share == INSTANCE ShareVault WITH
    Minimum <- MINIMUM_LIQUIDITY, shares <- lp_supply, pinned <- lp[Locked]

ImplementsShareVault == Share!Spec
=============================================================================
