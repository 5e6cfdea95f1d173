------------------------------- MODULE System -------------------------------
(***************************************************************************)
(* The two programs together: two stablecoins, each a full instance of     *)
(* Stablecoin with its own authorities, roles, policies and accounts, and  *)
(* a pool between them.  The pool is one more owner of token accounts: it  *)
(* moves tokens only by asking Token-2022, under the signature of its PDA, *)
(* for transfers that every other owner could ask for, and both transfers  *)
(* of an instruction succeed or neither does.                              *)
(*                                                                         *)
(* Module Amm describes the same pool with the rest of the chain reduced   *)
(* to an environment; Pool below shows which state of the two stablecoins  *)
(* that environment stands for.                                            *)
(***************************************************************************)
EXTENDS AmmMath, FiniteSets

CONSTANTS
    Keys, LostKey, DefaultKey, None,    \* as in Stablecoin, shared by both mints
    Authorities, MaxGranted,
    Users, Vault, Locked,               \* as in Amm
    Amounts, LpAmounts, Minimums, Fees,
    Caps, IssueAmounts, Allowances,     \* by side: what the issuer of each mint may ask for
    PolicyMoves, PauseFlags,            \* by side: what compliance and pause may decide
    TransferAmounts                     \* amounts anybody may transfer

Side == {"A", "B"}
Accounts == Users \cup {Vault}

ASSUME SystemAssumption ==
    /\ Vault \notin Users /\ Locked \notin Users
    /\ Amounts \subseteq Nat /\ LpAmounts \subseteq Nat
    /\ Minimums \subseteq Nat /\ Fees \subseteq Nat
    /\ LostKey \notin Keys /\ DefaultKey \notin Keys \cup {LostKey}
    /\ None \notin Keys \cup {LostKey, DefaultKey} \cup Nat
    /\ Authorities \subseteq Keys \cup {LostKey, DefaultKey}
    /\ MaxGranted \in Nat
    /\ \A s \in Side : /\ Caps[s] \subseteq Nat /\ IssueAmounts[s] \subseteq Nat
                       /\ Allowances[s] \subseteq Nat
                       /\ PolicyMoves[s] \subseteq Accounts \X {"Allowed", "Blocked"}
                       /\ PauseFlags[s] \subseteq BOOLEAN
    /\ TransferAmounts \subseteq Nat
    /\ 1 .. MAX_SUPPLY_CAP \subseteq TransferAmounts

VARIABLES
    initialized_a, admin_a, pending_admin_a, compliance_authority_a, supply_cap_a,
    total_minted_a, total_burned_a, paused_a, minters_a, allowance_a, minted_a, policy_a,
    mint_supply_a, mint_paused_a, state_a, balance_a, granted_a, retired_a,
    initialized_b, admin_b, pending_admin_b, compliance_authority_b, supply_cap_b,
    total_minted_b, total_burned_b, paused_b, minters_b, allowance_b, minted_b, policy_b,
    mint_supply_b, mint_paused_b, state_b, balance_b, granted_b, retired_b,
    pool_exists, fee_bps, reserve, lp, lp_supply

poolVars == <<pool_exists, fee_bps, reserve>>
lpVars == <<lp, lp_supply>>
vars_a == <<initialized_a, admin_a, pending_admin_a, compliance_authority_a, supply_cap_a,
            total_minted_a, total_burned_a, paused_a, minters_a, allowance_a, minted_a, policy_a,
            mint_supply_a, mint_paused_a, state_a, balance_a, granted_a, retired_a>>
vars_b == <<initialized_b, admin_b, pending_admin_b, compliance_authority_b, supply_cap_b,
            total_minted_b, total_burned_b, paused_b, minters_b, allowance_b, minted_b, policy_b,
            mint_supply_b, mint_paused_b, state_b, balance_b, granted_b, retired_b>>
vars == <<vars_a, vars_b, poolVars, lpVars>>

A == INSTANCE Stablecoin WITH
    Caps <- Caps["A"], Amounts <- IssueAmounts["A"], Allowances <- Allowances["A"],
    PolicyMoves <- PolicyMoves["A"], PauseFlags <- PauseFlags["A"],
    initialized <- initialized_a, admin <- admin_a, pending_admin <- pending_admin_a,
    compliance_authority <- compliance_authority_a, supply_cap <- supply_cap_a,
    total_minted <- total_minted_a, total_burned <- total_burned_a, paused <- paused_a,
    minters <- minters_a, allowance <- allowance_a, minted <- minted_a, policy <- policy_a,
    mint_supply <- mint_supply_a, mint_paused <- mint_paused_a, state <- state_a,
    balance <- balance_a, granted <- granted_a, retired <- retired_a

B == INSTANCE Stablecoin WITH
    Caps <- Caps["B"], Amounts <- IssueAmounts["B"], Allowances <- Allowances["B"],
    PolicyMoves <- PolicyMoves["B"], PauseFlags <- PauseFlags["B"],
    initialized <- initialized_b, admin <- admin_b, pending_admin <- pending_admin_b,
    compliance_authority <- compliance_authority_b, supply_cap <- supply_cap_b,
    total_minted <- total_minted_b, total_burned <- total_burned_b, paused <- paused_b,
    minters <- minters_b, allowance <- allowance_b, minted <- minted_b, policy <- policy_b,
    mint_supply <- mint_supply_b, mint_paused <- mint_paused_b, state <- state_b,
    balance <- balance_b, granted <- granted_b, retired <- retired_b

(* What the pool sees of the two stablecoins.  A closed account and a      *)
(* frozen one are the same to it: neither takes part in a transfer.        *)
BySide(a, b) == [s \in Side |-> IF s = "A" THEN a ELSE b]

balance == BySide(balance_a, balance_b)
policy == BySide(policy_a, policy_b)
paused == BySide(paused_a, paused_b)
supply == BySide(mint_supply_a, mint_supply_b)
frozen == BySide([x \in Accounts |-> state_a[x] # "Thawed"],
                 [x \in Accounts |-> state_b[x] # "Thawed"])

Pool == INSTANCE Amm WITH
    Enrolled <- {}, Endowment <- 0, SupplyCap <- MAX_SUPPLY_CAP, PausableSides <- Side,
    GiftAmounts <- TransferAmounts, IssueAmounts <- IssueAmounts["A"] \cup IssueAmounts["B"],
    PolicyMoves <- PolicyMoves["A"] \cup PolicyMoves["B"]

Init ==
    /\ A!Init /\ B!Init
    /\ pool_exists = FALSE
    /\ fee_bps = 0
    /\ reserve = [s \in Side |-> 0]
    /\ lp = [x \in Users \cup {Locked} |-> 0]
    /\ lp_supply = 0

-----------------------------------------------------------------------------
(* Any step of one stablecoin's program, its authorities or its owners.    *)
(* The owner of a vault is the pool's PDA: outside the pool's instructions *)
(* nobody opens or closes a vault or takes from it.                        *)

VaultLeftAlone(state1, state2, balance1, balance2) ==
    /\ (state2[Vault] = "Closed") = (state1[Vault] = "Closed")
    /\ balance2[Vault] >= balance1[Vault]

StepOfA ==
    /\ A!Next
    /\ VaultLeftAlone(state_a, state_a', balance_a, balance_a')
    /\ UNCHANGED <<vars_b, poolVars, lpVars>>

StepOfB ==
    /\ B!Next
    /\ VaultLeftAlone(state_b, state_b', balance_b, balance_b')
    /\ UNCHANGED <<vars_a, poolVars, lpVars>>

-----------------------------------------------------------------------------
(* initialize_pool opens both vaults, frozen by default, once both mints   *)
(* have a config.                                                          *)
InitializePool(fee) ==
    /\ ~pool_exists
    /\ fee <= MAX_FEE_BPS
    /\ A!OpenAccount(Vault) /\ B!OpenAccount(Vault)
    /\ pool_exists' = TRUE
    /\ fee_bps' = fee
    /\ reserve' = [s \in Side |-> 0]
    /\ UNCHANGED lpVars

AddLiquidityOffered_Faulty(u, a, b, a_min, b_min, min_lp_out) ==
    LET amount == Pool!DepositOf(a, b) IN
    /\ Pool!AcceptsDeposit(u, a, b, a_min, b_min, min_lp_out)
    /\ A!Transfer(u, Vault, amount["A"])
    /\ B!Transfer(u, Vault, amount["B"])
    /\ lp' = [lp EXCEPT ![Locked] = @ + Pool!LpToLock, ![u] = @ + Pool!LpToUser(a, b)]
    /\ lp_supply' = Pool!SupplyAfterDeposit(a, b)
    /\ reserve' = BySide(reserve["A"] + a, reserve["B"] + b)
    /\ UNCHANGED <<pool_exists, fee_bps>>

AddLiquidity(u, a, b, a_min, b_min, min_lp_out) ==
    LET amount == Pool!DepositOf(a, b) IN
    /\ Pool!AcceptsDeposit(u, a, b, a_min, b_min, min_lp_out)
    /\ A!Transfer(u, Vault, amount["A"])
    /\ B!Transfer(u, Vault, amount["B"])
    /\ lp' = [lp EXCEPT ![Locked] = @ + Pool!LpToLock, ![u] = @ + Pool!LpToUser(a, b)]
    /\ lp_supply' = Pool!SupplyAfterDeposit(a, b)
    /\ reserve' = [s \in Side |-> reserve[s] + amount[s]]
    /\ lp_supply' = Pool!ExpectedLpSupply(a, b)
    /\ Pool!EnsureSolvent(reserve', balance')
    /\ Pool!EnsureSeeded(reserve', Pool!ExpectedLpSupply(a, b), lp'[Locked])
    /\ UNCHANGED <<pool_exists, fee_bps>>

RemoveLiquidity(u, n, min_a_out, min_b_out) ==
    LET paid == Pool!PayoutOf(n) IN
    /\ Pool!AcceptsWithdrawal(u, n, min_a_out, min_b_out)
    /\ lp[u] >= n
    /\ lp' = [lp EXCEPT ![u] = @ - n]
    /\ lp_supply' = Pool!SupplyAfterWithdrawal(n)
    /\ A!Transfer(Vault, u, paid["A"])
    /\ B!Transfer(Vault, u, paid["B"])
    /\ reserve' = [s \in Side |-> reserve[s] - paid[s]]
    /\ lp_supply' = Pool!NewLpSupply(n)
    /\ Pool!EnsureSolvent(reserve', balance')
    /\ Pool!EnsureSeeded(reserve', Pool!NewLpSupply(n), lp'[Locked])
    /\ UNCHANGED <<pool_exists, fee_bps>>

SwapAtoB(u, amount_in, min_amount_out) ==
    LET amount_out == Pool!SwapOut("A", amount_in) IN
    /\ Pool!AcceptsSwap(u, "A", amount_in, min_amount_out)
    /\ A!Transfer(u, Vault, amount_in)
    /\ B!Transfer(Vault, u, amount_out)
    /\ reserve' = BySide(reserve["A"] + amount_in, reserve["B"] - amount_out)
    /\ reserve'["A"] * reserve'["B"] >= reserve["A"] * reserve["B"]
    /\ Pool!EnsureSolvent(reserve', balance')
    /\ UNCHANGED <<pool_exists, fee_bps, lpVars>>

SwapBtoA(u, amount_in, min_amount_out) ==
    LET amount_out == Pool!SwapOut("B", amount_in) IN
    /\ Pool!AcceptsSwap(u, "B", amount_in, min_amount_out)
    /\ B!Transfer(u, Vault, amount_in)
    /\ A!Transfer(Vault, u, amount_out)
    /\ reserve' = BySide(reserve["A"] - amount_out, reserve["B"] + amount_in)
    /\ reserve'["A"] * reserve'["B"] >= reserve["A"] * reserve["B"]
    /\ Pool!EnsureSolvent(reserve', balance')
    /\ UNCHANGED <<pool_exists, fee_bps, lpVars>>

(* LP tokens carry no policy.                                              *)
TransferLp(u, x, n) ==
    /\ n > 0 /\ x # u /\ lp[u] >= n
    /\ lp' = [lp EXCEPT ![u] = @ - n, ![x] = @ + n]
    /\ UNCHANGED <<vars_a, vars_b, poolVars, lp_supply>>

BurnLp(u, n) ==
    /\ n > 0 /\ lp[u] >= n /\ lp_supply >= n
    /\ lp' = [lp EXCEPT ![u] = @ - n]
    /\ lp_supply' = lp_supply - n
    /\ UNCHANGED <<vars_a, vars_b, poolVars>>

-----------------------------------------------------------------------------
PoolStep ==
    \/ \E fee \in Fees : InitializePool(fee)
    \/ \E u \in Users, a, b \in Amounts, a_min, b_min, min_lp_out \in Minimums :
           AddLiquidity(u, a, b, a_min, b_min, min_lp_out)
    \/ \E u \in Users, n \in LpAmounts, min_a_out, min_b_out \in Minimums :
           RemoveLiquidity(u, n, min_a_out, min_b_out)
    \/ \E u \in Users, n \in Amounts, min_amount_out \in Minimums :
           SwapAtoB(u, n, min_amount_out) \/ SwapBtoA(u, n, min_amount_out)

LpStep ==
    \/ \E u \in Users, x \in Users \cup {Locked}, n \in LpAmounts : TransferLp(u, x, n)
    \/ \E u \in Users, n \in LpAmounts : BurnLp(u, n)

Next == StepOfA \/ StepOfB \/ PoolStep \/ LpStep

Spec == Init /\ [][Next]_vars

-----------------------------------------------------------------------------
(* Chain of cover: what the pool records, its vaults hold; what a vault    *)
(* holds is part of the supply; the supply is within the cap.  No handler  *)
(* sees it whole: the pool compares its vaults, the issuer its supply, and *)
(* what lies between are donations, direct burns and the transfers of      *)
(* others (README.md, security invariants of both programs).               *)
ReservesAreIssued ==
    \A s \in Side :
        /\ reserve[s] <= balance[s][Vault]
        /\ balance[s][Vault] <= supply[s]
        /\ supply[s] <= BySide(supply_cap_a, supply_cap_b)[s]

(* Refinement.  The pool between two real stablecoins behaves as module    *)
(* Amm says: whatever the issuers, compliance and owners of both mints do, *)
(* in any order, is one of the few moves of Amm's environment, and the     *)
(* checks the pool makes are enough for its transfers.  What is proved of  *)
(* Amm therefore holds of the two programs together.                       *)
ImplementsAmm == Pool!Spec
=============================================================================
