--------------------------- MODULE SystemTheorems ---------------------------
(***************************************************************************)
(* Theorems about module System: the two programs together behave as       *)
(* modules Amm and Stablecoin say, so the theorems about those modules     *)
(* hold of the system.                                                     *)
(***************************************************************************)
EXTENDS System, FiniteSetTheorems, TLAPS

AT == INSTANCE StablecoinTheorems WITH
    Caps <- Caps["A"], Amounts <- IssueAmounts["A"], Allowances <- Allowances["A"],
    PolicyMoves <- PolicyMoves["A"], PauseFlags <- PauseFlags["A"],
    initialized <- initialized_a, admin <- admin_a, pending_admin <- pending_admin_a,
    compliance_authority <- compliance_authority_a, supply_cap <- supply_cap_a,
    total_minted <- total_minted_a, total_burned <- total_burned_a, paused <- paused_a,
    minters <- minters_a, allowance <- allowance_a, minted <- minted_a, policy <- policy_a,
    mint_supply <- mint_supply_a, mint_paused <- mint_paused_a, state <- state_a,
    balance <- balance_a, granted <- granted_a, retired <- retired_a,
    view <- <<>>        \* nobody reads this log here

BT == INSTANCE StablecoinTheorems WITH
    Caps <- Caps["B"], Amounts <- IssueAmounts["B"], Allowances <- Allowances["B"],
    PolicyMoves <- PolicyMoves["B"], PauseFlags <- PauseFlags["B"],
    initialized <- initialized_b, admin <- admin_b, pending_admin <- pending_admin_b,
    compliance_authority <- compliance_authority_b, supply_cap <- supply_cap_b,
    total_minted <- total_minted_b, total_burned <- total_burned_b, paused <- paused_b,
    minters <- minters_b, allowance <- allowance_b, minted <- minted_b, policy <- policy_b,
    mint_supply <- mint_supply_b, mint_paused <- mint_paused_b, state <- state_b,
    balance <- balance_b, granted <- granted_b, retired <- retired_b, view <- <<>>

PT == INSTANCE AmmTheorems WITH
    Enrolled <- {}, Endowment <- 0, SupplyCap <- MAX_SUPPLY_CAP, PausableSides <- Side,
    GiftAmounts <- TransferAmounts, IssueAmounts <- IssueAmounts["A"] \cup IssueAmounts["B"],
    PolicyMoves <- PolicyMoves["A"] \cup PolicyMoves["B"]

LEMMA AssumptionOfA == AT!StablecoinAssumption
  BY SystemAssumption, MathAssumption DEF AT!StablecoinAssumption, AT!AnyKey, AT!Status, Side

LEMMA AssumptionOfB == BT!StablecoinAssumption
  BY SystemAssumption, MathAssumption DEF BT!StablecoinAssumption, BT!AnyKey, BT!Status, Side

LEMMA InitOfA == A!Init => AT!Init
  BY DEF A!Init, AT!Init, A!AnyKey, AT!AnyKey

LEMMA InitOfB == B!Init => BT!Init
  BY DEF B!Init, BT!Init, B!AnyKey, BT!AnyKey

LEMMA NextOfA == A!Next <=> AT!Next
<1>1. A!ProgramStep <=> AT!ProgramStep
  BY DEF A!ProgramStep, AT!ProgramStep, A!InitializeStablecoin, AT!InitializeStablecoin,
         A!GrantMinter, AT!GrantMinter, A!RevokeMinter, AT!RevokeMinter, A!SetWalletPolicy,
         AT!SetWalletPolicy, A!CanSetWalletPolicy, AT!CanSetWalletPolicy, A!MustChange,
         AT!MustChange, A!CanFreeze, AT!CanFreeze, A!CanThaw, AT!CanThaw, A!TokenFreeze,
         AT!TokenFreeze, A!TokenThaw, AT!TokenThaw, A!MintTo, AT!MintTo, A!TokenMint,
         AT!TokenMint, A!Burn, AT!Burn, A!TokenBurn, AT!TokenBurn, A!SetPause, AT!SetPause,
         A!CanSetPause, AT!CanSetPause, A!UpdateConfig, AT!UpdateConfig, A!CanUpdateConfig,
         AT!CanUpdateConfig, A!AcceptAdmin, AT!AcceptAdmin, A!SupplyTracked,
         AT!SupplyTracked, A!SupportedCap, AT!SupportedCap, A!configVars, AT!configVars,
         A!rotationVars, AT!rotationVars, A!roleVars, AT!roleVars, A!mintVars, AT!mintVars,
         A!accountVars, AT!accountVars
<1>2. A!OwnerStep <=> AT!OwnerStep
  BY DEF A!OwnerStep, AT!OwnerStep, A!OpenAccount, AT!OpenAccount, A!CloseAccount,
         AT!CloseAccount, A!Transfer, AT!Transfer, A!DirectBurn, AT!DirectBurn,
         A!TokenBurn, AT!TokenBurn, A!configVars, AT!configVars, A!rotationVars,
         AT!rotationVars, A!roleVars, AT!roleVars, A!mintVars, AT!mintVars, A!accountVars,
         AT!accountVars
<1> QED
  BY <1>1, <1>2 DEF A!Next, AT!Next

LEMMA NextOfB == B!Next <=> BT!Next
<1>1. B!ProgramStep <=> BT!ProgramStep
  BY DEF B!ProgramStep, BT!ProgramStep, B!InitializeStablecoin, BT!InitializeStablecoin,
         B!GrantMinter, BT!GrantMinter, B!RevokeMinter, BT!RevokeMinter, B!SetWalletPolicy,
         BT!SetWalletPolicy, B!CanSetWalletPolicy, BT!CanSetWalletPolicy, B!MustChange,
         BT!MustChange, B!CanFreeze, BT!CanFreeze, B!CanThaw, BT!CanThaw, B!TokenFreeze,
         BT!TokenFreeze, B!TokenThaw, BT!TokenThaw, B!MintTo, BT!MintTo, B!TokenMint,
         BT!TokenMint, B!Burn, BT!Burn, B!TokenBurn, BT!TokenBurn, B!SetPause, BT!SetPause,
         B!CanSetPause, BT!CanSetPause, B!UpdateConfig, BT!UpdateConfig, B!CanUpdateConfig,
         BT!CanUpdateConfig, B!AcceptAdmin, BT!AcceptAdmin, B!SupplyTracked,
         BT!SupplyTracked, B!SupportedCap, BT!SupportedCap, B!configVars, BT!configVars,
         B!rotationVars, BT!rotationVars, B!roleVars, BT!roleVars, B!mintVars, BT!mintVars,
         B!accountVars, BT!accountVars
<1>2. B!OwnerStep <=> BT!OwnerStep
  BY DEF B!OwnerStep, BT!OwnerStep, B!OpenAccount, BT!OpenAccount, B!CloseAccount,
         BT!CloseAccount, B!Transfer, BT!Transfer, B!DirectBurn, BT!DirectBurn,
         B!TokenBurn, BT!TokenBurn, B!configVars, BT!configVars, B!rotationVars,
         BT!rotationVars, B!roleVars, BT!roleVars, B!mintVars, BT!mintVars, B!accountVars,
         BT!accountVars
<1> QED
  BY <1>1, <1>2 DEF B!Next, BT!Next

(* The checks and the arithmetic of a deposit are those of module Amm.      *)
LEMMA ChecksOfPool ==
    /\ \A s, from, to, n : PT!CanMove(s, from, to, n) <=> Pool!CanMove(s, from, to, n)
    /\ \A s, from, to, n : PT!Moved(s, from, to, n) = Pool!Moved(s, from, to, n)
    /\ PT!EnsureUnpaused <=> Pool!EnsureUnpaused
    /\ \A r, b : PT!EnsureSolvent(r, b) <=> Pool!EnsureSolvent(r, b)
    /\ \A r, n, k : PT!EnsureSeeded(r, n, k) <=> Pool!EnsureSeeded(r, n, k)
    /\ \A u : PT!WalletAllowed(u) <=> Pool!WalletAllowed(u)
  BY DEF PT!CanMove, Pool!CanMove, PT!Moved, Pool!Moved, PT!EnsureUnpaused,
         Pool!EnsureUnpaused, PT!EnsureSolvent, Pool!EnsureSolvent, PT!EnsureSeeded,
         Pool!EnsureSeeded, PT!WalletAllowed, Pool!WalletAllowed, PT!Side, Pool!Side

LEMMA QuotesOfPool ==
    ASSUME NEW a, NEW b, NEW ra, NEW rb, NEW n
    PROVE  /\ PT!InitialLp(a, b) = Pool!InitialLp(a, b)
           /\ PT!QuoteInitialLiquidity(a, b) = Pool!QuoteInitialLiquidity(a, b)
           /\ PT!DepositA(a, b, ra, rb) = Pool!DepositA(a, b, ra, rb)
           /\ PT!DepositB(a, b, ra, rb) = Pool!DepositB(a, b, ra, rb)
           /\ PT!LpMinted(a, b, ra, rb, n) = Pool!LpMinted(a, b, ra, rb, n)
           /\ PT!QuoteAddLiquidity(a, b, ra, rb, n) = Pool!QuoteAddLiquidity(a, b, ra, rb, n)
<1>1. /\ \A x, y : PT!Lesser(x, y) = Pool!Lesser(x, y)
      /\ \A x, y : PT!CeilDiv(x, y) = Pool!CeilDiv(x, y)
      /\ \A x : PT!IntegerSqrt(x) = Pool!IntegerSqrt(x)
      /\ \A x : PT!InRange(x) <=> Pool!InRange(x)
      /\ \A x : PT!Overflows(x) <=> Pool!Overflows(x)
  BY DEF PT!Lesser, Pool!Lesser, PT!CeilDiv, Pool!CeilDiv, PT!IntegerSqrt,
         Pool!IntegerSqrt, PT!InRange, Pool!InRange, PT!Overflows, Pool!Overflows
<1>2. \A x, y : PT!InitialLp(x, y) = Pool!InitialLp(x, y)
  BY <1>1 DEF PT!InitialLp, Pool!InitialLp
<1>3. PT!QuoteInitialLiquidity(a, b) = Pool!QuoteInitialLiquidity(a, b)
  BY <1>1, <1>2 DEF PT!QuoteInitialLiquidity, Pool!QuoteInitialLiquidity
<1>4. /\ PT!BOptimal(a, ra, rb) = Pool!BOptimal(a, ra, rb)
      /\ PT!AOptimal(b, ra, rb) = Pool!AOptimal(b, ra, rb)
  BY <1>1 DEF PT!BOptimal, Pool!BOptimal, PT!AOptimal, Pool!AOptimal
<1>5. PT!ALimits(a, b, ra, rb) <=> Pool!ALimits(a, b, ra, rb)
  BY <1>4 DEF PT!ALimits, Pool!ALimits
<1>6. /\ PT!DepositA(a, b, ra, rb) = Pool!DepositA(a, b, ra, rb)
      /\ PT!DepositB(a, b, ra, rb) = Pool!DepositB(a, b, ra, rb)
  BY <1>4, <1>5 DEF PT!DepositA, Pool!DepositA, PT!DepositB, Pool!DepositB
<1>7. \A x, y : PT!LpMinted(x, y, ra, rb, n) = Pool!LpMinted(x, y, ra, rb, n)
  BY <1>1 DEF PT!LpMinted, Pool!LpMinted
<1>8. PT!QuoteAddLiquidity(a, b, ra, rb, n) = Pool!QuoteAddLiquidity(a, b, ra, rb, n)
  BY <1>1, <1>4, <1>5, <1>6, <1>7 DEF PT!QuoteAddLiquidity, Pool!QuoteAddLiquidity
<1> QED
  BY <1>2, <1>3, <1>6, <1>7, <1>8

LEMMA DepositOfPool ==
    ASSUME NEW u, NEW a, NEW b
    PROVE  /\ PT!DepositOf(a, b) = Pool!DepositOf(a, b)
           /\ PT!LpToUser(a, b) = Pool!LpToUser(a, b)
           /\ PT!DepositQuoted(a, b) <=> Pool!DepositQuoted(a, b)
           /\ PT!ReserveAfterDeposit(a, b) = Pool!ReserveAfterDeposit(a, b)
           /\ PT!BalanceAfterDeposit(u, a, b) = Pool!BalanceAfterDeposit(u, a, b)
           /\ PT!LpAfterDeposit(u, a, b) = Pool!LpAfterDeposit(u, a, b)
           /\ PT!SupplyAfterDeposit(a, b) = Pool!SupplyAfterDeposit(a, b)
           /\ PT!ExpectedLpSupply(a, b) = Pool!ExpectedLpSupply(a, b)
           /\ PT!DepositRechecks(u, a, b) <=> Pool!DepositRechecks(u, a, b)
<1>1. PT!DepositOf(a, b) = Pool!DepositOf(a, b)
  BY QuotesOfPool DEF PT!DepositOf, Pool!DepositOf, PT!Side, Pool!Side
<1>2. /\ PT!LpToUser(a, b) = Pool!LpToUser(a, b)
      /\ PT!LpToLock = Pool!LpToLock
  BY <1>1, QuotesOfPool DEF PT!LpToUser, Pool!LpToUser, PT!LpToLock, Pool!LpToLock
<1>3. PT!DepositQuoted(a, b) <=> Pool!DepositQuoted(a, b)
  BY QuotesOfPool, ChecksOfPool DEF PT!DepositQuoted, Pool!DepositQuoted, PT!Side, Pool!Side
<1>4. /\ PT!ReserveAfterDeposit(a, b) = Pool!ReserveAfterDeposit(a, b)
      /\ PT!BalanceAfterDeposit(u, a, b) = Pool!BalanceAfterDeposit(u, a, b)
  BY <1>1, ChecksOfPool
     DEF PT!ReserveAfterDeposit, Pool!ReserveAfterDeposit, PT!BalanceAfterDeposit,
         Pool!BalanceAfterDeposit, PT!Side, Pool!Side
<1>5. /\ PT!LpAfterDeposit(u, a, b) = Pool!LpAfterDeposit(u, a, b)
      /\ PT!SupplyAfterDeposit(a, b) = Pool!SupplyAfterDeposit(a, b)
      /\ PT!ExpectedLpSupply(a, b) = Pool!ExpectedLpSupply(a, b)
  BY <1>2 DEF PT!LpAfterDeposit, Pool!LpAfterDeposit, PT!SupplyAfterDeposit,
              Pool!SupplyAfterDeposit, PT!ExpectedLpSupply, Pool!ExpectedLpSupply
<1>6. PT!DepositRechecks(u, a, b) <=> Pool!DepositRechecks(u, a, b)
  BY <1>4, <1>5, ChecksOfPool DEF PT!DepositRechecks, Pool!DepositRechecks
<1> QED
  BY <1>1, <1>2, <1>3, <1>4, <1>5, <1>6

LEMMA PayoutOfPool ==
    ASSUME NEW n
    PROVE  /\ PT!PayoutOf(n) = Pool!PayoutOf(n)
           /\ \A ra, rb, k : PT!QuoteRemoveLiquidity(n, ra, rb, k)
                               = Pool!QuoteRemoveLiquidity(n, ra, rb, k)
           /\ PT!SupplyAfterWithdrawal(n) = Pool!SupplyAfterWithdrawal(n)
           /\ PT!NewLpSupply(n) = Pool!NewLpSupply(n)
  BY DEF PT!SupplyAfterWithdrawal, Pool!SupplyAfterWithdrawal, PT!NewLpSupply, Pool!NewLpSupply,
         PT!PayoutOf, Pool!PayoutOf, PT!QuoteRemoveLiquidity, Pool!QuoteRemoveLiquidity,
         PT!WithdrawnOf, Pool!WithdrawnOf, PT!InRange, Pool!InRange, PT!Overflows,
         Pool!Overflows, PT!Side, Pool!Side

LEMMA SwapOfPool ==
    ASSUME NEW In, NEW n
    PROVE  /\ PT!Other(In) = Pool!Other(In)
           /\ PT!SwapOut(In, n) = Pool!SwapOut(In, n)
           /\ \A ri, ro, f : PT!QuoteSwap(n, ri, ro, f) = Pool!QuoteSwap(n, ri, ro, f)
  BY DEF PT!Other, Pool!Other, PT!SwapOut, Pool!SwapOut, PT!QuoteSwap, Pool!QuoteSwap,
         PT!AmountOut, Pool!AmountOut, PT!InWithFee, Pool!InWithFee, PT!InRange,
         Pool!InRange, PT!Overflows, Pool!Overflows

LEMMA NextOfPool == PT!Next <=> Pool!Next
<1>1. PT!PoolStep <=> Pool!PoolStep
  <2>1. \A fee \in Fees : PT!InitializePool(fee) <=> Pool!InitializePool(fee)
    BY DEF PT!InitializePool, Pool!InitializePool, PT!Side, Pool!Side, PT!tokenVars,
           Pool!tokenVars, PT!lpVars, Pool!lpVars, PT!controlVars, Pool!controlVars
  <2>2. \A u \in Users, a, b \in Amounts, a_min, b_min, min_lp_out \in Minimums :
            PT!AddLiquidity(u, a, b, a_min, b_min, min_lp_out)
              <=> Pool!AddLiquidity(u, a, b, a_min, b_min, min_lp_out)
    <3> TAKE u \in Users, a, b \in Amounts, a_min, b_min, min_lp_out \in Minimums
    <3>1. PT!AcceptsDeposit(u, a, b, a_min, b_min, min_lp_out)
            <=> Pool!AcceptsDeposit(u, a, b, a_min, b_min, min_lp_out)
      BY DepositOfPool, ChecksOfPool DEF PT!AcceptsDeposit, Pool!AcceptsDeposit
    <3>2. PT!CanAddLiquidity(u, a, b, a_min, b_min, min_lp_out)
            <=> Pool!CanAddLiquidity(u, a, b, a_min, b_min, min_lp_out)
      BY <3>1, DepositOfPool, ChecksOfPool
         DEF PT!CanAddLiquidity, Pool!CanAddLiquidity, PT!Side, Pool!Side
    <3> QED
      BY <3>2, DepositOfPool
         DEF PT!AddLiquidity, Pool!AddLiquidity, PT!controlVars, Pool!controlVars
  <2>3. \A u \in Users, n \in LpAmounts, min_a_out, min_b_out \in Minimums :
            PT!RemoveLiquidity(u, n, min_a_out, min_b_out)
              <=> Pool!RemoveLiquidity(u, n, min_a_out, min_b_out)
    <3> TAKE u \in Users, n \in LpAmounts, min_a_out, min_b_out \in Minimums
    <3>1. PT!CanRemoveLiquidity(u, n, min_a_out, min_b_out)
            <=> Pool!CanRemoveLiquidity(u, n, min_a_out, min_b_out)
      BY PayoutOfPool, ChecksOfPool
         DEF PT!CanRemoveLiquidity, Pool!CanRemoveLiquidity, PT!AcceptsWithdrawal,
             Pool!AcceptsWithdrawal, PT!Side, Pool!Side
    <3>2. /\ PT!BalanceAfterWithdrawal(u, n) = Pool!BalanceAfterWithdrawal(u, n)
          /\ PT!ReserveAfterWithdrawal(n) = Pool!ReserveAfterWithdrawal(n)
      BY PayoutOfPool, ChecksOfPool
         DEF PT!BalanceAfterWithdrawal, Pool!BalanceAfterWithdrawal, PT!ReserveAfterWithdrawal,
             Pool!ReserveAfterWithdrawal, PT!Side, Pool!Side
    <3>3. PT!WithdrawalRechecks(u, n) <=> Pool!WithdrawalRechecks(u, n)
      BY <3>2, PayoutOfPool, ChecksOfPool DEF PT!WithdrawalRechecks, Pool!WithdrawalRechecks
    <3> QED
      BY <3>1, <3>2, <3>3, PayoutOfPool
         DEF PT!RemoveLiquidity, Pool!RemoveLiquidity, PT!controlVars, Pool!controlVars
  <2>4. \A u \in Users, In \in Side, n \in Amounts, min_amount_out \in Minimums :
            PT!Swap(u, In, n, min_amount_out) <=> Pool!Swap(u, In, n, min_amount_out)
    <3> TAKE u \in Users, In \in Side, n \in Amounts, min_amount_out \in Minimums
    <3>1. PT!CanSwap(u, In, n, min_amount_out) <=> Pool!CanSwap(u, In, n, min_amount_out)
      BY SwapOfPool, ChecksOfPool
         DEF PT!CanSwap, Pool!CanSwap, PT!AcceptsSwap, Pool!AcceptsSwap
    <3>2. /\ PT!BalanceAfterSwap(u, In, n) = Pool!BalanceAfterSwap(u, In, n)
          /\ PT!ReserveAfterSwap(In, n) = Pool!ReserveAfterSwap(In, n)
      BY SwapOfPool, ChecksOfPool
         DEF PT!BalanceAfterSwap, Pool!BalanceAfterSwap, PT!ReserveAfterSwap,
             Pool!ReserveAfterSwap, PT!Side, Pool!Side
    <3>3. PT!SwapRechecks(u, In, n) <=> Pool!SwapRechecks(u, In, n)
      BY <3>2, ChecksOfPool DEF PT!SwapRechecks, Pool!SwapRechecks
    <3> QED
      BY <3>1, <3>2, <3>3
         DEF PT!Swap, Pool!Swap, PT!lpVars, Pool!lpVars, PT!controlVars, Pool!controlVars
  <2> QED
    BY <2>1, <2>2, <2>3, <2>4 DEF PT!PoolStep, Pool!PoolStep, PT!Side, Pool!Side, Side
<1>2. PT!OutsideStep <=> Pool!OutsideStep
  BY DEF PT!OutsideStep, Pool!OutsideStep, PT!SetWalletPolicy, Pool!SetWalletPolicy,
         PT!SetPause, Pool!SetPause, PT!MintTo, Pool!MintTo, PT!Burn, Pool!Burn,
         PT!Transfer, Pool!Transfer, PT!ReopenAccount, Pool!ReopenAccount, PT!TransferLp,
         Pool!TransferLp, PT!BurnLp, Pool!BurnLp, PT!Side, Pool!Side, PT!Accounts,
         Pool!Accounts, PT!LpAccounts, Pool!LpAccounts, PT!poolVars, Pool!poolVars,
         PT!lpVars, Pool!lpVars, PT!controlVars, Pool!controlVars, PT!tokenVars,
         Pool!tokenVars, PT!CanMove, Pool!CanMove, PT!Moved, Pool!Moved
<1> QED
  BY <1>1, <1>2 DEF PT!Next, Pool!Next

-----------------------------------------------------------------------------
(* The vaults exist exactly when the pool does.                            *)
VaultsOpen ==
    /\ (state_a[Vault] = "Closed") = ~pool_exists
    /\ (state_b[Vault] = "Closed") = ~pool_exists

LEMMA OnSides ==
    ASSUME NEW f, NEW g, NEW h
    PROVE  /\ BySide(f, g)["A"] = f /\ BySide(f, g)["B"] = g
           /\ BySide(h, g) = [BySide(f, g) EXCEPT !["A"] = h]
           /\ BySide(f, h) = [BySide(f, g) EXCEPT !["B"] = h]
  BY DEF BySide, Side

(* What the invariant of a stablecoin says of the state a pool depends on. *)
LEMMA TypesOfA ==
    ASSUME AT!IInv
    PROVE  /\ policy_a \in [Accounts -> {"Allowed", "Blocked", "None"}]
           /\ state_a \in [Accounts -> {"Closed", "Frozen", "Thawed"}]
           /\ balance_a \in [Accounts -> Nat]
           /\ mint_supply_a \in Nat /\ supply_cap_a \in Nat /\ supply_cap_a <= MAX_SUPPLY_CAP
           /\ paused_a \in BOOLEAN /\ mint_paused_a = paused_a
           /\ ~initialized_a => ~paused_a
  BY AssumptionOfA, AT!Types
     DEF AT!IInv, AT!PauseMirrored, AT!NothingBeforeMint, AT!Status

LEMMA TypesOfB ==
    ASSUME BT!IInv
    PROVE  /\ policy_b \in [Accounts -> {"Allowed", "Blocked", "None"}]
           /\ state_b \in [Accounts -> {"Closed", "Frozen", "Thawed"}]
           /\ balance_b \in [Accounts -> Nat]
           /\ mint_supply_b \in Nat /\ supply_cap_b \in Nat /\ supply_cap_b <= MAX_SUPPLY_CAP
           /\ paused_b \in BOOLEAN /\ mint_paused_b = paused_b
           /\ ~initialized_b => ~paused_b
  BY AssumptionOfB, BT!Types
     DEF BT!IInv, BT!PauseMirrored, BT!NothingBeforeMint, BT!Status

(* Every step of an issuer or an owner is a step of Amm's environment or   *)
(* nothing to the pool.                                                    *)
LEMMA EnvironmentOfA ==
    ASSUME AT!IInv, VaultsOpen, StepOfA
    PROVE  [Pool!Next]_(Pool!vars)
<1>1. /\ policy_a \in [Accounts -> {"Allowed", "Blocked", "None"}]
      /\ state_a \in [Accounts -> {"Closed", "Frozen", "Thawed"}]
      /\ balance_a \in [Accounts -> Nat]
      /\ mint_supply_a \in Nat /\ supply_cap_a \in Nat /\ supply_cap_a <= MAX_SUPPLY_CAP
      /\ paused_a \in BOOLEAN /\ mint_paused_a = paused_a
      /\ ~initialized_a => ~paused_a
  BY TypesOfA
<1>2. /\ UNCHANGED <<policy_b, state_b, balance_b, mint_supply_b, paused_b>>
      /\ UNCHANGED <<pool_exists, fee_bps, reserve, lp, lp_supply>>
      /\ (state_a'[Vault] = "Closed") = (state_a[Vault] = "Closed")
      /\ balance_a'[Vault] >= balance_a[Vault]
  BY DEF StepOfA, VaultLeftAlone, vars_b, poolVars, lpVars
<1>3. /\ Users \subseteq Accounts /\ Vault \in Accounts /\ Vault \notin Users
      /\ \A x \in Accounts : x # Vault => x \in Users
      /\ TransferAmounts \subseteq Nat /\ IssueAmounts["A"] \subseteq Nat
      /\ PolicyMoves["A"] \subseteq Accounts \X {"Allowed", "Blocked"}
      /\ PauseFlags["A"] \subseteq BOOLEAN
  BY SystemAssumption DEF Accounts, Side
<1>4. ASSUME UNCHANGED <<policy_a, frozen, balance_a, mint_supply_a, paused_a>>
      PROVE  UNCHANGED Pool!vars
  BY <1>2, <1>4 DEF Pool!vars, policy, balance, supply, paused, BySide
<1>5. ASSUME UNCHANGED state_a
      PROVE  UNCHANGED frozen
  BY <1>2, <1>5 DEF frozen, BySide
<1>6. ASSUME NEW signer \in Keys, NEW move \in PolicyMoves["A"],
             A!SetWalletPolicy(signer, move[1], move[2])
      PROVE  Pool!Next
  <2> DEFINE x == move[1]
             status == move[2]
  <2>1. x \in Accounts /\ status \in {"Allowed", "Blocked"}
    BY <1>3
  <2> HIDE DEF x, status
  <2>2. /\ state_a[x] # "Closed"
        /\ policy_a' = [policy_a EXCEPT ![x] = status]
        /\ UNCHANGED <<balance_a, mint_supply_a, paused_a>>
    BY <1>6 DEF A!SetWalletPolicy, A!CanSetWalletPolicy, A!configVars, A!mintVars, x, status
  <2>3. \A y \in Accounts : (state_a'[y] # "Thawed") = (IF y = x THEN status = "Blocked"
                                                               ELSE state_a[y] # "Thawed")
    BY <1>1, <1>6, <2>1, <2>2 DEF A!SetWalletPolicy, A!CanSetWalletPolicy, A!MustChange,
       A!TokenFreeze, A!TokenThaw, A!CanFreeze, A!CanThaw, x, status
  <2>4. frozen' = [frozen EXCEPT !["A"][x] = (status = "Blocked")]
    BY <1>2, <2>1, <2>3 DEF frozen, BySide, Side
  <2>5. policy' = [policy EXCEPT !["A"][x] = status]
    BY <1>2, <2>2 DEF policy, BySide, Side
  <2>6. x = Vault => pool_exists
    BY <2>2 DEF VaultsOpen
  <2>7. Pool!SetWalletPolicy("A", x, status)
    BY <1>2, <2>2, <2>4, <2>5, <2>6
       DEF Pool!SetWalletPolicy, Pool!poolVars, Pool!tokenVars, Pool!lpVars,
           balance, supply, paused, BySide
  <2> QED
    BY <2>7 DEF Pool!Next, Pool!OutsideStep, Pool!Side, x, status
<1>7. ASSUME NEW x \in Accounts, NEW n \in IssueAmounts["A"],
             \E minter \in Keys : A!MintTo(minter, x, n)
      PROVE  Pool!Next
  <2>1. /\ n > 0 /\ ~paused_a /\ policy_a[x] = "Allowed" /\ state_a[x] = "Thawed"
        /\ mint_supply_a + n <= supply_cap_a
        /\ balance_a' = [balance_a EXCEPT ![x] = @ + n]
        /\ mint_supply_a' = mint_supply_a + n
        /\ UNCHANGED <<policy_a, state_a, paused_a>>
    BY <1>7 DEF A!MintTo, A!TokenMint
  <2>2. /\ balance' = [balance EXCEPT !["A"][x] = @ + n]
        /\ supply' = [supply EXCEPT !["A"] = @ + n]
    BY <1>2, <2>1 DEF balance, supply, BySide, Side
  <2>3. ~paused["A"] /\ policy["A"][x] = "Allowed" /\ ~frozen["A"][x]
    BY <2>1 DEF paused, policy, frozen, BySide, Side
  <2>4. supply["A"] + n <= MAX_SUPPLY_CAP
    BY <1>1, <1>3, <2>1, MathAssumption DEF supply, BySide, Side
  <2>5. UNCHANGED <<frozen, policy, paused>>
    BY <1>2, <2>1 DEF frozen, policy, paused, BySide
  <2>6. Pool!MintTo("A", x, n)
    BY <1>2, <2>1, <2>2, <2>3, <2>4, <2>5
       DEF Pool!MintTo, Pool!poolVars, Pool!controlVars, Pool!lpVars
  <2> QED
    BY <2>6 DEF Pool!Next, Pool!OutsideStep, Pool!Side, Pool!Accounts, Accounts
<1>8. ASSUME NEW x \in Accounts, NEW n \in IssueAmounts["A"],
             A!Burn(x, n) \/ A!DirectBurn(x, n)
      PROVE  Pool!Next
  <2>1. /\ n > 0 /\ ~paused_a /\ state_a[x] = "Thawed"
        /\ balance_a[x] >= n /\ mint_supply_a >= n
        /\ balance_a' = [balance_a EXCEPT ![x] = @ - n]
        /\ mint_supply_a' = mint_supply_a - n
        /\ UNCHANGED <<policy_a, state_a, paused_a>>
    BY <1>1, <1>8 DEF A!Burn, A!DirectBurn, A!TokenBurn, A!configVars
  <2>2. x \in Users
    BY <1>1, <1>2, <1>3, <2>1
  <2>3. /\ balance' = [balance EXCEPT !["A"][x] = @ - n]
        /\ supply' = [supply EXCEPT !["A"] = @ - n]
    BY <1>2, <2>1 DEF balance, supply, BySide, Side
  <2>4. /\ ~paused["A"] /\ ~frozen["A"][x]
        /\ balance["A"][x] >= n /\ supply["A"] >= n
    BY <2>1 DEF paused, frozen, balance, supply, BySide, Side
  <2>5. UNCHANGED <<frozen, policy, paused>>
    BY <1>2, <2>1 DEF frozen, policy, paused, BySide
  <2>6. Pool!Burn("A", x, n)
    BY <1>2, <2>1, <2>3, <2>4, <2>5
       DEF Pool!Burn, Pool!poolVars, Pool!controlVars, Pool!lpVars
  <2> QED
    BY <2>2, <2>6 DEF Pool!Next, Pool!OutsideStep, Pool!Side
<1>9. ASSUME NEW signer \in Keys, NEW on \in PauseFlags["A"], A!SetPause(signer, on)
      PROVE  Pool!Next
  <2>1. /\ on \in BOOLEAN /\ paused_a' = on /\ paused_a # on
        /\ UNCHANGED <<policy_a, state_a, balance_a, mint_supply_a>>
    BY <1>1, <1>3, <1>9 DEF A!SetPause, A!CanSetPause, A!accountVars
  <2>2. paused_a' = ~paused_a
    BY <1>1, <2>1
  <2>3. paused' = [paused EXCEPT !["A"] = ~paused["A"]]
    BY <1>2, <2>2 DEF paused, BySide, Side
  <2>4. UNCHANGED <<frozen, policy, balance, supply>>
    BY <1>2, <2>1 DEF frozen, policy, balance, supply, BySide
  <2>5. Pool!SetPause("A")
    BY <1>2, <2>3, <2>4 DEF Pool!SetPause, Pool!poolVars, Pool!tokenVars, Pool!lpVars
  <2> QED
    BY <2>5 DEF Pool!Next, Pool!OutsideStep, Side
<1>10. ASSUME NEW x \in Accounts, A!CloseAccount(x)
       PROVE  Pool!Next
  <2>1. /\ state_a[x] # "Closed" /\ balance_a[x] = 0
        /\ state_a' = [state_a EXCEPT ![x] = "Closed"]
        /\ UNCHANGED <<policy_a, balance_a, mint_supply_a, paused_a>>
    BY <1>10 DEF A!CloseAccount, A!configVars, A!mintVars
  <2>2. x \in Users
    BY <1>1, <1>2, <1>3, <2>1
  <2>3. frozen' = [frozen EXCEPT !["A"][x] = TRUE]
    BY <1>1, <1>2, <2>1 DEF frozen, BySide, Side
  <2>4. balance["A"][x] = 0 /\ UNCHANGED <<policy, balance, supply, paused>>
    BY <1>2, <2>1 DEF policy, balance, supply, paused, BySide, Side
  <2>5. Pool!ReopenAccount("A", x)
    BY <1>2, <2>3, <2>4 DEF Pool!ReopenAccount, Pool!poolVars, Pool!tokenVars, Pool!lpVars
  <2> QED
    BY <2>2, <2>5 DEF Pool!Next, Pool!OutsideStep, Pool!Side
<1>11. ASSUME NEW x \in Accounts, NEW y \in Accounts, NEW n \in TransferAmounts,
              A!Transfer(x, y, n)
       PROVE  Pool!Next
  <2>1. /\ x # y /\ n > 0 /\ ~paused_a
        /\ state_a[x] = "Thawed" /\ state_a[y] = "Thawed" /\ balance_a[x] >= n
        /\ balance_a' = [balance_a EXCEPT ![x] = @ - n, ![y] = @ + n]
        /\ UNCHANGED <<policy_a, state_a, mint_supply_a, paused_a>>
    BY <1>1, <1>11 DEF A!Transfer, A!configVars, A!mintVars
  <2>2. x \in Users
    BY <1>1, <1>2, <1>3, <2>1
  <2>3. balance' = [balance EXCEPT !["A"] = Pool!Moved("A", x, y, n)]
    BY <1>2, <2>1 DEF balance, Pool!Moved, BySide, Side
  <2>4. Pool!CanMove("A", x, y, n)
    BY <2>1 DEF Pool!CanMove, paused, frozen, balance, BySide, Side
  <2>5. UNCHANGED <<frozen, policy, supply, paused>>
    BY <1>2, <2>1 DEF frozen, policy, supply, paused, BySide
  <2>6. Pool!Transfer("A", x, y, n)
    BY <1>2, <2>1, <2>3, <2>4, <2>5
       DEF Pool!Transfer, Pool!poolVars, Pool!controlVars, Pool!lpVars
  <2> QED
    BY <2>2, <2>6 DEF Pool!Next, Pool!OutsideStep, Pool!Side, Pool!Accounts, Accounts
<1>12. ASSUME NEW x \in Accounts, A!OpenAccount(x)
       PROVE  UNCHANGED Pool!vars
  <2>1. /\ state_a[x] = "Closed" /\ state_a' = [state_a EXCEPT ![x] = "Frozen"]
        /\ UNCHANGED <<policy_a, balance_a, mint_supply_a, paused_a>>
    BY <1>12 DEF A!OpenAccount, A!configVars, A!mintVars
  <2>2. \A y \in Accounts : (state_a'[y] # "Thawed") = (state_a[y] # "Thawed")
    BY <1>1, <2>1
  <2>3. UNCHANGED frozen
    BY <1>2, <2>2 DEF frozen, BySide
  <2> QED
    BY <1>4, <2>1, <2>3
<1>13. ASSUME \/ \E payer \in Keys, cap \in Caps["A"] : A!InitializeStablecoin(payer, cap)
              \/ \E signer \in Keys, authority \in Authorities, limit \in Allowances["A"] :
                     A!GrantMinter(signer, authority, limit)
              \/ \E signer \in Keys, authority \in Authorities : A!RevokeMinter(signer, authority)
              \/ \E signer \in Keys, cap \in Caps["A"] \cup {None},
                    authority, nominee \in Authorities \cup {None} :
                     A!UpdateConfig(signer, cap, authority, nominee)
              \/ \E signer \in Keys : A!AcceptAdmin(signer)
       PROVE  UNCHANGED Pool!vars
  <2>1. UNCHANGED <<policy_a, state_a, balance_a, mint_supply_a, paused_a>>
    BY <1>1, <1>13 DEF A!InitializeStablecoin, A!GrantMinter, A!RevokeMinter, A!UpdateConfig,
       A!CanUpdateConfig,
                       A!AcceptAdmin, A!configVars, A!mintVars, A!accountVars
  <2> QED
    BY <1>4, <1>5, <2>1
<1>14. A!Next
  BY DEF StepOfA
<1>15. CASE A!ProgramStep
  BY <1>6, <1>7, <1>8, <1>9, <1>13, <1>15 DEF A!ProgramStep
<1>16. CASE A!OwnerStep
  BY <1>8, <1>10, <1>11, <1>12, <1>16 DEF A!OwnerStep
<1> QED
  BY <1>14, <1>15, <1>16 DEF A!Next

LEMMA EnvironmentOfB ==
    ASSUME BT!IInv, VaultsOpen, StepOfB
    PROVE  [Pool!Next]_(Pool!vars)
<1>1. /\ policy_b \in [Accounts -> {"Allowed", "Blocked", "None"}]
      /\ state_b \in [Accounts -> {"Closed", "Frozen", "Thawed"}]
      /\ balance_b \in [Accounts -> Nat]
      /\ mint_supply_b \in Nat /\ supply_cap_b \in Nat /\ supply_cap_b <= MAX_SUPPLY_CAP
      /\ paused_b \in BOOLEAN /\ mint_paused_b = paused_b
      /\ ~initialized_b => ~paused_b
  BY TypesOfB
<1>2. /\ UNCHANGED <<policy_a, state_a, balance_a, mint_supply_a, paused_a>>
      /\ UNCHANGED <<pool_exists, fee_bps, reserve, lp, lp_supply>>
      /\ (state_b'[Vault] = "Closed") = (state_b[Vault] = "Closed")
      /\ balance_b'[Vault] >= balance_b[Vault]
  BY DEF StepOfB, VaultLeftAlone, vars_a, poolVars, lpVars
<1>3. /\ Users \subseteq Accounts /\ Vault \in Accounts /\ Vault \notin Users
      /\ \A x \in Accounts : x # Vault => x \in Users
      /\ TransferAmounts \subseteq Nat /\ IssueAmounts["B"] \subseteq Nat
      /\ PolicyMoves["B"] \subseteq Accounts \X {"Allowed", "Blocked"}
      /\ PauseFlags["B"] \subseteq BOOLEAN
  BY SystemAssumption DEF Accounts, Side
<1>4. ASSUME UNCHANGED <<policy_b, frozen, balance_b, mint_supply_b, paused_b>>
      PROVE  UNCHANGED Pool!vars
  BY <1>2, <1>4 DEF Pool!vars, policy, balance, supply, paused, BySide
<1>5. ASSUME UNCHANGED state_b
      PROVE  UNCHANGED frozen
  BY <1>2, <1>5 DEF frozen, BySide
<1>6. ASSUME NEW signer \in Keys, NEW move \in PolicyMoves["B"],
             B!SetWalletPolicy(signer, move[1], move[2])
      PROVE  Pool!Next
  <2> DEFINE x == move[1]
             status == move[2]
  <2>1. x \in Accounts /\ status \in {"Allowed", "Blocked"}
    BY <1>3
  <2> HIDE DEF x, status
  <2>2. /\ state_b[x] # "Closed"
        /\ policy_b' = [policy_b EXCEPT ![x] = status]
        /\ UNCHANGED <<balance_b, mint_supply_b, paused_b>>
    BY <1>6 DEF B!SetWalletPolicy, B!CanSetWalletPolicy, B!configVars, B!mintVars, x, status
  <2>3. \A y \in Accounts : (state_b'[y] # "Thawed") = (IF y = x THEN status = "Blocked"
                                                               ELSE state_b[y] # "Thawed")
    BY <1>1, <1>6, <2>1, <2>2 DEF B!SetWalletPolicy, B!CanSetWalletPolicy, B!MustChange,
       B!TokenFreeze, B!TokenThaw, B!CanFreeze, B!CanThaw, x, status
  <2>4. frozen' = [frozen EXCEPT !["B"][x] = (status = "Blocked")]
    BY <1>2, <2>1, <2>3 DEF frozen, BySide, Side
  <2>5. policy' = [policy EXCEPT !["B"][x] = status]
    BY <1>2, <2>2 DEF policy, BySide, Side
  <2>6. x = Vault => pool_exists
    BY <2>2 DEF VaultsOpen
  <2>7. Pool!SetWalletPolicy("B", x, status)
    BY <1>2, <2>2, <2>4, <2>5, <2>6
       DEF Pool!SetWalletPolicy, Pool!poolVars, Pool!tokenVars, Pool!lpVars,
           balance, supply, paused, BySide
  <2> QED
    BY <2>7 DEF Pool!Next, Pool!OutsideStep, Pool!Side, x, status
<1>7. ASSUME NEW x \in Accounts, NEW n \in IssueAmounts["B"],
             \E minter \in Keys : B!MintTo(minter, x, n)
      PROVE  Pool!Next
  <2>1. /\ n > 0 /\ ~paused_b /\ policy_b[x] = "Allowed" /\ state_b[x] = "Thawed"
        /\ mint_supply_b + n <= supply_cap_b
        /\ balance_b' = [balance_b EXCEPT ![x] = @ + n]
        /\ mint_supply_b' = mint_supply_b + n
        /\ UNCHANGED <<policy_b, state_b, paused_b>>
    BY <1>7 DEF B!MintTo, B!TokenMint
  <2>2. /\ balance' = [balance EXCEPT !["B"][x] = @ + n]
        /\ supply' = [supply EXCEPT !["B"] = @ + n]
    BY <1>2, <2>1 DEF balance, supply, BySide, Side
  <2>3. ~paused["B"] /\ policy["B"][x] = "Allowed" /\ ~frozen["B"][x]
    BY <2>1 DEF paused, policy, frozen, BySide, Side
  <2>4. supply["B"] + n <= MAX_SUPPLY_CAP
    BY <1>1, <1>3, <2>1, MathAssumption DEF supply, BySide, Side
  <2>5. UNCHANGED <<frozen, policy, paused>>
    BY <1>2, <2>1 DEF frozen, policy, paused, BySide
  <2>6. Pool!MintTo("B", x, n)
    BY <1>2, <2>1, <2>2, <2>3, <2>4, <2>5
       DEF Pool!MintTo, Pool!poolVars, Pool!controlVars, Pool!lpVars
  <2> QED
    BY <2>6 DEF Pool!Next, Pool!OutsideStep, Pool!Side, Pool!Accounts, Accounts
<1>8. ASSUME NEW x \in Accounts, NEW n \in IssueAmounts["B"],
             B!Burn(x, n) \/ B!DirectBurn(x, n)
      PROVE  Pool!Next
  <2>1. /\ n > 0 /\ ~paused_b /\ state_b[x] = "Thawed"
        /\ balance_b[x] >= n /\ mint_supply_b >= n
        /\ balance_b' = [balance_b EXCEPT ![x] = @ - n]
        /\ mint_supply_b' = mint_supply_b - n
        /\ UNCHANGED <<policy_b, state_b, paused_b>>
    BY <1>1, <1>8 DEF B!Burn, B!DirectBurn, B!TokenBurn, B!configVars
  <2>2. x \in Users
    BY <1>1, <1>2, <1>3, <2>1
  <2>3. /\ balance' = [balance EXCEPT !["B"][x] = @ - n]
        /\ supply' = [supply EXCEPT !["B"] = @ - n]
    BY <1>2, <2>1 DEF balance, supply, BySide, Side
  <2>4. /\ ~paused["B"] /\ ~frozen["B"][x]
        /\ balance["B"][x] >= n /\ supply["B"] >= n
    BY <2>1 DEF paused, frozen, balance, supply, BySide, Side
  <2>5. UNCHANGED <<frozen, policy, paused>>
    BY <1>2, <2>1 DEF frozen, policy, paused, BySide
  <2>6. Pool!Burn("B", x, n)
    BY <1>2, <2>1, <2>3, <2>4, <2>5
       DEF Pool!Burn, Pool!poolVars, Pool!controlVars, Pool!lpVars
  <2> QED
    BY <2>2, <2>6 DEF Pool!Next, Pool!OutsideStep, Pool!Side
<1>9. ASSUME NEW signer \in Keys, NEW on \in PauseFlags["B"], B!SetPause(signer, on)
      PROVE  Pool!Next
  <2>1. /\ on \in BOOLEAN /\ paused_b' = on /\ paused_b # on
        /\ UNCHANGED <<policy_b, state_b, balance_b, mint_supply_b>>
    BY <1>1, <1>3, <1>9 DEF B!SetPause, B!CanSetPause, B!accountVars
  <2>2. paused_b' = ~paused_b
    BY <1>1, <2>1
  <2>3. paused' = [paused EXCEPT !["B"] = ~paused["B"]]
    BY <1>2, <2>2 DEF paused, BySide, Side
  <2>4. UNCHANGED <<frozen, policy, balance, supply>>
    BY <1>2, <2>1 DEF frozen, policy, balance, supply, BySide
  <2>5. Pool!SetPause("B")
    BY <1>2, <2>3, <2>4 DEF Pool!SetPause, Pool!poolVars, Pool!tokenVars, Pool!lpVars
  <2> QED
    BY <2>5 DEF Pool!Next, Pool!OutsideStep, Side
<1>10. ASSUME NEW x \in Accounts, B!CloseAccount(x)
       PROVE  Pool!Next
  <2>1. /\ state_b[x] # "Closed" /\ balance_b[x] = 0
        /\ state_b' = [state_b EXCEPT ![x] = "Closed"]
        /\ UNCHANGED <<policy_b, balance_b, mint_supply_b, paused_b>>
    BY <1>10 DEF B!CloseAccount, B!configVars, B!mintVars
  <2>2. x \in Users
    BY <1>1, <1>2, <1>3, <2>1
  <2>3. frozen' = [frozen EXCEPT !["B"][x] = TRUE]
    BY <1>1, <1>2, <2>1 DEF frozen, BySide, Side
  <2>4. balance["B"][x] = 0 /\ UNCHANGED <<policy, balance, supply, paused>>
    BY <1>2, <2>1 DEF policy, balance, supply, paused, BySide, Side
  <2>5. Pool!ReopenAccount("B", x)
    BY <1>2, <2>3, <2>4 DEF Pool!ReopenAccount, Pool!poolVars, Pool!tokenVars, Pool!lpVars
  <2> QED
    BY <2>2, <2>5 DEF Pool!Next, Pool!OutsideStep, Pool!Side
<1>11. ASSUME NEW x \in Accounts, NEW y \in Accounts, NEW n \in TransferAmounts,
              B!Transfer(x, y, n)
       PROVE  Pool!Next
  <2>1. /\ x # y /\ n > 0 /\ ~paused_b
        /\ state_b[x] = "Thawed" /\ state_b[y] = "Thawed" /\ balance_b[x] >= n
        /\ balance_b' = [balance_b EXCEPT ![x] = @ - n, ![y] = @ + n]
        /\ UNCHANGED <<policy_b, state_b, mint_supply_b, paused_b>>
    BY <1>1, <1>11 DEF B!Transfer, B!configVars, B!mintVars
  <2>2. x \in Users
    BY <1>1, <1>2, <1>3, <2>1
  <2>3. balance' = [balance EXCEPT !["B"] = Pool!Moved("B", x, y, n)]
    BY <1>2, <2>1 DEF balance, Pool!Moved, BySide, Side
  <2>4. Pool!CanMove("B", x, y, n)
    BY <2>1 DEF Pool!CanMove, paused, frozen, balance, BySide, Side
  <2>5. UNCHANGED <<frozen, policy, supply, paused>>
    BY <1>2, <2>1 DEF frozen, policy, supply, paused, BySide
  <2>6. Pool!Transfer("B", x, y, n)
    BY <1>2, <2>1, <2>3, <2>4, <2>5
       DEF Pool!Transfer, Pool!poolVars, Pool!controlVars, Pool!lpVars
  <2> QED
    BY <2>2, <2>6 DEF Pool!Next, Pool!OutsideStep, Pool!Side, Pool!Accounts, Accounts
<1>12. ASSUME NEW x \in Accounts, B!OpenAccount(x)
       PROVE  UNCHANGED Pool!vars
  <2>1. /\ state_b[x] = "Closed" /\ state_b' = [state_b EXCEPT ![x] = "Frozen"]
        /\ UNCHANGED <<policy_b, balance_b, mint_supply_b, paused_b>>
    BY <1>12 DEF B!OpenAccount, B!configVars, B!mintVars
  <2>2. \A y \in Accounts : (state_b'[y] # "Thawed") = (state_b[y] # "Thawed")
    BY <1>1, <2>1
  <2>3. UNCHANGED frozen
    BY <1>2, <2>2 DEF frozen, BySide
  <2> QED
    BY <1>4, <2>1, <2>3
<1>13. ASSUME \/ \E payer \in Keys, cap \in Caps["B"] : B!InitializeStablecoin(payer, cap)
              \/ \E signer \in Keys, authority \in Authorities, limit \in Allowances["B"] :
                     B!GrantMinter(signer, authority, limit)
              \/ \E signer \in Keys, authority \in Authorities : B!RevokeMinter(signer, authority)
              \/ \E signer \in Keys, cap \in Caps["B"] \cup {None},
                    authority, nominee \in Authorities \cup {None} :
                     B!UpdateConfig(signer, cap, authority, nominee)
              \/ \E signer \in Keys : B!AcceptAdmin(signer)
       PROVE  UNCHANGED Pool!vars
  <2>1. UNCHANGED <<policy_b, state_b, balance_b, mint_supply_b, paused_b>>
    BY <1>1, <1>13 DEF B!InitializeStablecoin, B!GrantMinter, B!RevokeMinter, B!UpdateConfig,
       B!CanUpdateConfig,
                       B!AcceptAdmin, B!configVars, B!mintVars, B!accountVars
  <2> QED
    BY <1>4, <1>5, <2>1
<1>14. B!Next
  BY DEF StepOfB
<1>15. CASE B!ProgramStep
  BY <1>6, <1>7, <1>8, <1>9, <1>13, <1>15 DEF B!ProgramStep
<1>16. CASE B!OwnerStep
  BY <1>8, <1>10, <1>11, <1>12, <1>16 DEF B!OwnerStep
<1> QED
  BY <1>14, <1>15, <1>16 DEF B!Next

-----------------------------------------------------------------------------
(* The amounts the pool moves are amounts anybody may transfer.            *)

Movable(n) == n \in Nat /\ (n > 0 => n \in TransferAmounts)

LEMMA MovableWithinCap ==
    ASSUME NEW n \in Nat, n <= MAX_SUPPLY_CAP
    PROVE  Movable(n)
  BY SystemAssumption, MathAssumption DEF Movable

LEMMA AssumptionOfPool == PT!AmmAssumption /\ PT!MathAssumption
<1>1. PT!IsFiniteSet({}) /\ PT!Cardinality({}) = 0
  <2>1. PT!IsFiniteSet({}) <=> IsFiniteSet({})
    BY DEF PT!IsFiniteSet, IsFiniteSet
  <2>2. PT!Cardinality({}) = Cardinality({})
    BY DEF PT!Cardinality, Cardinality
  <2> QED
    BY <2>1, <2>2, FS_EmptySet
<1>2. IssueAmounts["A"] \cup IssueAmounts["B"] \subseteq Nat
  BY SystemAssumption DEF Side
<1>3. PolicyMoves["A"] \cup PolicyMoves["B"]
        \subseteq (Users \cup {Vault}) \X {"Allowed", "Blocked"}
  BY SystemAssumption DEF Side, Accounts
<1>4. 0 * PT!Cardinality({}) <= MAX_SUPPLY_CAP /\ MAX_SUPPLY_CAP \in 0 .. MAX_SUPPLY_CAP
  BY <1>1, MathAssumption
<1>5. {} \subseteq Users /\ Side \subseteq PT!Side
  BY DEF Side, PT!Side
<1>6. PT!AmmAssumption
  <2>1. /\ Vault \notin Users /\ Locked \notin Users
        /\ Amounts \subseteq Nat /\ LpAmounts \subseteq Nat
        /\ Minimums \subseteq Nat /\ Fees \subseteq Nat
        /\ TransferAmounts \subseteq Nat
    BY SystemAssumption
  <2> QED
    BY <1>1, <1>2, <1>3, <1>4, <1>5, <2>1 DEF PT!AmmAssumption, PT!Status
<1>7. PT!MathAssumption
  BY MathAssumption DEF PT!MathAssumption
<1> QED
  BY <1>6, <1>7

LEMMA ReservesInRange ==
    ASSUME PT!TypeOK
    PROVE  /\ \A s \in Side : reserve[s] \in Nat /\ reserve[s] <= MAX_SUPPLY_CAP
           /\ reserve \in [Side -> Nat]
  BY MathAssumption DEF PT!TypeOK, PT!Side, Side

LEMMA DepositIsMovable ==
    ASSUME PT!TypeOK, NEW a \in Nat, NEW b \in Nat, Pool!DepositQuoted(a, b)
    PROVE  \A s \in Side : Movable(Pool!DepositOf(a, b)[s])
<1>1. PT!DepositQuoted(a, b) /\ Pool!DepositOf(a, b) = PT!DepositOf(a, b)
  BY DepositOfPool
<1>2. /\ PT!DepositOf(a, b) \in [Side -> Nat \ {0}]
      /\ PT!ReserveAfterDeposit(a, b) \in [Side -> 0 .. MAX_SUPPLY_CAP]
  BY <1>1, PT!DepositAmounts, AssumptionOfPool DEF PT!Side, Side
<1>3. \A s \in Side : PT!ReserveAfterDeposit(a, b)[s] = reserve[s] + PT!DepositOf(a, b)[s]
  BY DEF PT!ReserveAfterDeposit, PT!Side, Side
<1>4. ASSUME NEW s \in Side
      PROVE  PT!DepositOf(a, b)[s] \in Nat /\ PT!DepositOf(a, b)[s] <= MAX_SUPPLY_CAP
  <2>1. reserve[s] \in Nat
    BY ReservesInRange
  <2> QED
    BY <1>2, <1>3, <2>1, MathAssumption
<1> QED
  BY <1>1, <1>4, MovableWithinCap

LEMMA PayoutIsMovable ==
    ASSUME PT!TypeOK, NEW n \in Nat,
           Pool!QuoteRemoveLiquidity(n, reserve["A"], reserve["B"], lp_supply) = "Ok"
    PROVE  \A s \in Side : Movable(Pool!PayoutOf(n)[s])
<1>1. /\ PT!QuoteRemoveLiquidity(n, reserve["A"], reserve["B"], lp_supply) = "Ok"
      /\ Pool!PayoutOf(n) = PT!PayoutOf(n)
  BY PayoutOfPool
<1>2. \A s \in Side : PT!PayoutOf(n)[s] \in Nat /\ PT!PayoutOf(n)[s] <= reserve[s]
  BY <1>1, PT!PayoutAmounts, AssumptionOfPool DEF PT!Side, Side
<1>3. \A s \in Side : PT!PayoutOf(n)[s] <= MAX_SUPPLY_CAP
  BY <1>2, ReservesInRange, MathAssumption
<1> QED
  BY <1>1, <1>2, <1>3, MovableWithinCap

LEMMA SwapIsMovable ==
    ASSUME PT!TypeOK, NEW In \in Side, NEW n \in Nat,
           Pool!QuoteSwap(n, reserve[In], reserve[Pool!Other(In)], fee_bps) = "Ok"
    PROVE  Movable(n) /\ Movable(Pool!SwapOut(In, n))
<1>1. /\ PT!QuoteSwap(n, reserve[In], reserve[PT!Other(In)], fee_bps) = "Ok"
      /\ Pool!SwapOut(In, n) = PT!SwapOut(In, n)
  BY SwapOfPool
<1>2. /\ PT!SwapOut(In, n) \in Nat /\ PT!SwapOut(In, n) <= reserve[PT!Other(In)]
      /\ reserve[In] + n <= MAX_SUPPLY_CAP
  BY <1>1, PT!SwapAmounts, AssumptionOfPool DEF PT!Side, Side
<1>3. PT!Other(In) \in Side
  BY DEF PT!Other, Side
<1>4. n <= MAX_SUPPLY_CAP /\ PT!SwapOut(In, n) <= MAX_SUPPLY_CAP
  BY <1>2, <1>3, ReservesInRange, MathAssumption
<1> QED
  BY <1>1, <1>2, <1>4, MovableWithinCap

-----------------------------------------------------------------------------
(* The invariant of the system: those of its three parts, and the vaults.  *)
Inv == AT!IInv /\ BT!IInv /\ PT!IInv /\ VaultsOpen

(* What a step of the system is to each of its parts.                      *)
Refines ==
    /\ [A!Next]_(A!vars)
    /\ [B!Next]_(B!vars)
    /\ [Pool!Next]_(Pool!vars)
    /\ VaultsOpen'

LEMMA InitOfPool ==
    ASSUME Init
    PROVE  Pool!Init /\ PT!Init /\ VaultsOpen
<1>1. /\ policy_a = [x \in Accounts |-> "None"] /\ policy_b = [x \in Accounts |-> "None"]
      /\ balance_a = [x \in Accounts |-> 0] /\ balance_b = [x \in Accounts |-> 0]
      /\ state_a = [x \in Accounts |-> "Closed"] /\ state_b = [x \in Accounts |-> "Closed"]
      /\ mint_supply_a = 0 /\ mint_supply_b = 0 /\ paused_a = FALSE /\ paused_b = FALSE
  BY DEF Init, A!Init, B!Init
<1>2. /\ pool_exists = FALSE /\ fee_bps = 0 /\ reserve = [s \in Side |-> 0]
      /\ lp = [x \in Users \cup {Locked} |-> 0] /\ lp_supply = 0
  BY DEF Init
<1>3. /\ policy = [s \in Side |-> [x \in Accounts |-> "None"]]
      /\ balance = [s \in Side |-> [x \in Accounts |-> 0]]
      /\ frozen = [s \in Side |-> [x \in Accounts |-> TRUE]]
      /\ supply = [s \in Side |-> 0]
      /\ paused = [s \in Side |-> FALSE]
  BY <1>1 DEF policy, balance, frozen, supply, paused, BySide
<1>4. 0 * Cardinality({}) = 0 /\ Pool!Cardinality({}) = Cardinality({})
      /\ PT!Cardinality({}) = Cardinality({})
  <2>1. Pool!Cardinality({}) = Cardinality({}) /\ PT!Cardinality({}) = Cardinality({})
    BY DEF Pool!Cardinality, PT!Cardinality, Cardinality
  <2> QED
    BY <2>1, FS_EmptySet
<1>5. Pool!Init
  BY <1>2, <1>3, <1>4 DEF Pool!Init, Pool!Side, Side, Pool!Accounts, Accounts, Pool!LpAccounts
<1>6. PT!Init
  BY <1>2, <1>3, <1>4 DEF PT!Init, PT!Side, Side, PT!Accounts, Accounts, PT!LpAccounts
<1>7. VaultsOpen
  BY <1>1, <1>2 DEF VaultsOpen, Accounts
<1> QED
  BY <1>5, <1>6, <1>7

LEMMA InitializePoolRefines ==
    ASSUME Inv, NEW fee \in Fees, InitializePool(fee)
    PROVE  Refines
<1>1. /\ ~pool_exists /\ fee <= MAX_FEE_BPS
      /\ pool_exists' = TRUE /\ fee_bps' = fee /\ reserve' = [s \in Side |-> 0]
      /\ UNCHANGED <<lp, lp_supply>>
      /\ A!OpenAccount(Vault) /\ B!OpenAccount(Vault)
  BY DEF InitializePool, lpVars
<1>2. /\ state_a[Vault] = "Closed" /\ state_a' = [state_a EXCEPT ![Vault] = "Frozen"]
      /\ state_b[Vault] = "Closed" /\ state_b' = [state_b EXCEPT ![Vault] = "Frozen"]
      /\ UNCHANGED <<policy_a, balance_a, mint_supply_a, paused_a>>
      /\ UNCHANGED <<policy_b, balance_b, mint_supply_b, paused_b>>
  BY <1>1 DEF A!OpenAccount, A!configVars, A!mintVars, B!OpenAccount, B!configVars, B!mintVars
<1>3. /\ state_a \in [Accounts -> {"Closed", "Frozen", "Thawed"}]
      /\ state_b \in [Accounts -> {"Closed", "Frozen", "Thawed"}]
  BY TypesOfA, TypesOfB DEF Inv
<1>4. Vault \in Accounts
  BY DEF Accounts
<1>5. /\ \A x \in Accounts : (state_a'[x] # "Thawed") = (state_a[x] # "Thawed")
      /\ \A x \in Accounts : (state_b'[x] # "Thawed") = (state_b[x] # "Thawed")
  BY <1>2, <1>3
<1>6. UNCHANGED <<frozen, policy, balance, supply, paused>>
  BY <1>2, <1>5 DEF frozen, policy, balance, supply, paused, BySide
<1>7. Pool!InitializePool(fee)
  BY <1>1, <1>6 DEF Pool!InitializePool, Pool!tokenVars, Pool!lpVars, Pool!controlVars,
                    Pool!Side, Side
<1>8. Pool!Next
  BY <1>7 DEF Pool!Next, Pool!PoolStep
<1>9. A!Next /\ B!Next
  BY <1>1, <1>4 DEF A!Next, A!OwnerStep, B!Next, B!OwnerStep
<1>10. VaultsOpen'
  BY <1>1, <1>2, <1>3, <1>4 DEF VaultsOpen
<1> QED
  BY <1>8, <1>9, <1>10 DEF Refines

(* Two transfers, one on each side, are a step of each stablecoin, and     *)
(* change nothing of it but two balances.                                  *)
LEMMA TwoTransfers ==
    ASSUME Inv, UNCHANGED pool_exists,
           NEW x \in Accounts, NEW y \in Accounts, NEW n \in Nat, Movable(n), A!Transfer(x, y, n),
           NEW v \in Accounts, NEW w \in Accounts, NEW m \in Nat, Movable(m), B!Transfer(v, w, m)
    PROVE  /\ A!Next /\ B!Next /\ VaultsOpen'
           /\ UNCHANGED <<policy, frozen, supply, paused>>
           /\ balance' = BySide(Pool!Moved("A", x, y, n), Pool!Moved("B", v, w, m))
           /\ Pool!CanMove("A", x, y, n) /\ Pool!CanMove("B", v, w, m)
<1>1. /\ x # y /\ n > 0 /\ ~mint_paused_a
      /\ state_a[x] = "Thawed" /\ state_a[y] = "Thawed" /\ balance_a[x] >= n
      /\ balance_a' = [balance_a EXCEPT ![x] = @ - n, ![y] = @ + n]
      /\ UNCHANGED <<policy_a, state_a, mint_supply_a, paused_a>>
  BY DEF A!Transfer, A!configVars, A!mintVars
<1>2. /\ v # w /\ m > 0 /\ ~mint_paused_b
      /\ state_b[v] = "Thawed" /\ state_b[w] = "Thawed" /\ balance_b[v] >= m
      /\ balance_b' = [balance_b EXCEPT ![v] = @ - m, ![w] = @ + m]
      /\ UNCHANGED <<policy_b, state_b, mint_supply_b, paused_b>>
  BY DEF B!Transfer, B!configVars, B!mintVars
<1>3. mint_paused_a = paused_a /\ mint_paused_b = paused_b
  BY TypesOfA, TypesOfB DEF Inv
<1>4. n \in TransferAmounts /\ m \in TransferAmounts
  BY <1>1, <1>2 DEF Movable
<1>5. A!Next /\ B!Next
  BY <1>4 DEF A!Next, A!OwnerStep, B!Next, B!OwnerStep
<1>6. VaultsOpen'
  BY <1>1, <1>2 DEF Inv, VaultsOpen
<1>7. UNCHANGED <<policy, frozen, supply, paused>>
  BY <1>1, <1>2 DEF policy, frozen, supply, paused, BySide
<1>8. balance' = BySide(Pool!Moved("A", x, y, n), Pool!Moved("B", v, w, m))
  BY <1>1, <1>2 DEF balance, Pool!Moved, BySide, Side
<1>9. Pool!CanMove("A", x, y, n) /\ Pool!CanMove("B", v, w, m)
  BY <1>1, <1>2, <1>3 DEF Pool!CanMove, balance, frozen, paused, BySide, Side
<1> QED
  BY <1>5, <1>6, <1>7, <1>8, <1>9

LEMMA AddLiquidityRefines ==
    ASSUME Inv, NEW u \in Users, NEW a \in Amounts, NEW b \in Amounts,
           NEW a_min \in Minimums, NEW b_min \in Minimums, NEW min_lp_out \in Minimums,
           AddLiquidity(u, a, b, a_min, b_min, min_lp_out)
    PROVE  Refines
<1> DEFINE amount == Pool!DepositOf(a, b)
<1>1. /\ Pool!AcceptsDeposit(u, a, b, a_min, b_min, min_lp_out)
      /\ A!Transfer(u, Vault, amount["A"]) /\ B!Transfer(u, Vault, amount["B"])
      /\ lp' = [lp EXCEPT ![Locked] = @ + Pool!LpToLock, ![u] = @ + Pool!LpToUser(a, b)]
      /\ lp_supply' = Pool!SupplyAfterDeposit(a, b)
      /\ reserve' = [s \in Side |-> reserve[s] + amount[s]]
      /\ lp_supply' = Pool!ExpectedLpSupply(a, b)
      /\ Pool!EnsureSolvent(reserve', balance')
      /\ Pool!EnsureSeeded(reserve', Pool!ExpectedLpSupply(a, b), lp'[Locked])
      /\ UNCHANGED <<pool_exists, fee_bps>>
  BY DEF AddLiquidity
<1>2. a \in Nat /\ b \in Nat /\ u \in Accounts /\ Vault \in Accounts
  BY SystemAssumption DEF Accounts
<1>3. Pool!DepositQuoted(a, b)
  BY <1>1 DEF Pool!AcceptsDeposit
<1>4. /\ amount["A"] \in Nat /\ Movable(amount["A"])
      /\ amount["B"] \in Nat /\ Movable(amount["B"])
  BY <1>2, <1>3, DepositIsMovable DEF Inv, PT!IInv, Side, Movable
<1> HIDE DEF amount
<1>5. /\ A!Next /\ B!Next /\ VaultsOpen'
      /\ UNCHANGED <<policy, frozen, supply, paused>>
      /\ balance' = BySide(Pool!Moved("A", u, Vault, amount["A"]), Pool!Moved("B", u, Vault, amount["B"]))
      /\ Pool!CanMove("A", u, Vault, amount["A"]) /\ Pool!CanMove("B", u, Vault, amount["B"])
  BY <1>1, <1>2, <1>4, TwoTransfers
<1>6. balance' = [s \in Pool!Side |-> Pool!Moved(s, u, Vault, amount[s])]
  BY <1>5 DEF BySide, Pool!Side, Side
<1>7. \A s \in Pool!Side : Pool!CanMove(s, u, Vault, amount[s])
  BY <1>5 DEF Pool!Side
<1>8. reserve' = Pool!ReserveAfterDeposit(a, b)
  BY <1>1 DEF Pool!ReserveAfterDeposit, amount, Pool!Side, Side
<1>9. Pool!AddLiquidity(u, a, b, a_min, b_min, min_lp_out)
  <2>1. /\ balance' = Pool!BalanceAfterDeposit(u, a, b)
        /\ lp' = Pool!LpAfterDeposit(u, a, b) /\ lp_supply' = Pool!SupplyAfterDeposit(a, b)
    BY <1>1, <1>6 DEF Pool!BalanceAfterDeposit, Pool!LpAfterDeposit, amount
  <2>2. Pool!DepositRechecks(u, a, b)
    BY <1>1, <1>8, <2>1 DEF Pool!DepositRechecks
  <2>3. Pool!CanAddLiquidity(u, a, b, a_min, b_min, min_lp_out)
    BY <1>1, <1>7 DEF Pool!CanAddLiquidity, amount
  <2> QED
    BY <1>1, <1>5, <1>8, <2>1, <2>2, <2>3 DEF Pool!AddLiquidity, Pool!controlVars
<1>10. Pool!Next
  BY <1>9 DEF Pool!Next, Pool!PoolStep
<1> QED
  BY <1>5, <1>10 DEF Refines

LEMMA RemoveLiquidityRefines ==
    ASSUME Inv, NEW u \in Users, NEW n \in LpAmounts,
           NEW min_a_out \in Minimums, NEW min_b_out \in Minimums,
           RemoveLiquidity(u, n, min_a_out, min_b_out)
    PROVE  Refines
<1> DEFINE paid == Pool!PayoutOf(n)
<1>1. /\ Pool!AcceptsWithdrawal(u, n, min_a_out, min_b_out)
      /\ lp[u] >= n
      /\ lp' = [lp EXCEPT ![u] = @ - n]
      /\ lp_supply' = Pool!SupplyAfterWithdrawal(n) /\ lp_supply' = Pool!NewLpSupply(n)
      /\ A!Transfer(Vault, u, paid["A"]) /\ B!Transfer(Vault, u, paid["B"])
      /\ reserve' = [s \in Side |-> reserve[s] - paid[s]]
      /\ Pool!EnsureSolvent(reserve', balance')
      /\ Pool!EnsureSeeded(reserve', Pool!NewLpSupply(n), lp'[Locked])
      /\ UNCHANGED <<pool_exists, fee_bps>>
  BY DEF RemoveLiquidity
<1>2. n \in Nat /\ u \in Accounts /\ Vault \in Accounts /\ u # Locked
  BY SystemAssumption DEF Accounts
<1>3. Pool!QuoteRemoveLiquidity(n, reserve["A"], reserve["B"], lp_supply) = "Ok"
  BY <1>1 DEF Pool!AcceptsWithdrawal
<1>4. /\ paid["A"] \in Nat /\ Movable(paid["A"])
      /\ paid["B"] \in Nat /\ Movable(paid["B"])
  BY <1>2, <1>3, PayoutIsMovable DEF Inv, PT!IInv, Side, Movable
<1> HIDE DEF paid
<1>5. /\ A!Next /\ B!Next /\ VaultsOpen'
      /\ UNCHANGED <<policy, frozen, supply, paused>>
      /\ balance' = BySide(Pool!Moved("A", Vault, u, paid["A"]), Pool!Moved("B", Vault, u, paid["B"]))
      /\ Pool!CanMove("A", Vault, u, paid["A"]) /\ Pool!CanMove("B", Vault, u, paid["B"])
  BY <1>1, <1>2, <1>4, TwoTransfers
<1>6. balance' = [s \in Pool!Side |-> Pool!Moved(s, Vault, u, paid[s])]
  BY <1>5 DEF BySide, Pool!Side, Side
<1>7. \A s \in Pool!Side : Pool!CanMove(s, Vault, u, paid[s])
  BY <1>5 DEF Pool!Side
<1>8. lp'[Locked] = lp[Locked]
  <2>1. lp \in [PT!LpAccounts -> Nat] /\ Locked \in PT!LpAccounts
    BY DEF Inv, PT!IInv, PT!TypeOK, PT!LpAccounts
  <2> QED
    BY <1>1, <1>2, <2>1
<1>9. Pool!RemoveLiquidity(u, n, min_a_out, min_b_out)
  <2>1. /\ balance' = Pool!BalanceAfterWithdrawal(u, n)
        /\ reserve' = Pool!ReserveAfterWithdrawal(n)
    BY <1>1, <1>6 DEF Pool!BalanceAfterWithdrawal, Pool!ReserveAfterWithdrawal, paid,
                      Pool!Side, Side
  <2>2. Pool!WithdrawalRechecks(u, n)
    BY <1>1, <1>8, <2>1 DEF Pool!WithdrawalRechecks
  <2>3. Pool!CanRemoveLiquidity(u, n, min_a_out, min_b_out)
    BY <1>1, <1>7 DEF Pool!CanRemoveLiquidity, paid
  <2> QED
    BY <1>1, <1>5, <2>1, <2>2, <2>3 DEF Pool!RemoveLiquidity, Pool!controlVars
<1>10. Pool!Next
  BY <1>9 DEF Pool!Next, Pool!PoolStep
<1> QED
  BY <1>5, <1>10 DEF Refines

LEMMA SwapAtoBRefines ==
    ASSUME Inv, NEW u \in Users, NEW n \in Amounts, NEW min_amount_out \in Minimums,
           SwapAtoB(u, n, min_amount_out)
    PROVE  Refines
<1> DEFINE out == Pool!SwapOut("A", n)
<1>1. /\ Pool!AcceptsSwap(u, "A", n, min_amount_out)
      /\ A!Transfer(u, Vault, n) /\ B!Transfer(Vault, u, out)
      /\ reserve' = BySide(reserve["A"] + n, reserve["B"] - out)
      /\ reserve'["A"] * reserve'["B"] >= reserve["A"] * reserve["B"]
      /\ Pool!EnsureSolvent(reserve', balance')
      /\ UNCHANGED <<pool_exists, fee_bps, lp, lp_supply>>
  BY DEF SwapAtoB, lpVars
<1>2. n \in Nat /\ u \in Accounts /\ Vault \in Accounts /\ "A" \in Side
  BY SystemAssumption DEF Accounts, Side
<1>3. Pool!QuoteSwap(n, reserve["A"], reserve[Pool!Other("A")], fee_bps) = "Ok"
  BY <1>1 DEF Pool!AcceptsSwap
<1>4. n \in Nat /\ Movable(n) /\ out \in Nat /\ Movable(out)
  BY <1>2, <1>3, SwapIsMovable DEF Inv, PT!IInv, Movable
<1> HIDE DEF out
<1>5. /\ A!Next /\ B!Next /\ VaultsOpen'
      /\ UNCHANGED <<policy, frozen, supply, paused>>
      /\ balance' = BySide(Pool!Moved("A", u, Vault, n), Pool!Moved("B", Vault, u, out))
      /\ Pool!CanMove("A", u, Vault, n) /\ Pool!CanMove("B", Vault, u, out)
  BY <1>1, <1>2, <1>4, TwoTransfers
<1>6. Pool!Other("A") = "B"
  BY DEF Pool!Other
<1>7. balance' = [s \in Pool!Side |-> IF s = "A" THEN Pool!Moved(s, u, Vault, n)
                                                ELSE Pool!Moved(s, Vault, u, out)]
  BY <1>5 DEF BySide, Pool!Side, Side
<1>8. reserve' = [s \in Pool!Side |-> IF s = "A" THEN reserve[s] + n ELSE reserve[s] - out]
  BY <1>1 DEF BySide, Pool!Side, Side
<1>9. Pool!Swap(u, "A", n, min_amount_out)
  <2>1. /\ balance' = Pool!BalanceAfterSwap(u, "A", n)
        /\ reserve' = Pool!ReserveAfterSwap("A", n)
    BY <1>7, <1>8 DEF Pool!BalanceAfterSwap, Pool!ReserveAfterSwap, out
  <2>2. Pool!SwapRechecks(u, "A", n)
    BY <1>1, <2>1 DEF Pool!SwapRechecks
  <2>3. Pool!CanSwap(u, "A", n, min_amount_out)
    BY <1>1, <1>5, <1>6 DEF Pool!CanSwap, out
  <2> QED
    BY <1>1, <1>5, <2>1, <2>2, <2>3 DEF Pool!Swap, Pool!controlVars, Pool!lpVars
<1>10. Pool!Next
  BY <1>9 DEF Pool!Next, Pool!PoolStep, Pool!Side
<1> QED
  BY <1>5, <1>10 DEF Refines

LEMMA SwapBtoARefines ==
    ASSUME Inv, NEW u \in Users, NEW n \in Amounts, NEW min_amount_out \in Minimums,
           SwapBtoA(u, n, min_amount_out)
    PROVE  Refines
<1> DEFINE out == Pool!SwapOut("B", n)
<1>1. /\ Pool!AcceptsSwap(u, "B", n, min_amount_out)
      /\ B!Transfer(u, Vault, n) /\ A!Transfer(Vault, u, out)
      /\ reserve' = BySide(reserve["A"] - out, reserve["B"] + n)
      /\ reserve'["A"] * reserve'["B"] >= reserve["A"] * reserve["B"]
      /\ Pool!EnsureSolvent(reserve', balance')
      /\ UNCHANGED <<pool_exists, fee_bps, lp, lp_supply>>
  BY DEF SwapBtoA, lpVars
<1>2. n \in Nat /\ u \in Accounts /\ Vault \in Accounts /\ "B" \in Side
  BY SystemAssumption DEF Accounts, Side
<1>3. Pool!QuoteSwap(n, reserve["B"], reserve[Pool!Other("B")], fee_bps) = "Ok"
  BY <1>1 DEF Pool!AcceptsSwap
<1>4. n \in Nat /\ Movable(n) /\ out \in Nat /\ Movable(out)
  BY <1>2, <1>3, SwapIsMovable DEF Inv, PT!IInv, Movable
<1> HIDE DEF out
<1>5. /\ A!Next /\ B!Next /\ VaultsOpen'
      /\ UNCHANGED <<policy, frozen, supply, paused>>
      /\ balance' = BySide(Pool!Moved("A", Vault, u, out), Pool!Moved("B", u, Vault, n))
      /\ Pool!CanMove("A", Vault, u, out) /\ Pool!CanMove("B", u, Vault, n)
  BY <1>1, <1>2, <1>4, TwoTransfers
<1>6. Pool!Other("B") = "A"
  BY DEF Pool!Other
<1>7. balance' = [s \in Pool!Side |-> IF s = "B" THEN Pool!Moved(s, u, Vault, n)
                                                ELSE Pool!Moved(s, Vault, u, out)]
  BY <1>5 DEF BySide, Pool!Side, Side
<1>8. reserve' = [s \in Pool!Side |-> IF s = "B" THEN reserve[s] + n ELSE reserve[s] - out]
  BY <1>1 DEF BySide, Pool!Side, Side
<1>9. Pool!Swap(u, "B", n, min_amount_out)
  <2>1. /\ balance' = Pool!BalanceAfterSwap(u, "B", n)
        /\ reserve' = Pool!ReserveAfterSwap("B", n)
    BY <1>7, <1>8 DEF Pool!BalanceAfterSwap, Pool!ReserveAfterSwap, out
  <2>2. Pool!SwapRechecks(u, "B", n)
    BY <1>1, <2>1 DEF Pool!SwapRechecks
  <2>3. Pool!CanSwap(u, "B", n, min_amount_out)
    BY <1>1, <1>5, <1>6 DEF Pool!CanSwap, out
  <2> QED
    BY <1>1, <1>5, <2>1, <2>2, <2>3 DEF Pool!Swap, Pool!controlVars, Pool!lpVars
<1>10. Pool!Next
  BY <1>9 DEF Pool!Next, Pool!PoolStep, Pool!Side
<1> QED
  BY <1>5, <1>10 DEF Refines

(* LP transfers and burns touch neither stablecoin.                        *)
LEMMA LpStepRefines ==
    ASSUME Inv, LpStep
    PROVE  Refines
<1>1. UNCHANGED <<vars_a, vars_b, poolVars>>
  BY DEF LpStep, TransferLp, BurnLp
<1>2. UNCHANGED A!vars /\ UNCHANGED B!vars
  BY <1>1 DEF vars_a, vars_b, A!vars, B!vars, A!configVars, B!configVars, A!rotationVars,
              B!rotationVars, A!roleVars, B!roleVars, A!mintVars, B!mintVars,
              A!accountVars, B!accountVars
<1>3. /\ UNCHANGED <<policy, frozen, supply, paused, balance, pool_exists, fee_bps, reserve>>
      /\ VaultsOpen'
  BY <1>1 DEF vars_a, vars_b, poolVars, policy, frozen, supply, paused, balance, BySide,
              Inv, VaultsOpen
<1>4. CASE \E u \in Users, x \in Users \cup {Locked}, n \in LpAmounts : TransferLp(u, x, n)
  <2>1. PICK u \in Users, x \in Users \cup {Locked}, n \in LpAmounts : TransferLp(u, x, n)
    BY <1>4
  <2>2. Pool!TransferLp(u, x, n)
    BY <1>3, <2>1 DEF TransferLp, Pool!TransferLp, Pool!poolVars, Pool!tokenVars,
                      Pool!controlVars
  <2>3. Pool!Next
    BY <2>2 DEF Pool!Next, Pool!OutsideStep, Pool!LpAccounts
  <2> QED
    BY <1>2, <1>3, <2>3 DEF Refines
<1>5. CASE \E u \in Users, n \in LpAmounts : BurnLp(u, n)
  <2>1. PICK u \in Users, n \in LpAmounts : BurnLp(u, n)
    BY <1>5
  <2>2. Pool!BurnLp(u, n)
    BY <1>3, <2>1 DEF BurnLp, Pool!BurnLp, Pool!poolVars, Pool!tokenVars, Pool!controlVars
  <2>3. Pool!Next
    BY <2>2 DEF Pool!Next, Pool!OutsideStep
  <2> QED
    BY <1>2, <1>3, <2>3 DEF Refines
<1> QED
  BY <1>4, <1>5 DEF LpStep

LEMMA StepOfARefines ==
    ASSUME Inv, StepOfA
    PROVE  Refines
<1>1. A!Next /\ UNCHANGED <<vars_b, poolVars, lpVars>>
      /\ (state_a'[Vault] = "Closed") = (state_a[Vault] = "Closed")
  BY DEF StepOfA, VaultLeftAlone
<1>2. UNCHANGED B!vars
  BY <1>1 DEF vars_b, B!vars, B!configVars, B!rotationVars, B!roleVars, B!mintVars,
              B!accountVars
<1>3. [Pool!Next]_(Pool!vars)
  BY EnvironmentOfA DEF Inv
<1>4. VaultsOpen'
  BY <1>1 DEF Inv, VaultsOpen, vars_b, poolVars
<1> QED
  BY <1>1, <1>2, <1>3, <1>4 DEF Refines

LEMMA StepOfBRefines ==
    ASSUME Inv, StepOfB
    PROVE  Refines
<1>1. B!Next /\ UNCHANGED <<vars_a, poolVars, lpVars>>
      /\ (state_b'[Vault] = "Closed") = (state_b[Vault] = "Closed")
  BY DEF StepOfB, VaultLeftAlone
<1>2. UNCHANGED A!vars
  BY <1>1 DEF vars_a, A!vars, A!configVars, A!rotationVars, A!roleVars, A!mintVars,
              A!accountVars
<1>3. [Pool!Next]_(Pool!vars)
  BY EnvironmentOfB DEF Inv
<1>4. VaultsOpen'
  BY <1>1 DEF Inv, VaultsOpen, vars_a, poolVars
<1> QED
  BY <1>1, <1>2, <1>3, <1>4 DEF Refines

LEMMA IdleRefines ==
    ASSUME Inv, UNCHANGED vars
    PROVE  Refines
<1>1. UNCHANGED <<vars_a, vars_b, poolVars, lpVars>>
  BY DEF vars
<1>2. UNCHANGED A!vars /\ UNCHANGED B!vars
  BY <1>1 DEF vars_a, vars_b, A!vars, B!vars, A!configVars, B!configVars, A!rotationVars,
              B!rotationVars, A!roleVars, B!roleVars, A!mintVars, B!mintVars,
              A!accountVars, B!accountVars
<1>3. /\ UNCHANGED <<policy, frozen, supply, paused, balance, pool_exists, fee_bps, reserve>>
      /\ VaultsOpen'
  BY <1>1 DEF vars_a, vars_b, poolVars, policy, frozen, supply, paused, balance, BySide,
              Inv, VaultsOpen
<1>4. UNCHANGED Pool!vars
  BY <1>1, <1>3 DEF lpVars, Pool!vars
<1> QED
  BY <1>2, <1>3, <1>4 DEF Refines

(* Every step of the system is a step, or nothing, to each of its parts.   *)
LEMMA StepRefines ==
    ASSUME Inv, [Next]_vars
    PROVE  Refines
<1>1. CASE StepOfA \/ StepOfB
  BY <1>1, StepOfARefines, StepOfBRefines
<1>2. CASE PoolStep
  BY <1>2, InitializePoolRefines, AddLiquidityRefines, RemoveLiquidityRefines,
     SwapAtoBRefines, SwapBtoARefines DEF PoolStep
<1>3. CASE LpStep
  BY <1>3, LpStepRefines
<1>4. CASE UNCHANGED vars
  BY <1>4, IdleRefines
<1> QED
  BY <1>1, <1>2, <1>3, <1>4 DEF Next

LEMMA InitHoldsInv ==
    ASSUME Init
    PROVE  Inv
<1>1. A!Init /\ B!Init
  BY DEF Init
<1>2. AT!Init /\ BT!Init
  BY <1>1, InitOfA, InitOfB
<1>3. AT!IInv
  BY <1>2, AT!InitIsInductive, AssumptionOfA
<1>4. BT!IInv
  BY <1>2, BT!InitIsInductive, AssumptionOfB
<1>5. PT!Init /\ VaultsOpen
  BY InitOfPool
<1>6. PT!IInv
  BY <1>5, PT!InitIsInductive, AssumptionOfPool
<1> QED
  BY <1>3, <1>4, <1>5, <1>6 DEF Inv

(* Because each part keeps its own invariant, and the step is one of each  *)
(* part, the system keeps all of them.                                     *)
LEMMA StepKeepsInv ==
    ASSUME Inv, [Next]_vars
    PROVE  Inv'
<1>1. /\ [A!Next]_(A!vars) /\ [B!Next]_(B!vars) /\ [Pool!Next]_(Pool!vars)
      /\ VaultsOpen'
  BY StepRefines DEF Refines
<1>2. [AT!Next]_(AT!vars)
  BY <1>1, NextOfA DEF A!vars, AT!vars, A!configVars, AT!configVars, A!rotationVars,
     AT!rotationVars, A!roleVars, AT!roleVars, A!mintVars, AT!mintVars, A!accountVars,
     AT!accountVars
<1>3. [BT!Next]_(BT!vars)
  BY <1>1, NextOfB DEF B!vars, BT!vars, B!configVars, BT!configVars, B!rotationVars,
     BT!rotationVars, B!roleVars, BT!roleVars, B!mintVars, BT!mintVars, B!accountVars,
     BT!accountVars
<1>4. [PT!Next]_(PT!vars)
  BY <1>1, NextOfPool DEF Pool!vars, PT!vars
<1>5. AT!IInv'
  <2>1. AT!StepFacts
    BY <1>2, AT!NextKeeps, AssumptionOfA DEF Inv
  <2> QED
    BY <2>1 DEF AT!StepFacts
<1>6. BT!IInv'
  <2>1. BT!StepFacts
    BY <1>3, BT!NextKeeps, AssumptionOfB DEF Inv
  <2> QED
    BY <2>1 DEF BT!StepFacts
<1>7. PT!IInv'
  <2>1. PT!StepFacts
    BY <1>4, PT!NextKeeps, AssumptionOfPool DEF Inv
  <2> QED
    BY <2>1 DEF PT!StepFacts
<1> QED
  BY <1>1, <1>5, <1>6, <1>7 DEF Inv

-----------------------------------------------------------------------------
(* The invariants of both stablecoins and of the pool hold together in     *)
(* every reachable state of the system, and the vaults are open exactly    *)
(* when the pool exists.                                                   *)
THEOREM SystemInvariant == Spec => []Inv
<1>1. Init => Inv
  BY InitHoldsInv
<1>2. Inv /\ [Next]_vars => Inv'
  BY StepKeepsInv
<1> QED
  BY <1>1, <1>2, PTL DEF Spec

(* Two stablecoins and a pool implement module Amm: every order of steps   *)
(* of issuers, compliance and owners is an order of its environment's.     *)
THEOREM SystemImplementsAmm == Spec => ImplementsAmm
<1>1. Init => Pool!Init
  BY InitOfPool
<1>2. Inv /\ [Next]_vars => [Pool!Next]_(Pool!vars)
  BY StepRefines DEF Refines
<1> QED
  BY <1>1, <1>2, SystemInvariant, PTL DEF Spec, ImplementsAmm, Pool!Spec

(* Each step is one of each stablecoin, or none, as System is written.     *)
LEMMA MintsRun == Spec => A!Spec /\ B!Spec
<1>1. Init => A!Init /\ B!Init
  BY DEF Init
<1>2. Inv /\ [Next]_vars => [A!Next]_(A!vars)
  BY StepRefines DEF Refines
<1>3. Inv /\ [Next]_vars => [B!Next]_(B!vars)
  BY StepRefines DEF Refines
<1> QED
  BY <1>1, <1>2, <1>3, SystemInvariant, PTL DEF Spec, A!Spec, B!Spec

-----------------------------------------------------------------------------
(* What is proved of the parts holds of the system.                        *)

LEMMA BehavesAsA == Spec => AT!Spec
<1>1. A!Init => AT!Init
  BY InitOfA
<1>2. [A!Next]_(A!vars) => [AT!Next]_(AT!vars)
  BY NextOfA DEF A!vars, AT!vars, A!configVars, AT!configVars, A!rotationVars,
     AT!rotationVars, A!roleVars, AT!roleVars, A!mintVars, AT!mintVars, A!accountVars,
     AT!accountVars
<1> QED
  BY <1>1, <1>2, MintsRun, PTL DEF A!Spec, AT!Spec

LEMMA BehavesAsB == Spec => BT!Spec
<1>1. B!Init => BT!Init
  BY InitOfB
<1>2. [B!Next]_(B!vars) => [BT!Next]_(BT!vars)
  BY NextOfB DEF B!vars, BT!vars, B!configVars, BT!configVars, B!rotationVars,
     BT!rotationVars, B!roleVars, BT!roleVars, B!mintVars, BT!mintVars, B!accountVars,
     BT!accountVars
<1> QED
  BY <1>1, <1>2, MintsRun, PTL DEF B!Spec, BT!Spec

LEMMA BehavesAsPool == Spec => PT!Spec
<1>1. Init => PT!Init
  BY InitOfPool
<1>2. [Pool!Next]_(Pool!vars) => [PT!Next]_(PT!vars)
  BY NextOfPool DEF Pool!vars, PT!vars
<1> QED
  BY <1>1, <1>2, SystemImplementsAmm, PTL DEF Spec, ImplementsAmm, Pool!Spec, PT!Spec

(* What the pool has on record is held by its vaults, what these hold has  *)
(* been issued, and what has been issued is within the cap, for any number *)
(* of users and accounts: the pool's own solvency, the conservation of     *)
(* each stablecoin and its cap are chained.                                *)
THEOREM ReservesCovered == Spec => []ReservesAreIssued
<1>1. Spec => []AT!SupplyHeld
  BY BehavesAsA, AT!SupplyConserved, AssumptionOfA, PTL
<1>2. Spec => []BT!SupplyHeld
  BY BehavesAsB, BT!SupplyConserved, AssumptionOfB, PTL
<1>3. Spec => []PT!Solvent
  BY BehavesAsPool, PT!AlwaysSolvent, AssumptionOfPool, PTL
<1>4. ASSUME Inv, AT!SupplyHeld, BT!SupplyHeld, PT!Solvent
      PROVE  ReservesAreIssued
  <2>1. balance_a[Vault] <= mint_supply_a /\ mint_supply_a <= supply_cap_a
    BY <1>4, AT!HoldingWithinCap, AssumptionOfA DEF Inv, Accounts
  <2>2. balance_b[Vault] <= mint_supply_b /\ mint_supply_b <= supply_cap_b
    BY <1>4, BT!HoldingWithinCap, AssumptionOfB DEF Inv, Accounts
  <2>3. \A s \in Side : balance[s][Vault] >= reserve[s]
    BY <1>4 DEF PT!Solvent, PT!Side, Side
  <2>4. \A s \in Side : reserve[s] \in Nat /\ balance[s][Vault] \in Nat
    BY <1>4, ReservesInRange, TypesOfA, TypesOfB DEF Inv, PT!IInv, balance, BySide, Side, Accounts
  <2> QED
    BY <2>1, <2>2, <2>3, <2>4 DEF ReservesAreIssued, balance, supply, BySide, Side
<1> QED
  BY <1>1, <1>2, <1>3, <1>4, SystemInvariant, PTL

(* Whatever both issuers and all owners do, the pool stays seeded, its     *)
(* shares backed, its repeated checks silent and its exit open.            *)
THEOREM PoolStaysSound ==
    Spec => [](PT!EmptyOrSeeded /\ PT!LpBacked /\ PT!RechecksNeverFire /\ PT!ExitNeverBlocked)
<1>1. PT!Spec => []PT!EmptyOrSeeded
  BY PT!NeverStuck, AssumptionOfPool
<1>2. PT!Spec => []PT!LpBacked
  BY PT!LpAlwaysBacked, AssumptionOfPool
<1>3. PT!Spec => []PT!RechecksNeverFire
  BY PT!RechecksHold, AssumptionOfPool
<1>4. PT!Spec => []PT!ExitNeverBlocked
  BY PT!ExitStaysOpen, AssumptionOfPool
<1> QED
  BY <1>1, <1>2, <1>3, <1>4, BehavesAsPool, PTL

(* No step of either program, nor of anyone through Token-2022, lowers the *)
(* value of a share, pays out a surplus, or moves the reserves without the *)
(* permission that the two issuers have given.                             *)
THEOREM HoldersStayWhole ==
    Spec => /\ PT!ShareValueNeverFalls
            /\ PT!SurplusStaysStranded
            /\ PT!ReservesMoveOnlyWhenPermitted
<1>1. PT!Spec => PT!ShareValueNeverFalls
  BY PT!ShareValue, AssumptionOfPool
<1>2. PT!Spec => PT!SurplusStaysStranded
  BY PT!Stranded, AssumptionOfPool
<1>3. PT!Spec => PT!ReservesMoveOnlyWhenPermitted
  BY PT!OnlyWhenPermitted, AssumptionOfPool
<1> QED
  BY <1>1, <1>2, <1>3, BehavesAsPool, PTL

(* A pool between them, neither stablecoin loses its allowlist, its cap,   *)
(* its accounting, or the authority that compliance and its admin have.    *)
THEOREM MintsStaySound ==
    Spec => [](/\ AT!DefaultDeny /\ AT!IssuanceAccounted
               /\ AT!ComplianceNeverRefused /\ AT!AdminNeverStranded
               /\ BT!DefaultDeny /\ BT!IssuanceAccounted
               /\ BT!ComplianceNeverRefused /\ BT!AdminNeverStranded)
<1>1. AT!Spec => []AT!DefaultDeny /\ []AT!IssuanceAccounted
  BY AT!AllowlistHolds, AT!IssuanceHolds, AssumptionOfA
<1>2. AT!Spec => []AT!ComplianceNeverRefused /\ []AT!AdminNeverStranded
  BY AT!ComplianceAnswered, AT!SomebodyInControl, AssumptionOfA
<1>3. BT!Spec => []BT!DefaultDeny /\ []BT!IssuanceAccounted
  BY BT!AllowlistHolds, BT!IssuanceHolds, AssumptionOfB
<1>4. BT!Spec => []BT!ComplianceNeverRefused /\ []BT!AdminNeverStranded
  BY BT!ComplianceAnswered, BT!SomebodyInControl, AssumptionOfB
<1> QED
  BY <1>1, <1>2, <1>3, <1>4, BehavesAsA, BehavesAsB, PTL

(* A blocked vault, or a paused stablecoin, stands still: not even the     *)
(* pool, which owns it, moves a token of it.                               *)
THEOREM MintsStandStill ==
    Spec => /\ AT!PausedMeansStill /\ AT!BlockedStaysPut
            /\ BT!PausedMeansStill /\ BT!BlockedStaysPut
<1>1. AT!Spec => AT!PausedMeansStill /\ AT!BlockedStaysPut
  BY AT!PauseHolds, AT!BlockHolds, AssumptionOfA
<1>2. BT!Spec => BT!PausedMeansStill /\ BT!BlockedStaysPut
  BY BT!PauseHolds, BT!BlockHolds, AssumptionOfB
<1> QED
  BY <1>1, <1>2, BehavesAsA, BehavesAsB, PTL
=============================================================================
