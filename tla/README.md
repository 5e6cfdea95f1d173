# A TLA+ model of solana-stablecoin-amm

This directory models the two on-chain programs of the repository, `stablecoin` (an issuer
of permissioned Token-2022 mints) and `amm` (a constant-product pool over two of them).
Small instances are model-checked with TLC and the main invariants are proved with TLAPS for
every value of the constants. `PROJECT.json` lists the runs, the lines each definition
translates, the faulty variants each property is known to catch, the hazards and the theorems.
Paths below are relative to `src/`.

## 1. The system

### Components

| component | source | state | operations |
| --- | --- | --- | --- |
| quote arithmetic | `programs/amm/src/math.rs` | none (pure, checked `u128`) | `quote_swap`, `quote_initial_liquidity`, `quote_add_liquidity`, `quote_remove_liquidity`, `integer_sqrt`, `ceil_div` |
| pool instructions | `programs/amm/src/instructions/` | `Pool` (reserves, fee), two vaults, LP mint, locked LP account | `initialize_pool`, `add_liquidity`, `remove_liquidity`, `swap` |
| issuance | `programs/stablecoin/src/instructions/` | `MintConfig` counters and cap, one `MinterRole` per minter, mint supply | `mint_to`, `burn`, `grant_minter`, `revoke_minter` |
| compliance and pause | the same | one `WalletPolicy` per token account, frozen flag of the account, pause flag in config and in mint | `set_wallet_policy`, `set_pause` |
| authorities | the same | `admin`, `pending_admin`, `compliance_authority` | `initialize_stablecoin`, `update_config`, `accept_admin` |
| Token-2022 | external | balances, supply, frozen and paused flags | transfer, mint, burn, freeze, thaw, pause; owners may call the first and third, and open and close accounts, without either program |
| events | `events.rs` of both | the program log | one per instruction, thirteen in all |
| error codes, entry points | `errors.rs`, `lib.rs` | none | dispatch |
| demo | `scripts/demo.ts` | what it has fetched and quoted | creates, allows, deposits, swaps, withdraws |
| tests | `tests/` | none | clients |

### How they interact

`amm` never calls `stablecoin`: it reads `MintConfig` and `WalletPolicy` accounts as
preconditions and moves tokens by calls to Token-2022. `stablecoin` holds every authority of
the mint through a PDA and acts on it by calls to Token-2022. So the two programs meet in
shared accounts only, and the owners of token accounts and LP tokens change the same accounts
through Token-2022 with neither program looking.

A transaction runs alone and is undone as a whole if anything in it fails. Every
instruction is therefore one atomic step, and one that fails is a step not taken. There
is no concurrency *inside* an instruction, and no crash or lost message to recover from: the
hard behaviour lies between instructions.

### What is hard

* **Interleavings with the outside.** Donations to a vault, LP tokens sent to the locked
  account, LP and stablecoin burns outside the programs, freezes of a vault, pauses of one
  side, closed and reopened accounts.
* **Rounding over long sequences.** Each quote floors or ceils several divisions; one
  wrong direction only shows as a slow leak.
* **Duplicated facts.** Policy and frozen flag, pause flag in config and mint, counters and
  live supply, recorded reserve and vault balance. Each pair can drift.
* **Checks that repeat.** Handlers check again after their transfers; a check that is too
  strict bricks a pool no test drives into that state.
* **Control.** Rotation of keys, some of which nobody holds.
* **Two programs, one balance.** The pool relies on refusals of Token-2022 that the issuer
  arranges; neither program checks what the other believes.
* **Identities.** Everything lives at an address derived from seeds. Symbols that look alike, a pair
  named in both orders, seeds that leave something out.
* **What a caller sees.** It fetches accounts one by one, works out a quote in its own arithmetic and sends
  a transaction that lands later; or it keeps its own books from a log that tells only part of what happens.

The hazards in `PROJECT.json` place each of these at its line.

### What makes each component correct

* Arithmetic: no overflow on any input; rounding favours the pool; nobody profits from
  depositing and withdrawing at once or from slicing a swap; `integer_sqrt` is exact.
* Pool: vaults cover the reserves; LP tokens are backed and never lose value; nobody gains by leaving first; surplus stays;
  the pool is untouched or seeded; a holder can leave; reserves move only with permission.
* Issuance: supply within the cap; counters cover the supply; each token charged to one role.
* Compliance: default deny; a blocked balance stays put; a pause stops everything; no
  decision of compliance is ever refused.
* Authorities: a usable admin at all times.
* Both programs: real issuers do to the pool only what its model expects of them; what it has on record is held and issued.
* Identities: one stablecoin per displayed symbol, one pool per pair, roles of one mint good
  for that mint only, every pair tradable.
* Callers: own quotes that agree with the program, minimums that bound what can be lost; a log from
  which the state can be rebuilt.

## 2. The modules

| module | what it is | extends |
| --- | --- | --- |
| `AmmMath` | constants, checks and quotes of `math.rs` as operators | |
| `Totals` | the sum of what a set of accounts holds, as the size of a set | |
| `ShareVault`, `CappedLedger` | abstract: what a pool promises to share holders, what a stablecoin promises to its holders | |
| `QuoteLaws` | a pool changed by the quotes alone; laws of the arithmetic | `AmmMath` |
| `SqrtLoop` | `integer_sqrt` as the loop it is, one step per iteration | `AmmMath` |
| `Amm` | one pool, its accounts and its whole environment; implements `ShareVault` | `AmmMath`, `Totals` |
| `Stablecoin` | one mint: all nine instructions and what owners do without them; implements `CappedLedger` | `Totals` |
| `System` | two `Stablecoin`s and a pool between them; implements `Amm` | `AmmMath` |
| `Registry` | all mints, pools and roles: who may create what at which address | |
| `PdaCreation` | the calls with which both initializers create accounts at known addresses | `Totals` |
| `Client` | the caller of `scripts/demo.ts`, against other users of a pool | `Amm` |
| `MintEvents`, `PoolEvents` | the logs of the two programs, and a reader who knows nothing else | `Stablecoin`, `Amm` |
| `TotalsTheorems`, `AmmMathTheorems` | lemmas about sums and quotes | `Totals`, `AmmMath` |
| `QuoteTheorems` | proofs about quotes and the loop | `QuoteLaws`, `SqrtLoop` |
| `AmmTheorems` | proofs about the pool | `Amm` |
| `StablecoinTheorems` | proofs about a mint and its log | `MintEvents` |
| `SystemTheorems` | proofs about both programs, instances of the two modules above among them | `System` |
| `AddressTheorems` | proofs about identities and account creation | `Registry`, `PdaCreation` |
| `CallerTheorems` | proofs about a pool's log and its caller | `AmmTheorems`, `PoolEvents`, `Client` |
| `MC*` | small instances for TLC | |

Definitions keep the names of the source. A definition whose name ends in `_Faulty` is no part of
the model: it is a plausible mistake in the definition that follows it, kept so that each
property can be shown to notice one (`mutants` in `PROJECT.json`).

### Quotes (`AmmMath`)

Each quote is a set of operators for what it returns (`AmountOut`, `DepositA`, `DepositB`,
`LpMinted`, `WithdrawnOf`, `InitialLp`) and one operator for its verdict (`QuoteSwap`,
`QuoteInitialLiquidity`, `QuoteAddLiquidity`, `QuoteRemoveLiquidity`), which is `"Ok"` or
the name of the `MathError` returned, in the order of the source. `checked_mul` and
`checked_add` become `Overflows(x)`, against the width `U128_MAX`; `widen` and `narrow`
become `InRange`, against `MAX_SUPPLY_CAP`. `integer_sqrt` is named by the number it returns;
`SqrtLoop` shows that its loop returns it.

### Pool (`Amm`)

`reserve`, `fee_bps`, `pool_exists` are the `Pool` account; `balance[s][x]`, `frozen`,
`policy`, `paused` describe each stablecoin `s` in `{"A", "B"}`; `lp`, `lp_supply` the LP
accounts and mint. `Vault` and `Locked` name the pool's own accounts. The four instructions
are `InitializePool`, `AddLiquidity`, `RemoveLiquidity` and `Swap`. `AcceptsDeposit`,
`AcceptsWithdrawal` and `AcceptsSwap` hold the account constraints and the checks before the transfers;
`CanAddLiquidity` and its siblings add what Token-2022 requires of the transfers; `DepositRechecks` and its siblings
are the checks after them, on the state the transfers lead to (`BalanceAfterDeposit`, `ReserveAfterDeposit`,
`SupplyAfterDeposit` and so on, which the action assigns) and against the supply the handler expects (`ExpectedLpSupply`, `NewLpSupply`). A property that asks whether an instruction would be refused uses the same guards
as the action; so do `CanSetWalletPolicy`, `CanSetPause` and `CanUpdateConfig` of `Stablecoin` and `CanInitializePool` of
`Registry`. The other actions are the environment: `SetWalletPolicy`, `SetPause` and `MintTo` of the other
program, and `Burn`, `Transfer`, `ReopenAccount`, `TransferLp`, `BurnLp` by owners through
Token-2022. `set_pause` refuses to run when its two flags differ; `Stablecoin` shows that they
never do, so `Amm` keeps one.

### Mint (`Stablecoin`)

`initialized` to `paused` are `MintConfig`; `minters`, `allowance`, `minted` the open roles;
`mint_supply`, `mint_paused`, `state`, `balance` what Token-2022 keeps; `policy` the
`WalletPolicy` records. `granted` and `retired` are history variables: all allowances ever
granted, and what revoked roles had minted (the code reports it in an event and forgets it).
The keys are those somebody can sign with (`Keys`), a mistyped one nobody holds (`LostKey`)
and `Pubkey::default` (`DefaultKey`). `OpenAccount`, `CloseAccount`, `Transfer` and
`DirectBurn` are the owners'. The model counts in natural numbers: `checked_add` on an
allowance or on the supply can fail in the code only where the comparison that follows it
would fail too, and `total_minted` is a `u128` to which each mint adds less than 2^64.

### Abstract specifications (`ShareVault`, `CappedLedger`)

`ShareVault` knows two reserves, a number of shares and a pinned part of it. Its steps say what each
operation may do to them: joining and leaving keep what a share claims of *each* asset, a trade
keeps the product, nobody takes the pinned shares out. `Amm` implements it with `pinned` read as the balance of the locked
account (`Share`). `CappedLedger` knows a supply, a cap, holdings, a set of allowed accounts
and a switch. `Stablecoin` implements it (`Ledger`) with *allowed* read as the recorded
policy and the *switch* as the flag in the config. The code enforces neither by itself: a
transfer is stopped by the frozen flag and by the mint's own pause. So the refinement says that what the program has
on record is what holds on chain.

### Both programs (`System`)

`A` and `B` are complete instances of `Stablecoin`, each with its variables (`..._a`, `..._b`).
The pool's instructions are written over *their* `Transfer` and `OpenAccount`, because `amm` makes no other calls on a
stablecoin: that a pool's steps are steps of an owner is the shape of the module, not a result. What has to be shown is the other
direction, that two real issuers do to the pool only what the environment of `Amm` does. `StepOfA` is any step of the first program and of Token-2022 on
mint A; `VaultLeftAlone` says that the pool's PDA, owner of the vaults, signs nothing outside
the pool's instructions. `Pool` maps this to `Amm`: a closed account counts as frozen, the environment's
`MintTo` is every mint by every minter, and grants, revocations and rotations are stutters.

### Identities (`Registry`)

A derived address is a tuple of its seeds, `accounts` the addresses in use. A symbol is a
function from positions to bytes, `NUL` among them; `Rank` orders the mints' addresses, which has
nothing to do with their symbols. `open` is a history variable: which roles an admin wants open.

### A caller (`Client`)

One action per `await` of `main` that matters to trading: a fetch or a transaction that lands. `stage` is the
script's position, `burned`, `live`, `minimum` its local variables. Others act in between, at most
`MaxRivals` times. `worth` and `touched` are history variables for the properties. `Fail` is a
transaction that is refused or never lands; the script ends. Its quotes are modelled in its own arithmetic
(`NewtonSqrt` for the root), not in that of `AmmMath`. In the script's own setting nobody else is allowed to
hold the stablecoins; its comment on slippage speaks of competing transactions, so the model has another user that is allowed.

### Logs (`MintEvents`, `PoolEvents`)

Each instruction writes its event in its own step, with the values of the source: those after
the step, except `MinterRevoked.minted`, which is read before the role closes. `view` is what a
reader who applies the events believes. Owners who act through Token-2022 alone, donors and the issuers of a
pool's tokens write nothing in it. `net` and `shares` are what a reader of the pool's log adds up, from the amounts and from
`lp_minted` and `lp_burned`; `forfeited` is a history variable: the LP tokens holders have burned without the program.

### The loop (`SqrtLoop`)

`pc` tells the scaling loop (`Scale`, `StartDigits`) from the digit loop (`Digit`, `Return`).
`TOP_BIT` is `1 << 126` in the source and `Bits` the powers of four up to it.

### Account creation (`PdaCreation`)

Here, and only here, a transaction is not one step: its calls to the system program and to
Token-2022 are (`CreateAccount`, or `TopUp`, `Allocate` and `Assign`; then `Initialize`), for each of
the addresses of an instruction in turn (`children`, one of `Instructions`). The pool and the config are among them: Anchor's
`init` creates them with the same calls, before the handler creates the others. A transaction ends with `Commit`: the
chain refuses one that leaves its payer with lamports, but fewer than the rent of an empty account. `account` and `purse` are what the running transaction sees, `saved` what it
found, which `Abort` restores. Strangers send lamports to the addresses between transactions (`Gift`)
and the payer's balance changes between attempts (`Earn`), both under the same rule. `create_pda_account` of the pool and
`create_mint_account` of the issuer are the same code; they differ in `FinalSpace`, since only
the mint grows after it is created.

## 3. What TLC checks

| run | instance | properties |
| --- | --- | --- |
| `quote_laws` | every seeded pool with reserves and LP supply up to 16, two fees, every request from 0 to one above the cap | `ArithmeticNeverOverflows`, `DepositWithinDesired`, `DepositThenRemoveNeverProfits`, `SplittingNeverPays` |
| `sqrt_loop` | every argument of a 10-bit word | `RootIsExact`, `SumsFitTheWord`, `Returns` |
| `amm_value` | two users, 4 tokens each side and each, donations, LP transfers and burns | `TypeOK`, `EmptyOrSeeded`, `LpBacked`, `ExitNeverBlocked`, `ShareValueNeverFalls`, `NobodyRunsFirst`, `SurplusStaysStranded`, `ImplementsShareVault` |
| `amm_compliance` | one user and a reader of the log, every decision of compliance about user and vaults, both pauses, mints into vaults, slippage bounds | `BooksBalance`, `RechecksNeverFire`, `ReservesMoveOnlyWhenPermitted` |
| `stablecoin` | two keys, a lost key and the default key, two accounts, a reader of the log; caps 0 to 3 around a maximum of 2, allowances up to 2, at most 2 granted in all | `TypeOK`, `DefaultDeny`, `ComplianceNeverRefused`, `AdminNeverStranded`, `SupplyWithinCap`, `OutstandingCoversSupply`, `IssuanceAccounted`, `LogTellsAll`, `BlockedStaysPut`, `PausedMeansStill`, `ImplementsLedger` |
| `system` | two mints of 4 tokens, one user and one key, mints, burns and pauses on both sides, blocks on side A, transfers of any amount | `ReservesAreIssued`, `ImplementsAmm` |
| `registry` | two people; symbols of three bytes (a NUL, a letter, another byte); a shuffled order of mints | `DisplayedSymbolsDistinct`, `OnePoolPerPair`, `EveryPairCanTrade`, `RolesStayApart` |
| `client` | the script and one rival with five transactions, asking for its whole quote | `QuotesMatchTheProgram`, `SwapsPaidWithinTolerance` |
| `pda` | the pool with its four children, or the config with a mint that grows; gifts from below to above the rent, payers with too little, just enough, enough but for their own rent, and too much, retries | `OnlyPovertyFails`, `PayerPaysWhatIsMissing`, `AllCreated` |

Three more runs end in a violation, each of one sentence the repository says of itself:

* `swap_price`: the test `larger_swaps_never_get_a_better_price` (`math.rs:734-750`) asserts
  what flooring does not give. At reserves 10000/10000 and 30 bps a swap of 2 pays 1 and a swap of 3
  pays 2. Random sampling up to 10^15 does not meet such inputs. No value is lost:
  `ShareValueNeverFalls` holds.
* `stablecoin_reopened`: "each wallet policy agrees with the token account's actual frozen
  state" (`README.md:103`) fails once an allowed, empty account is closed and opened again: it is frozen
  under a policy that reads Allowed. It fails on the safe side, and compliance repairs it by
  deciding again (`ComplianceNeverRefused`), because `set_wallet_policy` looks at the
  account and not at the policy it recorded.
* `client_torn`: the comment on `SLIPPAGE_BPS` (`scripts/demo.ts:198-199`) says that asking for 99% of the
  quote leaves room for a competing transaction without accepting an arbitrary price. That holds for the script's
  swaps (`SwapsPaidWithinTolerance`), which are quoted from one fetch. A withdrawal is quoted from reserves and an
  LP supply fetched one after the other: a deposit between the two makes the quote, and the minimum, too
  low by the factor the supply grew, and a swap after them is then accepted at a price far below the
  least the program would have paid at any time during the fetches.

### Bounds, and why they are enough

The constants of the source are scaled down: a cap of 5 to 16 for 10^15, a fee
denominator of 10 for 10000, a greatest fee of 1 (10 %, larger relative to the amounts than
in the source, so that fee rounding shows on small numbers), a locked minimum of 1 or 2.
In the source the word is much wider than the widest product of a quote (10^15 * 10^15 * 10^4 against 3 * 10^38);
in the runs `U128_MAX` is the widest product itself, `cap * cap * FEE_DENOMINATOR`, so there is no slack: requests out of range
overflow it when the range check is dropped, which is the mutant of
`ArithmeticNeverOverflows`. Rounding depends on
remainders, which small numbers visit exhaustively: within the bounds every reserve, amount
and supply, divisible or not, occurs. Two users are enough for one to act on the other's share
(dilution, a locked account fed by the other); symmetry exchanges them in `amm_value`, whose
properties name no user. Minters, accounts and keys come in twos for the same reason. What the
bounds might hide, the theorems of section 4 cover for all values.

`MaxGranted` bounds all allowances ever granted, and with them `total_minted`, and is the
only guard of `Stablecoin` that the code has not; `MaxLamports` likewise bounds what strangers leave at one
address in `PdaCreation`, and `MaxRivals` the transactions of others while the script of `Client` runs.
Nothing else in the modules is cut off. Two units of allowance are enough for a role to be exhausted by two
mints, revoked after one and granted again, or for two minters to share them. Five rivals are more than the
script has gaps in which one could hurt it. In `system` nobody is blocked on side B, because side A,
under the same module, has that, and the two sides meet only in the pool. One key holds every authority there, so `update_config` and `accept_admin`
change no admin; `stablecoin` rotates keys, and the theorems on `System` are about any number of them.
`Amounts`, `Caps` and the like are the arguments a caller may name.

Deadlock is left out where the system really may stop: a pool of `QuoteLaws` at the cap may
admit no further quote, the loop of `SqrtLoop` returns, accounts are created once, and the script of `Client` ends.

### Fairness and liveness

Nothing schedules an on-chain program: an instruction runs if somebody sends it, and
nobody has to. No fairness is justified for `Amm` and `Stablecoin`, so no liveness is
claimed. What matters instead is *possibility*, that an instruction would go through if sent.
It is stated as an invariant over the guards of the actions themselves: `ExitNeverBlocked`, `RechecksNeverFire`,
`ComplianceNeverRefused`, `AdminNeverStranded`, `EveryPairCanTrade`. The loop of `SqrtLoop` is different: a program
runs alone until it returns, which is weak fairness of `LoopNext` (`FairLoopSpec`), and `Returns`
follows.

## 4. What TLAPS proves

All theorems hold for any number of users, accounts and keys, any amounts, and any
constants that satisfy `MathAssumption` (a positive locked minimum, fees below the denominator, a word with room for
the product of two amounts), `AmmAssumption`, `StablecoinAssumption`, `SystemAssumption`, `RegistryAssumption`,
`CreationAssumption`, `ClientAssumption`, `QuoteAssumption` and `SqrtAssumption` (the word is four times the top power of four,
less one). TLC evaluates these assumptions in the runs. `NoOverflow` has one
more hypothesis, `WordFits`: the word has room for the product of two caps and the fee
denominator, as 128 bits have for 10^15, 10^15 and 10^4.

Every property of the runs that hold is the statement of a theorem, except `Returns`.

* **Arithmetic** (`AmmMathTheorems`, `QuoteTheorems`). `SwapKeepsProduct`: flooring the output keeps the product of the reserves.
  `DepositWithinOffer`: rounding the matching side up stays within the offer, because that side is
  computed only when it fits. On these rest all seven laws of `QuoteLaws`, of which TLC checks the four that no other run repeats. The longest is
  `RoundTripNeverProfits`: the floor in the LP minted and the floor in the withdrawal compose to at most
  the amounts taken. `SplittingIsNoGain` compares two floored swaps with one by their
  exact quotients, so the fee of the first leg is what makes the second worse.
* **Loop** (`QuoteTheorems`). `SqrtIsExact`, `SqrtNeverOverflows`, `SqrtRestores`. The invariant is `Restoring`: with `p` the
  digits found so far, `value` is `remainder` plus `p^2` scaled by the digits to come, and
  `remainder` is too small for one more unit of `p`. When no digit is left it says that `root` is
  the integer square root. The comment at `math.rs:54` argues instead that every intermediate stays below `value`; the
  trial sum `root + bit` need not (for 256 it is 320), and the proof bounds it by the word.
* **Pool** (`AmmTheorems`). `TypeCorrect`, `LpAlwaysBacked`, `ShareValue`, `Stranded`, `AlwaysSolvent` follow from
  the inductive invariant `TypeOK /\ LpBacked /\ EmptyBeforePool`. One might expect to need that the
  pool is empty or seeded to prove that share value never falls; it is not so. Each
  instruction keeps `k' * L^2 >= k * L'^2` from the rounding of its quote alone, and `L^2 <= k`
  then carries over by `BackingFollowsShareValue`; the one step that starts from `L = 0`, the first
  deposit, is backed because `integer_sqrt` rounds down. `EmptyBeforePool` is there for
  `initialize_pool`, which writes zero reserves. `Solvent` is derived from the action property
  `SurplusStaysStranded`: the surplus starts at zero and no step lowers it.
  `NeverStuck` (`EmptyOrSeeded`) needs more: that LP tokens are conserved, `lp_supply` being the total of all
  LP accounts. Otherwise holders could burn more than there is and drag the supply below the locked balance. The total is
  the size of a set of units (`Totals`), so its lemmas come from the library's theorems about finite sets.
  `OnlyWhenPermitted` adds that a thawed account is Allowed. `VaultImplemented` is step simulation from both invariants, and
  `NoRun` (`NobodyRunsFirst`) builds on it: joining and leaving keep what one share claims of each side, and the floor of a larger claim is
  not less. Share value alone would not do: it bounds the product, and a product can rise while one side falls.
* **The way out** (`AmmTheorems`). `RechecksHold` needs the types alone: whatever the state, the checks a handler
  makes first imply those it makes again, on balances and on the LP supply, so the second ones refuse nothing. `ExitStaysOpen` needs
  everything above: the vault covers the payout because the pool is solvent; the supply stays above the locked balance
  because two LP accounts hold no more than the supply; and no side is emptied because the locked part is positive.
* **Mint** (`StablecoinTheorems`). `TypeCorrect`, `CapHolds`, `CountersHold`, `AllowlistHolds`, `PauseHolds`, `BlockHolds`.
  The inductive invariant adds to the properties that the two pause flags are equal, that an account
  without a policy is not thawed, that nothing has been minted before the configuration exists, and that the admin is a
  key somebody holds. The first turns a pause the program records into one that Token-2022 enforces; the third covers
  `initialize_stablecoin`, which resets the counters; the last makes `SomebodyInControl` a matter of guards.
  `ComplianceAnswered` is a case split on what Token-2022 has an account in and what was recorded of it.
  `IssuanceHolds` sums over the open roles, with the
  lemmas of `TotalsTheorems` on adding, changing and removing one of them; `SupplyConserved` sums over the
  accounts. `LedgerImplemented` is step simulation.
* **Both programs** (`SystemTheorems`). `SystemInvariant` says that the two instances satisfy their own inductive
  invariant and that the vaults are open exactly when the pool exists. `SystemImplementsAmm` then takes every step of either
  stablecoin to an action of `Amm`'s environment or a stutter. That each side of the system is a `Stablecoin` holds by the way the pool's
  actions are written (lemma `MintsRun`). The theorems on `Amm` and `Stablecoin` thereby
  hold of the composed system, which `PoolStaysSound`, `HoldersStayWhole`, `MintsStaySound` and `MintsStandStill`
  state. `ReservesCovered` is about neither part alone: the reserves are held (the pool's solvency),
  what is held has been issued (`SupplyConserved` of each mint), what has been issued is within the cap.
* **Logs** (`StablecoinTheorems`, `CallerTheorems`). `LogIsComplete` and `BooksAlwaysBalance`: what the reader believes is what is
  so, which is inductive once the type of the view is added, and that nobody is nominated before the mint
  exists, because the event of creation does not report a nomination. What owners do without the program
  only lowers the supply below what the reader believes. A pool's reader who goes by the supply last reported has an upper bound, too
  high by at most `forfeited`; one who adds up the LP tokens reported as minted and burned is off by exactly `forfeited`, and by
  the locked minimum, which no event reports.
* **Identities** (`AddressTheorems`). `SymbolsDiffer`, `PoolsDiffer`, `RolesApart`, `PairsCanTrade`. Two normalized symbols with the
  same text are the same bytes, because what follows the text can only be NULs; a pool's mints are
  in order, so a pair has one. A pair can trade because the accounts of a pool are in use only if that pool is.
* **Account creation** (`AddressTheorems`). `CreationInvariant` says, for any list of accounts, where a transaction is: those before `at` are
  finished, those after it as they were found, the one at `at` prepared as far as `step` says, and the payer has paid what was missing
  of all funded so far, a sum over them. The payer's own remainder is checked at the end, so *can afford* means: exactly what is missing, or that and the payer's rent. `NobodySquats`, `NothingPaidTwice` and `EveryAccountCreated` follow: strangers only ever
  add lamports to addresses owned by the system program, and every call of the sequence accepts that.
* **A caller** (`CallerTheorems`). `NewtonIsExact`: the iteration of the script goes down while it is above the root and
  never below it, so where it stops is the integer square root, which is also what `integer_sqrt` returns. The iteration is
  recursive; that it has a value everywhere is proved by a least counterexample. `QuotesAgree` and
  `ToleranceKept` rest on `ScriptInv`: at each `await` the script's variables are what the pool offered at the fetch, and still
  offers if nobody has touched it.

Only model-checked: the liveness property `Returns`, which the prover cannot treat. The three runs that end in a
violation are counterexamples and need no proof.

## 5. What is not modelled

* Error numbers, names, URIs and the text of the metadata: no other state depends on them.
* `ensure_children` and `ensure_locked_account`: the addresses are PDAs and the pool holds their authorities, so
  the model, with one account of each kind, satisfies them by construction.
* The equality of decimals in `initialize_pool`: both mints have a config, and every stablecoin has `STABLECOIN_DECIMALS`.
* `SetAuthority` on a token account (a new owner keeps the policy, which names the account),
  delegates, and the upgrade authority, which the repository lists as a trust root.
* The fields `updated_at`, `updated_by` and `owner` of a policy, and the keys and timestamps that only label an event.
* In `scripts/demo.ts`, setup, printing and address checks.

One observation on redundancy: several guards of the pool are backed a second time by
Token-2022. Dropping the pause check or the check of one policy leaves most properties
intact, because the transfer is refused anyway. `ReservesMoveOnlyWhenPermitted` is about the
combined effect; that a *vault* may be blocked is left to the freeze alone.

## 6. Plan

Done: all modules of section 2 and the theorems of section 4. What could follow:

1. A `System` with more than one pool sharing a stablecoin; `Registry` shows that their addresses do
   not meet, and to a stablecoin each pool is one more owner.
2. `SetAuthority` and delegates of token accounts in `Stablecoin`.
3. `Client` over `System` rather than `Amm`, so that an issuer may pause or block while the script runs.
