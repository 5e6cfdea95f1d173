----------------------------- MODULE Stablecoin -----------------------------
(***************************************************************************)
(* One mint of the stablecoin program: its MintConfig, MinterRole and      *)
(* WalletPolicy accounts, the Token-2022 mint and the token accounts.      *)
(*                                                                         *)
(* An instruction is one step (the chain undoes a failed one as a whole).  *)
(* Every mint-level authority is the config PDA, so only the program's     *)
(* instructions mint, freeze, thaw or pause; but owners open and close     *)
(* their accounts, transfer and burn through Token-2022 directly, without  *)
(* the program seeing it, between any two of its instructions.             *)
(***************************************************************************)
EXTENDS Totals

CONSTANTS
    Keys,           \* keys somebody can sign with
    LostKey,        \* a mistyped key: well formed, but nobody can sign with it
    DefaultKey,     \* Pubkey::default
    None,           \* Option::None
    Accounts,       \* addresses of token accounts of this mint
    MAX_SUPPLY_CAP,
    Caps,           \* supply caps a caller may ask for
    Amounts,        \* amounts a minter or a burner may name
    TransferAmounts,    \* amounts an owner may transfer
    Allowances,     \* allowances an admin may grant
    Authorities,    \* keys an admin may name: as minter, compliance authority, next admin
    PolicyMoves,    \* the decisions compliance may take: pairs of account and status
    PauseFlags,     \* what set_pause may be called with
    MaxGranted      \* bound of the model: the sum of all allowances ever granted

AnyKey == Keys \cup {LostKey, DefaultKey}
Status == {"Allowed", "Blocked"}

ASSUME StablecoinAssumption ==
    /\ LostKey \notin Keys /\ DefaultKey \notin Keys \cup {LostKey}
    /\ None \notin AnyKey \cup Nat
    /\ MAX_SUPPLY_CAP \in Nat /\ MaxGranted \in Nat
    /\ Caps \subseteq Nat /\ Amounts \subseteq Nat /\ Allowances \subseteq Nat
    /\ TransferAmounts \subseteq Nat
    /\ Authorities \subseteq AnyKey
    /\ PolicyMoves \subseteq Accounts \X Status
    /\ PauseFlags \subseteq BOOLEAN

VARIABLES
    initialized,            \* the mint and its MintConfig exist
    admin,                  \* MintConfig.admin
    pending_admin,          \* MintConfig.pending_admin
    compliance_authority,   \* MintConfig.compliance_authority
    supply_cap,             \* MintConfig.supply_cap
    total_minted,           \* MintConfig.total_minted
    total_burned,           \* MintConfig.total_burned
    paused,                 \* MintConfig.paused
    minters,                \* authorities with an open MinterRole
    allowance, minted,      \* MinterRole.allowance and .minted, by authority
    policy,                 \* WalletPolicy.status by account, "None" when there is none
    mint_supply,            \* the live Token-2022 supply
    mint_paused,            \* the flag of the mint's Pausable extension
    state,                  \* state of each token account: "Closed", "Frozen" or "Thawed"
    balance,                \* amount in each token account
    granted,                \* history: allowances granted so far
    retired                 \* history: what revoked roles had minted (MinterRevoked.minted)

rotationVars == <<admin, pending_admin, compliance_authority>>
configVars == <<initialized, rotationVars, supply_cap, total_minted, total_burned, paused>>
roleVars == <<minters, allowance, minted, granted, retired>>
mintVars == <<mint_supply, mint_paused>>
accountVars == <<state, balance>>
vars == <<configVars, roleVars, mintVars, accountVars, policy>>

Init ==
    /\ initialized = FALSE
    /\ admin = DefaultKey /\ pending_admin = None /\ compliance_authority = DefaultKey
    /\ supply_cap = 0 /\ total_minted = 0 /\ total_burned = 0 /\ paused = FALSE
    /\ minters = {}
    /\ allowance = [k \in AnyKey |-> 0] /\ minted = [k \in AnyKey |-> 0]
    /\ policy = [x \in Accounts |-> "None"]
    /\ mint_supply = 0 /\ mint_paused = FALSE
    /\ state = [x \in Accounts |-> "Closed"]
    /\ balance = [x \in Accounts |-> 0]
    /\ granted = 0 /\ retired = 0

-----------------------------------------------------------------------------
(* Token-2022, as the program and the owners call it.                      *)

TokenMint(x, n) ==
    /\ ~mint_paused /\ state[x] = "Thawed"
    /\ balance' = [balance EXCEPT ![x] = @ + n]
    /\ mint_supply' = mint_supply + n

TokenBurn(x, n) ==
    /\ ~mint_paused /\ state[x] = "Thawed"
    /\ balance[x] >= n /\ mint_supply >= n
    /\ balance' = [balance EXCEPT ![x] = @ - n]
    /\ mint_supply' = mint_supply - n

(* Freezing what is frozen and thawing what is thawed are errors.          *)
CanFreeze(x) == state[x] = "Thawed"
CanThaw(x)   == state[x] = "Frozen"
TokenFreeze(x) == CanFreeze(x) /\ state' = [state EXCEPT ![x] = "Frozen"]
TokenThaw(x)   == CanThaw(x) /\ state' = [state EXCEPT ![x] = "Thawed"]

-----------------------------------------------------------------------------
(* ensure_supply_tracked: the tracked outstanding supply bounds the live   *)
(* one.                                                                    *)
SupplyTracked(total_in, total_out, supply) == total_in - total_out >= supply

SupportedCap(cap) == cap > 0 /\ cap <= MAX_SUPPLY_CAP

InitializeStablecoin(payer, cap) ==
    /\ ~initialized
    /\ SupportedCap(cap)
    /\ initialized' = TRUE
    /\ admin' = payer /\ pending_admin' = None /\ compliance_authority' = payer
    /\ supply_cap' = cap /\ total_minted' = 0 /\ total_burned' = 0 /\ paused' = FALSE
    /\ UNCHANGED <<roleVars, mintVars, accountVars, policy>>

GrantMinter(signer, authority, limit) ==
    /\ initialized /\ signer = admin
    /\ authority \notin minters         \* `init` refuses an account that exists
    /\ limit > 0
    /\ authority # DefaultKey
    /\ granted + limit <= MaxGranted
    /\ minters' = minters \cup {authority}
    /\ allowance' = [allowance EXCEPT ![authority] = limit]
    /\ minted' = [minted EXCEPT ![authority] = 0]
    /\ granted' = granted + limit
    /\ UNCHANGED <<configVars, retired, mintVars, accountVars, policy>>

(* Closing the role forgets what it has minted.                            *)
RevokeMinter(signer, authority) ==
    /\ initialized /\ signer = admin
    /\ authority \in minters
    /\ minters' = minters \ {authority}
    /\ retired' = retired + minted[authority]
    /\ allowance' = [allowance EXCEPT ![authority] = 0]
    /\ minted' = [minted EXCEPT ![authority] = 0]
    /\ UNCHANGED <<configVars, granted, mintVars, accountVars, policy>>

SetWalletPolicyNoFreeze_Faulty(signer, x, status) ==
    /\ initialized /\ signer = compliance_authority
    /\ state[x] # "Closed"
    /\ IF status = "Allowed" /\ state[x] = "Frozen" THEN TokenThaw(x) ELSE UNCHANGED state
    /\ policy' = [policy EXCEPT ![x] = status]
    /\ UNCHANGED <<configVars, roleVars, mintVars, balance>>

CanSetWalletPolicyCached_Faulty(signer, x, status) ==
    /\ initialized /\ signer = compliance_authority
    /\ state[x] # "Closed"
    /\ status # policy[x] => IF status = "Blocked" THEN CanFreeze(x) ELSE CanThaw(x)

(* The account's actual state tells whether to call Token-2022, not the    *)
(* policy recorded before.                                                 *)
MustChange(x, status) == (status = "Blocked") # (state[x] = "Frozen")

CanSetWalletPolicy(signer, x, status) ==
    /\ initialized /\ signer = compliance_authority
    /\ state[x] # "Closed"
    /\ MustChange(x, status) => IF status = "Blocked" THEN CanFreeze(x) ELSE CanThaw(x)

SetWalletPolicy(signer, x, status) ==
    /\ CanSetWalletPolicy(signer, x, status)
    /\ IF MustChange(x, status)
       THEN IF status = "Blocked" THEN TokenFreeze(x) ELSE TokenThaw(x)
       ELSE UNCHANGED state
    /\ policy' = [policy EXCEPT ![x] = status]
    /\ UNCHANGED <<configVars, roleVars, mintVars, balance>>

MintToPerCall_Faulty(minter, x, n) ==
    /\ initialized /\ minter \in minters
    /\ n > 0
    /\ ~paused
    /\ policy[x] = "Allowed"
    /\ SupplyTracked(total_minted, total_burned, mint_supply)
    /\ n <= allowance[minter]
    /\ mint_supply + n <= supply_cap
    /\ TokenMint(x, n)
    /\ minted' = [minted EXCEPT ![minter] = @ + n]
    /\ total_minted' = total_minted + n
    /\ UNCHANGED <<initialized, rotationVars, supply_cap, total_burned, paused,
                   minters, allowance, granted, retired, mint_paused, state, policy>>

MintToUncounted_Faulty(minter, x, n) ==
    /\ initialized /\ minter \in minters
    /\ n > 0
    /\ ~paused
    /\ policy[x] = "Allowed"
    /\ minted[minter] + n <= allowance[minter]
    /\ mint_supply + n <= supply_cap
    /\ TokenMint(x, n)
    /\ minted' = [minted EXCEPT ![minter] = @ + n]
    /\ UNCHANGED <<configVars, minters, allowance, granted, retired, mint_paused, state, policy>>

MintTo(minter, x, n) ==
    /\ initialized /\ minter \in minters
    /\ n > 0
    /\ ~paused
    /\ policy[x] = "Allowed"
    /\ SupplyTracked(total_minted, total_burned, mint_supply)
    /\ minted[minter] + n <= allowance[minter]
    /\ mint_supply + n <= supply_cap
    /\ TokenMint(x, n)
    /\ mint_supply' = mint_supply + n    \* else CounterInvariantViolation
    /\ minted' = [minted EXCEPT ![minter] = @ + n]
    /\ total_minted' = total_minted + n
    /\ SupplyTracked(total_minted', total_burned, mint_supply + n)
    /\ UNCHANGED <<initialized, rotationVars, supply_cap, total_burned, paused,
                   minters, allowance, granted, retired, mint_paused, state, policy>>

(* Signed by the owner of account x.                                       *)
Burn(x, n) ==
    /\ initialized
    /\ n > 0
    /\ ~paused
    /\ SupplyTracked(total_minted, total_burned, mint_supply)
    /\ TokenBurn(x, n)
    /\ mint_supply' = mint_supply - n    \* else CounterInvariantViolation
    /\ total_burned' = total_burned + n
    /\ SupplyTracked(total_minted, total_burned', mint_supply - n)
    /\ UNCHANGED <<initialized, rotationVars, supply_cap, total_minted, paused,
                   roleVars, mint_paused, state, policy>>

SetPauseMirrorOnly_Faulty(signer, on) ==
    /\ initialized /\ signer \in {admin, compliance_authority}
    /\ paused # on
    /\ paused' = on
    /\ UNCHANGED <<initialized, rotationVars, supply_cap, total_minted, total_burned,
                   roleVars, mintVars, accountVars, policy>>

CanSetPause(signer, on) ==
    /\ initialized /\ signer \in {admin, compliance_authority}
    /\ mint_paused = paused             \* else PauseStateDrift
    /\ mint_paused # on

SetPause(signer, on) ==
    /\ CanSetPause(signer, on)
    /\ mint_paused' = on
    /\ paused' = on
    /\ UNCHANGED <<initialized, rotationVars, supply_cap, total_minted, total_burned,
                   roleVars, mint_supply, accountVars, policy>>

UpdateConfigUnchecked_Faulty(signer, cap, authority, nominee) ==
    /\ initialized /\ signer = admin
    /\ cap # None => SupportedCap(cap)
    /\ supply_cap' = IF cap = None THEN supply_cap ELSE cap
    /\ compliance_authority' = IF authority = None THEN compliance_authority ELSE authority
    /\ pending_admin' = IF nominee = None THEN pending_admin ELSE nominee
    /\ UNCHANGED <<initialized, admin, total_minted, total_burned, paused,
                   roleVars, mintVars, accountVars, policy>>

UpdateConfigOneStep_Faulty(signer, cap, authority, nominee) ==
    /\ initialized /\ signer = admin
    /\ nominee # None /\ nominee # DefaultKey
    /\ admin' = nominee
    /\ UNCHANGED <<initialized, pending_admin, compliance_authority, supply_cap,
                   total_minted, total_burned, paused, roleVars, mintVars, accountVars, policy>>

(* Each of the three arguments is optional.                                *)
CanUpdateConfig(signer, cap, authority, nominee) ==
    /\ initialized /\ signer = admin
    /\ ~(cap = None /\ authority = None /\ nominee = None)
    /\ cap # None => /\ SupportedCap(cap)
                     /\ SupplyTracked(total_minted, total_burned, mint_supply)
                     /\ cap >= mint_supply
    /\ authority # DefaultKey
    /\ nominee # DefaultKey /\ nominee # admin

UpdateConfig(signer, cap, authority, nominee) ==
    /\ CanUpdateConfig(signer, cap, authority, nominee)
    /\ supply_cap' = IF cap = None THEN supply_cap ELSE cap
    /\ compliance_authority' = IF authority = None THEN compliance_authority ELSE authority
    /\ pending_admin' = IF nominee = None THEN pending_admin ELSE nominee
    /\ UNCHANGED <<initialized, admin, total_minted, total_burned, paused,
                   roleVars, mintVars, accountVars, policy>>

AcceptAdmin(signer) ==
    /\ initialized
    /\ pending_admin = signer
    /\ admin' = signer
    /\ pending_admin' = None
    /\ UNCHANGED <<initialized, compliance_authority, supply_cap, total_minted, total_burned,
                   paused, roleVars, mintVars, accountVars, policy>>

-----------------------------------------------------------------------------
(* What owners do through Token-2022 alone.                                *)

(* DefaultAccountState: every account opens frozen, even at an address     *)
(* that had one before, where a policy may still be stored.                *)
OpenAccount(x) ==
    /\ initialized
    /\ state[x] = "Closed"
    /\ state' = [state EXCEPT ![x] = "Frozen"]
    /\ UNCHANGED <<configVars, roleVars, mintVars, balance, policy>>

CloseAccount(x) ==
    /\ state[x] # "Closed" /\ balance[x] = 0
    /\ state' = [state EXCEPT ![x] = "Closed"]
    /\ UNCHANGED <<configVars, roleVars, mintVars, balance, policy>>

Transfer(x, y, n) ==
    /\ x # y /\ n > 0
    /\ ~mint_paused
    /\ state[x] = "Thawed" /\ state[y] = "Thawed"
    /\ balance[x] >= n
    /\ balance' = [balance EXCEPT ![x] = @ - n, ![y] = @ + n]
    /\ UNCHANGED <<configVars, roleVars, mintVars, state, policy>>

DirectBurn(x, n) ==
    /\ n > 0
    /\ TokenBurn(x, n)
    /\ UNCHANGED <<configVars, roleVars, mint_paused, state, policy>>

-----------------------------------------------------------------------------
ProgramStep ==
    \/ \E payer \in Keys, cap \in Caps : InitializeStablecoin(payer, cap)
    \/ \E signer \in Keys, authority \in Authorities, limit \in Allowances :
           GrantMinter(signer, authority, limit)
    \/ \E signer \in Keys, authority \in Authorities : RevokeMinter(signer, authority)
    \/ \E signer \in Keys, move \in PolicyMoves : SetWalletPolicy(signer, move[1], move[2])
    \/ \E minter \in Keys, x \in Accounts, n \in Amounts : MintTo(minter, x, n)
    \/ \E x \in Accounts, n \in Amounts : Burn(x, n)
    \/ \E signer \in Keys, on \in PauseFlags : SetPause(signer, on)
    \/ \E signer \in Keys, cap \in Caps \cup {None}, authority, nominee \in Authorities \cup {None} :
           UpdateConfig(signer, cap, authority, nominee)
    \/ \E signer \in Keys : AcceptAdmin(signer)

OwnerStep ==
    \/ \E x \in Accounts : OpenAccount(x) \/ CloseAccount(x)
    \/ \E x, y \in Accounts, n \in TransferAmounts : Transfer(x, y, n)
    \/ \E x \in Accounts, n \in Amounts : DirectBurn(x, n)

Next == ProgramStep \/ OwnerStep

Spec == Init /\ [][Next]_vars

-----------------------------------------------------------------------------
(* Type invariant.  No authority is ever the default key once the mint     *)
(* exists.                                                                 *)
TypeOK ==
    /\ initialized \in BOOLEAN /\ paused \in BOOLEAN /\ mint_paused \in BOOLEAN
    /\ admin \in AnyKey /\ compliance_authority \in AnyKey
    /\ pending_admin \in Keys \cup {LostKey, None}
    /\ initialized => compliance_authority # DefaultKey
    /\ supply_cap \in 0 .. MAX_SUPPLY_CAP
    /\ total_minted \in Nat /\ total_burned \in Nat /\ mint_supply \in Nat
    /\ minters \subseteq AnyKey \ {DefaultKey}
    /\ allowance \in [AnyKey -> Nat] /\ minted \in [AnyKey -> Nat]
    /\ policy \in [Accounts -> Status \cup {"None"}]
    /\ state \in [Accounts -> {"Closed", "Frozen", "Thawed"}]
    /\ balance \in [Accounts -> Nat]
    /\ granted \in Nat /\ retired \in Nat

(* The live supply stays within the cap, whatever the order of mints,      *)
(* burns the program never sees, and changes of the cap (README.md,        *)
(* security invariants).                                                   *)
SupplyWithinCap == mint_supply <= supply_cap /\ supply_cap <= MAX_SUPPLY_CAP

(* What the counters say is outstanding is never less than the live        *)
(* supply: direct burns only widen the gap, and mint_to, burn and          *)
(* update_config never refuse for CounterInvariantViolation                *)
(* (ensure_supply_tracked).                                                *)
OutstandingCoversSupply == SupplyTracked(total_minted, total_burned, mint_supply)

(* Every token ever minted is charged to exactly one role, open or revoked *)
(* (and then reported by its MinterRevoked event); no role, whatever was   *)
(* revoked and granted again, mints beyond its allowance; so the total     *)
(* stays within what admins have granted.                                  *)
IssuanceAccounted ==
    /\ total_minted = retired + Total(minted, minters)
    /\ \A k \in minters : minted[k] <= allowance[k]
    /\ total_minted <= granted

(* An account is thawed only while its recorded policy is Allowed, and     *)
(* holds tokens only if compliance has decided on it: nobody opens,        *)
(* reopens or funds an account around the allowlist (README.md, authority  *)
(* model).                                                                 *)
DefaultDeny ==
    \A x \in Accounts :
        /\ state[x] = "Thawed" => policy[x] = "Allowed"
        /\ balance[x] > 0 => policy[x] # "None"

(* Each wallet policy agrees with the account's actual frozen state        *)
(* (README.md:103).  An account that is closed and opened again is frozen  *)
(* under a policy that still reads Allowed.                                *)
PolicyMatchesFrozenState ==
    \A x \in Accounts :
        state[x] # "Closed" /\ policy[x] # "None"
            => (state[x] = "Frozen") = (policy[x] = "Blocked")

(* The program refuses compliance no decision about an open account,       *)
(* whatever state Token-2022 has it in and even while paused.              *)
ComplianceNeverRefused ==
    initialized =>
        \A x \in Accounts, status \in Status :
            state[x] # "Closed" => CanSetWalletPolicy(compliance_authority, x, status)

(* No typo strands the mint: the admin is always a key somebody holds, and *)
(* can always nominate again, replace a lost compliance authority, and     *)
(* pause or resume (README.md, authority model).                           *)
AdminNeverStranded ==
    initialized =>
        /\ admin \in Keys
        /\ \A k \in Keys : /\ CanUpdateConfig(admin, None, k, None)
                           /\ k # admin => CanUpdateConfig(admin, None, None, k)
        /\ CanSetPause(admin, ~paused)

(* While the config says paused, nothing moves: not by the program's       *)
(* instructions, nor by owners who call Token-2022 directly (README.md,    *)
(* Pausable).                                                              *)
PausedMeansStill == [][paused => UNCHANGED <<balance, mint_supply>>]_vars

(* Tokens in a blocked account stay where they are until compliance allows *)
(* it again.                                                               *)
BlockedStaysPut ==
    [][\A x \in Accounts : policy[x] = "Blocked" => balance'[x] = balance[x]]_vars

(* Refinement.  Behind authorities, roles, policies, frozen flags and two  *)
(* pause flags, a stablecoin is a capped ledger: it implements             *)
(* CappedLedger, read through what the program records (the policies and   *)
(* the config), although it is Token-2022 that stops a transfer and the    *)
(* program is not asked (README.md, security invariants).                  *)
Ledger == INSTANCE CappedLedger WITH
    Quantities <- Amounts \cup TransferAmounts, Limits <- Caps, GreatestCap <- MAX_SUPPLY_CAP,
    supply <- mint_supply, cap <- supply_cap, holding <- balance,
    allowed <- {x \in Accounts : policy[x] = "Allowed"}, halted <- paused

ImplementsLedger == Ledger!Spec
=============================================================================
