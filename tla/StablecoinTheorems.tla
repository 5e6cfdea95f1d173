------------------------- MODULE StablecoinTheorems -------------------------
(***************************************************************************)
(* Theorems about module Stablecoin, for any keys, accounts and amounts    *)
(* that satisfy StablecoinAssumption.                                      *)
(***************************************************************************)
EXTENDS MintEvents, TotalsTheorems, TLAPS

(* The mirror of the pause flag never drifts, which is what lets           *)
(* config.paused speak for Token-2022.                                     *)
PauseMirrored == paused = mint_paused

(* Before the mint exists there is nothing to pause, hold or spend.        *)
NothingBeforeMint ==
    ~initialized => /\ mint_supply = 0 /\ ~mint_paused
                    /\ total_minted = 0 /\ total_burned = 0

AdminIsHeld == initialized => admin \in Keys

WithinAllowance == \A k \in AnyKey : minted[k] <= allowance[k]

IInv ==
    /\ TypeOK
    /\ SupplyWithinCap
    /\ OutstandingCoversSupply
    /\ DefaultDeny
    /\ PauseMirrored
    /\ NothingBeforeMint
    /\ AdminIsHeld
    /\ WithinAllowance

(* What no step may do: move tokens while paused, or out of or into a      *)
(* blocked account.                                                        *)
StillStep ==
    /\ paused => UNCHANGED <<balance, mint_supply>>
    /\ \A x \in Accounts : policy[x] = "Blocked" => balance'[x] = balance[x]

StepFacts == IInv' /\ StillStep

LEMMA InitIsInductive ==
    ASSUME Init
    PROVE  IInv
<1>1. DefaultKey \in AnyKey
  BY DEF AnyKey
<1>2. 0 \in 0 .. MAX_SUPPLY_CAP /\ 0 \in Nat /\ 0 - 0 >= 0
  BY StablecoinAssumption
<1>3. allowance \in [AnyKey -> Nat] /\ minted \in [AnyKey -> Nat]
  BY DEF Init
<1>4. /\ policy \in [Accounts -> Status \cup {"None"}]
      /\ state \in [Accounts -> {"Closed", "Frozen", "Thawed"}]
      /\ balance \in [Accounts -> Nat]
  BY DEF Init
<1>5. TypeOK
  BY <1>1, <1>2, <1>3, <1>4 DEF Init, TypeOK
<1>6. SupplyWithinCap /\ OutstandingCoversSupply
  BY <1>2, StablecoinAssumption DEF Init, SupplyWithinCap, OutstandingCoversSupply, SupplyTracked
<1>7. DefaultDeny
  BY DEF Init, DefaultDeny
<1>8. PauseMirrored /\ NothingBeforeMint /\ AdminIsHeld
  BY DEF Init, PauseMirrored, NothingBeforeMint, AdminIsHeld
<1>9. WithinAllowance
  BY DEF Init, WithinAllowance
<1> QED
  BY <1>5, <1>6, <1>7, <1>8, <1>9 DEF IInv

(* The types, spelled out for the steps below.                             *)
LEMMA Types ==
    ASSUME TypeOK
    PROVE  /\ initialized \in BOOLEAN /\ paused \in BOOLEAN /\ mint_paused \in BOOLEAN
           /\ admin \in AnyKey /\ compliance_authority \in AnyKey
           /\ pending_admin \in Keys \cup {LostKey, None}
           /\ supply_cap \in Nat /\ supply_cap <= MAX_SUPPLY_CAP
           /\ total_minted \in Nat /\ total_burned \in Nat /\ mint_supply \in Nat
           /\ minters \subseteq AnyKey \ {DefaultKey}
           /\ allowance \in [AnyKey -> Nat] /\ minted \in [AnyKey -> Nat]
           /\ policy \in [Accounts -> Status \cup {"None"}]
           /\ state \in [Accounts -> {"Closed", "Frozen", "Thawed"}]
           /\ balance \in [Accounts -> Nat]
           /\ granted \in Nat /\ retired \in Nat
  BY StablecoinAssumption DEF TypeOK

LEMMA Constants ==
    /\ Keys \subseteq AnyKey /\ LostKey \in AnyKey /\ DefaultKey \notin Keys
    /\ None \notin Nat /\ None \notin AnyKey
    /\ MAX_SUPPLY_CAP \in Nat
    /\ Caps \subseteq Nat /\ Amounts \subseteq Nat /\ Allowances \subseteq Nat
    /\ TransferAmounts \subseteq Nat /\ PauseFlags \subseteq BOOLEAN
    /\ PolicyMoves \subseteq Accounts \X Status
    /\ Authorities \subseteq AnyKey
    /\ AnyKey \ {DefaultKey} = Keys \cup {LostKey}
  BY StablecoinAssumption DEF AnyKey

-----------------------------------------------------------------------------
(* Instructions that change the configuration or the roles, not balances.  *)

LEMMA InitializeStablecoinStep ==
    ASSUME IInv, NEW payer \in Keys, NEW cap \in Caps, InitializeStablecoin(payer, cap)
    PROVE  StepFacts
<1>1. /\ ~initialized /\ cap \in Nat /\ cap > 0 /\ cap <= MAX_SUPPLY_CAP
      /\ initialized' = TRUE /\ admin' = payer /\ pending_admin' = None
      /\ compliance_authority' = payer /\ supply_cap' = cap
      /\ total_minted' = 0 /\ total_burned' = 0 /\ paused' = FALSE
      /\ UNCHANGED <<minters, allowance, minted, granted, retired, mint_supply, mint_paused,
                     state, balance, policy>>
  BY Constants DEF InitializeStablecoin, SupportedCap, roleVars, mintVars, accountVars
<1>2. mint_supply = 0 /\ ~mint_paused
  BY <1>1 DEF IInv, NothingBeforeMint
<1>3. TypeOK'
  <2>1. supply_cap' \in 0 .. MAX_SUPPLY_CAP /\ total_minted' \in Nat /\ total_burned' \in Nat
    BY <1>1, Constants
  <2>2. admin' \in AnyKey /\ compliance_authority' \in AnyKey /\ compliance_authority' # DefaultKey
    BY <1>1, Constants
  <2> QED
    BY <1>1, <2>1, <2>2 DEF IInv, TypeOK
<1>4. SupplyWithinCap' /\ OutstandingCoversSupply'
  BY <1>1, <1>2 DEF SupplyWithinCap, OutstandingCoversSupply, SupplyTracked
<1>5. DefaultDeny' /\ WithinAllowance'
  BY <1>1 DEF IInv, DefaultDeny, WithinAllowance
<1>6. PauseMirrored' /\ NothingBeforeMint' /\ AdminIsHeld'
  BY <1>1, <1>2, Types DEF IInv, PauseMirrored, NothingBeforeMint, AdminIsHeld
<1> QED
  BY <1>1, <1>3, <1>4, <1>5, <1>6 DEF IInv, StepFacts, StillStep

LEMMA GrantMinterStep ==
    ASSUME IInv, NEW signer \in Keys, NEW authority \in Authorities, NEW limit \in Allowances,
           GrantMinter(signer, authority, limit)
    PROVE  StepFacts
<1>1. /\ authority \in AnyKey \ {DefaultKey} /\ limit \in Nat
      /\ minters' = minters \cup {authority}
      /\ allowance' = [allowance EXCEPT ![authority] = limit]
      /\ minted' = [minted EXCEPT ![authority] = 0]
      /\ granted' = granted + limit
      /\ UNCHANGED <<initialized, admin, pending_admin, compliance_authority, supply_cap,
                     total_minted, total_burned, paused, retired, mint_supply, mint_paused,
                     state, balance, policy>>
  BY Constants DEF GrantMinter, configVars, rotationVars, mintVars, accountVars
<1>2. allowance' \in [AnyKey -> Nat] /\ minted' \in [AnyKey -> Nat]
  BY <1>1, Types DEF IInv
<1>3. TypeOK'
  BY <1>1, <1>2 DEF IInv, TypeOK
<1>4. WithinAllowance'
  BY <1>1, Types DEF IInv, WithinAllowance
<1> QED
  BY <1>1, <1>3, <1>4 DEF IInv, StepFacts, StillStep, SupplyWithinCap, OutstandingCoversSupply,
                          SupplyTracked, DefaultDeny, PauseMirrored, NothingBeforeMint, AdminIsHeld

LEMMA RevokeMinterStep ==
    ASSUME IInv, NEW signer \in Keys, NEW authority \in Authorities,
           RevokeMinter(signer, authority)
    PROVE  StepFacts
<1>1. /\ authority \in AnyKey
      /\ minters' = minters \ {authority}
      /\ retired' = retired + minted[authority]
      /\ allowance' = [allowance EXCEPT ![authority] = 0]
      /\ minted' = [minted EXCEPT ![authority] = 0]
      /\ UNCHANGED <<initialized, admin, pending_admin, compliance_authority, supply_cap,
                     total_minted, total_burned, paused, granted, mint_supply, mint_paused,
                     state, balance, policy>>
  BY Constants DEF RevokeMinter, configVars, rotationVars, mintVars, accountVars
<1>2. allowance' \in [AnyKey -> Nat] /\ minted' \in [AnyKey -> Nat] /\ retired' \in Nat
  BY <1>1, Types DEF IInv
<1>3. TypeOK'
  BY <1>1, <1>2 DEF IInv, TypeOK
<1>4. WithinAllowance'
  BY <1>1, Types DEF IInv, WithinAllowance
<1> QED
  BY <1>1, <1>3, <1>4 DEF IInv, StepFacts, StillStep, SupplyWithinCap, OutstandingCoversSupply,
                          SupplyTracked, DefaultDeny, PauseMirrored, NothingBeforeMint, AdminIsHeld

LEMMA SetPauseStep ==
    ASSUME IInv, NEW signer \in Keys, NEW on \in BOOLEAN, SetPause(signer, on)
    PROVE  StepFacts
<1>1. /\ initialized /\ mint_paused' = on /\ paused' = on
      /\ UNCHANGED <<initialized, admin, pending_admin, compliance_authority, supply_cap,
                     total_minted, total_burned, minters, allowance, minted, granted, retired,
                     mint_supply, state, balance, policy>>
  BY DEF SetPause, CanSetPause, rotationVars, roleVars, accountVars
<1>2. TypeOK'
  BY <1>1 DEF IInv, TypeOK
<1> QED
  BY <1>1, <1>2 DEF IInv, StepFacts, StillStep, SupplyWithinCap, OutstandingCoversSupply,
                    SupplyTracked, DefaultDeny, PauseMirrored, NothingBeforeMint, AdminIsHeld,
                    WithinAllowance

LEMMA UpdateConfigStep ==
    ASSUME IInv, NEW signer \in Keys, NEW cap \in Caps \cup {None},
           NEW authority \in Authorities \cup {None}, NEW nominee \in Authorities \cup {None},
           UpdateConfig(signer, cap, authority, nominee)
    PROVE  StepFacts
<1>1. /\ initialized
      /\ cap # None => cap > 0 /\ cap <= MAX_SUPPLY_CAP /\ cap >= mint_supply
      /\ authority # DefaultKey /\ nominee # DefaultKey
      /\ supply_cap' = IF cap = None THEN supply_cap ELSE cap
      /\ compliance_authority' = IF authority = None THEN compliance_authority ELSE authority
      /\ pending_admin' = IF nominee = None THEN pending_admin ELSE nominee
      /\ UNCHANGED <<initialized, admin, total_minted, total_burned, paused, minters, allowance,
                     minted, granted, retired, mint_supply, mint_paused, state, balance, policy>>
  BY DEF UpdateConfig, CanUpdateConfig, SupportedCap, roleVars, mintVars, accountVars
<1>2. supply_cap' \in 0 .. MAX_SUPPLY_CAP /\ mint_supply <= supply_cap'
  <2>1. CASE cap = None
    BY <1>1, <2>1 DEF IInv, TypeOK, SupplyWithinCap
  <2>2. CASE cap # None
    BY <1>1, <2>2, Constants
  <2> QED
    BY <2>1, <2>2
<1>3. compliance_authority' \in AnyKey /\ compliance_authority' # DefaultKey
  BY <1>1, Constants DEF IInv, TypeOK
<1>4. pending_admin' \in Keys \cup {LostKey, None}
  BY <1>1, Constants DEF IInv, TypeOK
<1>5. TypeOK'
  BY <1>1, <1>2, <1>3, <1>4 DEF IInv, TypeOK
<1>6. SupplyWithinCap'
  BY <1>1, <1>2, Constants DEF SupplyWithinCap
<1> QED
  BY <1>1, <1>5, <1>6 DEF IInv, StepFacts, StillStep, OutstandingCoversSupply,
                          SupplyTracked, DefaultDeny, PauseMirrored, NothingBeforeMint, AdminIsHeld,
                          WithinAllowance

LEMMA AcceptAdminStep ==
    ASSUME IInv, NEW signer \in Keys, AcceptAdmin(signer)
    PROVE  StepFacts
<1>1. /\ admin' = signer /\ pending_admin' = None
      /\ UNCHANGED <<initialized, compliance_authority, supply_cap, total_minted, total_burned,
                     paused, minters, allowance, minted, granted, retired, mint_supply,
                     mint_paused, state, balance, policy>>
  BY DEF AcceptAdmin, roleVars, mintVars, accountVars
<1>2. TypeOK'
  BY <1>1, Constants DEF IInv, TypeOK
<1> QED
  BY <1>1, <1>2 DEF IInv, StepFacts, StillStep, SupplyWithinCap, OutstandingCoversSupply,
                    SupplyTracked, DefaultDeny, PauseMirrored, NothingBeforeMint, AdminIsHeld,
                    WithinAllowance

-----------------------------------------------------------------------------
(* Instructions and owner calls on token accounts.                         *)

LEMMA AccountStateStep ==
    ASSUME IInv, NEW x \in Accounts,
           \/ \E signer \in Keys, status \in Status : SetWalletPolicy(signer, x, status)
           \/ OpenAccount(x)
           \/ CloseAccount(x)
    PROVE  StepFacts
<1>1. UNCHANGED <<initialized, admin, pending_admin, compliance_authority, supply_cap,
                  total_minted, total_burned, paused, minters, allowance, minted, granted,
                  retired, mint_supply, mint_paused, balance>>
  BY DEF SetWalletPolicy, CanSetWalletPolicy, OpenAccount, CloseAccount, configVars,
         rotationVars, roleVars, mintVars
<1>2. /\ policy' \in [Accounts -> Status \cup {"None"}]
      /\ state' \in [Accounts -> {"Closed", "Frozen", "Thawed"}]
      /\ DefaultDeny'
  <2>1. ASSUME NEW signer \in Keys, NEW status \in Status, SetWalletPolicy(signer, x, status)
        PROVE  /\ policy' \in [Accounts -> Status \cup {"None"}]
               /\ state' \in [Accounts -> {"Closed", "Frozen", "Thawed"}]
               /\ DefaultDeny'
    <3>1. policy' = [policy EXCEPT ![x] = status]
      BY <2>1 DEF SetWalletPolicy, CanSetWalletPolicy
    <3>2. /\ state[x] # "Closed"
          /\ \/ /\ state' = [state EXCEPT ![x] = "Frozen"] /\ status = "Blocked"
             \/ /\ state' = [state EXCEPT ![x] = "Thawed"] /\ status # "Blocked"
             \/ /\ state' = state /\ (status = "Blocked") = (state[x] = "Frozen")
      BY <2>1 DEF SetWalletPolicy, CanSetWalletPolicy, MustChange, TokenFreeze, TokenThaw,
                  CanFreeze, CanThaw
    <3> QED
      BY <1>1, <3>1, <3>2, Types DEF IInv, DefaultDeny, Status
  <2>2. CASE OpenAccount(x)
    BY <1>1, <2>2, Types DEF OpenAccount, IInv, DefaultDeny
  <2>3. CASE CloseAccount(x)
    BY <1>1, <2>3, Types DEF CloseAccount, IInv, DefaultDeny
  <2> QED
    BY <2>1, <2>2, <2>3
<1>3. TypeOK'
  BY <1>1, <1>2 DEF IInv, TypeOK
<1> QED
  BY <1>1, <1>2, <1>3 DEF IInv, StepFacts, StillStep, SupplyWithinCap, OutstandingCoversSupply,
                          SupplyTracked, PauseMirrored, NothingBeforeMint, AdminIsHeld,
                          WithinAllowance

LEMMA MintToStep ==
    ASSUME IInv, NEW minter \in Keys, NEW x \in Accounts, NEW n \in Amounts, MintTo(minter, x, n)
    PROVE  StepFacts
<1>1. /\ initialized /\ n \in Nat /\ ~paused /\ policy[x] = "Allowed"
      /\ minted[minter] + n <= allowance[minter]
      /\ mint_supply + n <= supply_cap
      /\ balance' = [balance EXCEPT ![x] = @ + n]
      /\ mint_supply' = mint_supply + n
      /\ minted' = [minted EXCEPT ![minter] = @ + n]
      /\ total_minted' = total_minted + n
      /\ UNCHANGED <<initialized, admin, pending_admin, compliance_authority, supply_cap,
                     total_burned, paused, minters, allowance, granted, retired, mint_paused,
                     state, policy>>
  BY Constants DEF MintTo, TokenMint, rotationVars
<1>2. /\ balance' \in [Accounts -> Nat] /\ minted' \in [AnyKey -> Nat]
      /\ mint_supply' \in Nat /\ total_minted' \in Nat
  BY <1>1, Types, Constants DEF IInv
<1>3. TypeOK'
  BY <1>1, <1>2 DEF IInv, TypeOK
<1>4. SupplyWithinCap' /\ OutstandingCoversSupply'
  BY <1>1, Types DEF IInv, SupplyWithinCap, OutstandingCoversSupply, SupplyTracked
<1>5. DefaultDeny'
  BY <1>1, Types DEF IInv, DefaultDeny
<1>6. WithinAllowance'
  BY <1>1, Types, Constants DEF IInv, WithinAllowance
<1>7. StillStep
  BY <1>1, Types DEF IInv, StillStep
<1> QED
  BY <1>1, <1>3, <1>4, <1>5, <1>6, <1>7 DEF IInv, StepFacts, PauseMirrored, NothingBeforeMint,
                                            AdminIsHeld

LEMMA BurnStep ==
    ASSUME IInv, NEW x \in Accounts, NEW n \in Amounts, Burn(x, n) \/ DirectBurn(x, n)
    PROVE  StepFacts
<1>1. /\ n \in Nat /\ ~mint_paused /\ state[x] = "Thawed"
      /\ balance[x] >= n /\ mint_supply >= n
      /\ balance' = [balance EXCEPT ![x] = @ - n]
      /\ mint_supply' = mint_supply - n
      /\ total_burned' = total_burned \/ (initialized /\ total_burned' = total_burned + n)
      /\ UNCHANGED <<initialized, admin, pending_admin, compliance_authority, supply_cap,
                     total_minted, paused, minters, allowance, minted, granted, retired,
                     mint_paused, state, policy>>
  BY Constants DEF Burn, DirectBurn, TokenBurn, configVars, rotationVars, roleVars
<1>2. balance' \in [Accounts -> Nat] /\ mint_supply' \in Nat /\ total_burned' \in Nat
  BY <1>1, Types DEF IInv
<1>3. TypeOK'
  BY <1>1, <1>2 DEF IInv, TypeOK
<1>4. SupplyWithinCap' /\ OutstandingCoversSupply'
  BY <1>1, Types DEF IInv, SupplyWithinCap, OutstandingCoversSupply, SupplyTracked
<1>5. DefaultDeny'
  BY <1>1, Types DEF IInv, DefaultDeny
<1>6. StillStep
  BY <1>1, Types DEF IInv, StillStep, PauseMirrored, DefaultDeny
<1>7. NothingBeforeMint'
  BY <1>1, Types DEF IInv, NothingBeforeMint
<1> QED
  BY <1>1, <1>3, <1>4, <1>5, <1>6, <1>7 DEF IInv, StepFacts, PauseMirrored, AdminIsHeld,
                                            WithinAllowance

LEMMA TransferStep ==
    ASSUME IInv, NEW x \in Accounts, NEW y \in Accounts, NEW n \in TransferAmounts,
           Transfer(x, y, n)
    PROVE  StepFacts
<1>1. /\ n \in Nat /\ x # y /\ ~mint_paused
      /\ state[x] = "Thawed" /\ state[y] = "Thawed" /\ balance[x] >= n
      /\ balance' = [balance EXCEPT ![x] = @ - n, ![y] = @ + n]
      /\ UNCHANGED <<initialized, admin, pending_admin, compliance_authority, supply_cap,
                     total_minted, total_burned, paused, minters, allowance, minted, granted,
                     retired, mint_supply, mint_paused, state, policy>>
  BY Constants DEF Transfer, configVars, rotationVars, roleVars, mintVars
<1>2. balance' \in [Accounts -> Nat]
  BY <1>1, Types DEF IInv
<1>3. TypeOK'
  BY <1>1, <1>2 DEF IInv, TypeOK
<1>4. policy[x] = "Allowed" /\ policy[y] = "Allowed"
  BY <1>1 DEF IInv, DefaultDeny
<1>5. \A z \in Accounts \ {x, y} : balance'[z] = balance[z]
  BY <1>1, Types DEF IInv
<1>6. DefaultDeny'
  BY <1>1, <1>4, <1>5 DEF IInv, DefaultDeny
<1>7. StillStep
  BY <1>1, <1>4, <1>5 DEF IInv, StillStep, PauseMirrored
<1> QED
  BY <1>1, <1>3, <1>6, <1>7 DEF IInv, StepFacts, SupplyWithinCap, OutstandingCoversSupply,
                                SupplyTracked, PauseMirrored, NothingBeforeMint, AdminIsHeld,
                                WithinAllowance

-----------------------------------------------------------------------------
LEMMA NextKeeps ==
    ASSUME IInv, [Next]_vars
    PROVE  StepFacts
<1>1. CASE ProgramStep
  <2>1. ASSUME NEW signer \in Keys, NEW move \in PolicyMoves,
               SetWalletPolicy(signer, move[1], move[2])
        PROVE  StepFacts
    <3>1. move[1] \in Accounts /\ move[2] \in Status
      BY Constants
    <3> QED
      BY <2>1, <3>1, AccountStateStep
  <2>2. ASSUME NEW signer \in Keys, NEW on \in PauseFlags, SetPause(signer, on)
        PROVE  StepFacts
    BY <2>2, Constants, SetPauseStep
  <2> QED
    BY <1>1, <2>1, <2>2, InitializeStablecoinStep, GrantMinterStep, RevokeMinterStep,
       MintToStep, BurnStep, UpdateConfigStep, AcceptAdminStep DEF ProgramStep
<1>2. CASE OwnerStep
  BY <1>2, AccountStateStep, TransferStep, BurnStep DEF OwnerStep
<1>3. CASE UNCHANGED vars
  BY <1>3 DEF vars, configVars, rotationVars, roleVars, mintVars, accountVars, IInv, StepFacts,
              StillStep, TypeOK, SupplyWithinCap, OutstandingCoversSupply, SupplyTracked,
              DefaultDeny, PauseMirrored, NothingBeforeMint, AdminIsHeld, WithinAllowance
<1> QED
  BY <1>1, <1>2, <1>3 DEF Next

(* The invariant holds in every reachable state of the mint.               *)
THEOREM InductiveInvariant == Spec => []IInv
<1>1. Init => IInv
  BY InitIsInductive
<1>2. IInv /\ [Next]_vars => IInv'
  BY NextKeeps DEF StepFacts
<1> QED
  BY <1>1, <1>2, PTL DEF Spec

(* Amounts never go below zero, and no authority is the default key.       *)
THEOREM TypeCorrect == Spec => []TypeOK
<1>1. IInv => TypeOK
  BY DEF IInv
<1> QED
  BY <1>1, InductiveInvariant, PTL

(* The live supply never exceeds the cap, nor the cap the protocol's       *)
(* maximum, whatever is minted, burnt unseen, or reconfigured.             *)
THEOREM CapHolds == Spec => []SupplyWithinCap
<1>1. IInv => SupplyWithinCap
  BY DEF IInv
<1> QED
  BY <1>1, InductiveInvariant, PTL

(* The counters always cover the live supply, so no honest mint, burn or   *)
(* cap change is ever refused for CounterInvariantViolation.               *)
THEOREM CountersHold == Spec => []OutstandingCoversSupply
<1>1. IInv => OutstandingCoversSupply
  BY DEF IInv
<1> QED
  BY <1>1, InductiveInvariant, PTL

(* Thawed accounts are allowed ones, and balances need a decision.         *)
THEOREM AllowlistHolds == Spec => []DefaultDeny
<1>1. IInv => DefaultDeny
  BY DEF IInv
<1> QED
  BY <1>1, InductiveInvariant, PTL

(* A paused config stops every balance and the supply, for all callers.    *)
THEOREM PauseHolds == Spec => PausedMeansStill
<1>1. IInv /\ [Next]_vars => [paused => UNCHANGED <<balance, mint_supply>>]_vars
  BY NextKeeps DEF StepFacts, StillStep
<1> QED
  BY <1>1, InductiveInvariant, PTL DEF Spec, PausedMeansStill

(* Tokens in a blocked account stay where they are.                        *)
THEOREM BlockHolds == Spec => BlockedStaysPut
<1>1. IInv /\ [Next]_vars
        => [\A x \in Accounts : policy[x] = "Blocked" => balance'[x] = balance[x]]_vars
  BY NextKeeps DEF StepFacts, StillStep
<1> QED
  BY <1>1, InductiveInvariant, PTL DEF Spec, BlockedStaysPut

(* No decision of compliance about an open account is ever refused,        *)
(* whatever state Token-2022 has it in.                                    *)
THEOREM ComplianceAnswered == Spec => []ComplianceNeverRefused
<1>1. IInv => ComplianceNeverRefused
  <2> SUFFICES ASSUME IInv, initialized, NEW x \in Accounts, NEW status \in Status,
                      state[x] # "Closed"
               PROVE  CanSetWalletPolicy(compliance_authority, x, status)
    BY DEF ComplianceNeverRefused
  <2>1. state[x] \in {"Frozen", "Thawed"}
    BY Types DEF IInv
  <2> QED
    BY <2>1 DEF CanSetWalletPolicy, MustChange, CanFreeze, CanThaw, Status
<1> QED
  BY <1>1, InductiveInvariant, PTL

(* Somebody always holds the admin key, and with it can nominate again,    *)
(* replace a lost compliance authority, and pause or resume.               *)
THEOREM SomebodyInControl == Spec => []AdminNeverStranded
<1>1. IInv => AdminNeverStranded
  <2> SUFFICES ASSUME IInv, initialized
               PROVE  /\ admin \in Keys
                      /\ \A k \in Keys : /\ CanUpdateConfig(admin, None, k, None)
                                         /\ k # admin => CanUpdateConfig(admin, None, None, k)
                      /\ CanSetPause(admin, ~paused)
    BY DEF AdminNeverStranded
  <2>1. admin \in Keys /\ paused \in BOOLEAN /\ mint_paused = paused
    BY Types DEF IInv, AdminIsHeld, PauseMirrored
  <2>2. None # DefaultKey /\ None # admin /\ None \notin Keys /\ DefaultKey \notin Keys
    BY <2>1, StablecoinAssumption DEF AnyKey
  <2>3. ASSUME NEW k \in Keys
        PROVE  /\ CanUpdateConfig(admin, None, k, None)
               /\ k # admin => CanUpdateConfig(admin, None, None, k)
    BY <2>2 DEF CanUpdateConfig
  <2>4. CanSetPause(admin, ~paused)
    BY <2>1 DEF CanSetPause
  <2> QED
    BY <2>1, <2>3, <2>4
<1> QED
  BY <1>1, InductiveInvariant, PTL

-----------------------------------------------------------------------------
(* Issuance.  What is granted bounds the allowances ever open, revoked     *)
(* roles at what they had minted, and these bound what is minted.          *)

Issued ==
    /\ IsFiniteSet(Units(minted, minters)) /\ IsFiniteSet(Units(allowance, minters))
    /\ total_minted = retired + Total(minted, minters)
    /\ retired + Total(allowance, minters) <= granted
    /\ ~initialized => minters = {} /\ retired = 0

LEMMA NothingIssuedAtFirst ==
    ASSUME Init
    PROVE  Issued
<1>1. \A k \in minters : minted[k] = 0 /\ allowance[k] = 0
  BY DEF Init
<1>2. /\ IsFiniteSet(Units(minted, minters)) /\ Total(minted, minters) = 0
      /\ IsFiniteSet(Units(allowance, minters)) /\ Total(allowance, minters) = 0
  BY <1>1, NothingHeld
<1> QED
  BY <1>2 DEF Init, Issued

LEMMA GrantIsIssued ==
    ASSUME IInv, Issued, NEW signer \in Keys, NEW authority \in Authorities,
           NEW limit \in Allowances, GrantMinter(signer, authority, limit)
    PROVE  Issued'
<1>1. /\ authority \in AnyKey /\ authority \notin minters /\ limit \in Nat /\ initialized
      /\ minters' = minters \cup {authority}
      /\ allowance' = [allowance EXCEPT ![authority] = limit]
      /\ minted' = [minted EXCEPT ![authority] = 0]
      /\ granted' = granted + limit
      /\ UNCHANGED <<initialized, total_minted, retired>>
  BY Constants DEF GrantMinter, configVars
<1>2. /\ allowance \in [AnyKey -> Nat] /\ minted \in [AnyKey -> Nat] /\ minters \subseteq AnyKey
      /\ retired \in Nat /\ granted \in Nat
  BY Types DEF IInv
<1>3. /\ \A k \in minters : minted'[k] = minted[k] /\ allowance'[k] = allowance[k]
      /\ minted'[authority] = 0 /\ allowance'[authority] = limit
  BY <1>1, <1>2
<1>4. /\ Units(minted', minters) = Units(minted, minters)
      /\ Total(minted', minters) = Total(minted, minters)
      /\ Units(allowance', minters) = Units(allowance, minters)
      /\ Total(allowance', minters) = Total(allowance, minters)
  BY ONLY <1>3, SameHoldings
<1>a. /\ IsFiniteSet(Units(minted', minters)) /\ IsFiniteSet(Units(allowance', minters))
      /\ authority \notin minters /\ minters' = minters \cup {authority}
      /\ minted'[authority] \in Nat /\ allowance'[authority] \in Nat
  BY <1>1, <1>3, <1>4 DEF Issued
<1>5. /\ IsFiniteSet(Units(minted', minters'))
      /\ Total(minted', minters') = Total(minted', minters) + minted'[authority]
  BY ONLY <1>a, Joined
<1>6. /\ IsFiniteSet(Units(allowance', minters'))
      /\ Total(allowance', minters') = Total(allowance', minters) + allowance'[authority]
  BY ONLY <1>a, Joined
<1>7. Total(minted, minters) \in Nat /\ Total(allowance, minters) \in Nat
  BY FS_CardinalityType DEF Issued, Total
<1> QED
  BY <1>1, <1>2, <1>3, <1>4, <1>5, <1>6, <1>7 DEF Issued

LEMMA RevokeIsIssued ==
    ASSUME IInv, Issued, NEW signer \in Keys, NEW authority \in Authorities,
           RevokeMinter(signer, authority)
    PROVE  Issued'
<1>1. /\ authority \in minters /\ initialized
      /\ minters' = minters \ {authority}
      /\ retired' = retired + minted[authority]
      /\ allowance' = [allowance EXCEPT ![authority] = 0]
      /\ minted' = [minted EXCEPT ![authority] = 0]
      /\ UNCHANGED <<initialized, total_minted, granted>>
  BY DEF RevokeMinter, configVars
<1>2. /\ allowance \in [AnyKey -> Nat] /\ minted \in [AnyKey -> Nat] /\ minters \subseteq AnyKey
      /\ retired \in Nat /\ granted \in Nat
      /\ minted[authority] <= allowance[authority]
  BY <1>1, Types DEF IInv, WithinAllowance
<1>3. /\ minted[authority] \in Nat /\ allowance[authority] \in Nat
      /\ \A k \in minters' : minted'[k] = minted[k] /\ allowance'[k] = allowance[k]
  BY <1>1, <1>2
<1>4. /\ Units(minted', minters') = Units(minted, minters')
      /\ Total(minted', minters') = Total(minted, minters')
      /\ Units(allowance', minters') = Units(allowance, minters')
      /\ Total(allowance', minters') = Total(allowance, minters')
  BY ONLY <1>3, SameHoldings
<1>5. /\ IsFiniteSet(Units(minted, minters')) /\ Total(minted, minters) \in Nat
      /\ Total(minted, minters') = Total(minted, minters) - minted[authority]
  BY <1>1, <1>3, Left DEF Issued
<1>6. /\ IsFiniteSet(Units(allowance, minters')) /\ Total(allowance, minters) \in Nat
      /\ Total(allowance, minters') = Total(allowance, minters) - allowance[authority]
  BY <1>1, <1>3, Left DEF Issued
<1> QED
  BY <1>1, <1>2, <1>3, <1>4, <1>5, <1>6 DEF Issued

LEMMA MintToIsIssued ==
    ASSUME IInv, Issued, NEW minter \in Keys, NEW x \in Accounts, NEW n \in Amounts,
           MintTo(minter, x, n)
    PROVE  Issued'
<1>1. /\ minter \in minters /\ n \in Nat /\ initialized
      /\ minted' = [minted EXCEPT ![minter] = @ + n]
      /\ total_minted' = total_minted + n
      /\ UNCHANGED <<initialized, minters, allowance, granted, retired>>
  BY Constants DEF MintTo
<1>2. minted \in [AnyKey -> Nat] /\ minters \subseteq AnyKey /\ retired \in Nat
  BY Types DEF IInv
<1>3. /\ minted[minter] \in Nat /\ minted'[minter] = minted[minter] + n /\ minted'[minter] \in Nat
      /\ \A k \in minters : k # minter => minted'[k] = minted[k]
  BY <1>1, <1>2
<1>a. IsFiniteSet(Units(minted, minters)) /\ minter \in minters /\ minted[minter] \in Nat
  BY <1>1, <1>3 DEF Issued
<1>4. /\ IsFiniteSet(Units(minted', minters))
      /\ Total(minted', minters) = Total(minted, minters) - minted[minter] + minted'[minter]
      /\ Total(minted, minters) \in Nat
  <2>1. ASSUME NEW f, NEW g, IsFiniteSet(Units(f, minters)), f[minter] \in Nat,
               g[minter] \in Nat, \A k \in minters : k # minter => g[k] = f[k]
        PROVE  /\ IsFiniteSet(Units(g, minters))
               /\ Total(g, minters) = Total(f, minters) - f[minter] + g[minter]
               /\ Total(f, minters) \in Nat
    BY ONLY <1>a, <2>1, OneChanged
  <2> QED
    BY ONLY <1>a, <1>3, <2>1
<1> QED
  BY <1>1, <1>2, <1>3, <1>4 DEF Issued

LEMMA StepIsIssued ==
    ASSUME IInv, Issued, [Next]_vars
    PROVE  Issued'
<1>1. ASSUME UNCHANGED <<minters, allowance, minted, granted, retired, total_minted>>,
             initialized' = initialized
      PROVE  Issued'
  BY <1>1 DEF Issued
<1>2. ASSUME NEW payer \in Keys, NEW cap \in Caps, InitializeStablecoin(payer, cap)
      PROVE  Issued'
  BY <1>2, Types DEF InitializeStablecoin, Issued, IInv, NothingBeforeMint, roleVars
<1>3. CASE ProgramStep
  BY <1>1, <1>2, <1>3, GrantIsIssued, RevokeIsIssued, MintToIsIssued
     DEF ProgramStep, SetWalletPolicy, CanSetWalletPolicy, Burn, SetPause, CanSetPause,
         UpdateConfig, CanUpdateConfig, AcceptAdmin,
         configVars, rotationVars, roleVars
<1>4. CASE OwnerStep
  BY <1>1, <1>4 DEF OwnerStep, OpenAccount, CloseAccount, Transfer, DirectBurn,
                    configVars, roleVars
<1>5. CASE UNCHANGED vars
  BY <1>1, <1>5 DEF vars, configVars, roleVars
<1> QED
  BY <1>3, <1>4, <1>5 DEF Next

(* Every token minted is charged to one role, open or revoked, each role   *)
(* within its allowance, and all within what was ever granted.             *)
THEOREM IssuanceHolds == Spec => []IssuanceAccounted
<1>1. Init => Issued
  BY NothingIssuedAtFirst
<1>2. IInv /\ Issued /\ [Next]_vars => Issued'
  BY StepIsIssued
<1>3. ASSUME IInv, Issued
      PROVE  IssuanceAccounted
  <2>1. /\ allowance \in [AnyKey -> Nat] /\ minted \in [AnyKey -> Nat] /\ minters \subseteq AnyKey
        /\ retired \in Nat /\ granted \in Nat
    BY <1>3, Types DEF IInv
  <2>2. \A k \in minters : minted[k] \in Nat /\ allowance[k] \in Nat /\ minted[k] <= allowance[k]
    BY <1>3, <2>1 DEF IInv, WithinAllowance
  <2>3. /\ Total(minted, minters) <= Total(allowance, minters)
        /\ Total(minted, minters) \in Nat /\ Total(allowance, minters) \in Nat
    BY <1>3, <2>2, LessHeld DEF Issued
  <2> QED
    BY <1>3, <2>1, <2>2, <2>3 DEF Issued, IssuanceAccounted
<1> QED
  BY <1>1, <1>2, <1>3, InductiveInvariant, PTL DEF Spec

-----------------------------------------------------------------------------
(* Conservation.  The supply that the cap and the counters are compared    *)
(* with is what the accounts hold together.                                *)

SupplyHeld == IsFiniteSet(Units(balance, Accounts)) /\ mint_supply = Total(balance, Accounts)

LEMMA NothingHeldAtFirst ==
    ASSUME Init
    PROVE  SupplyHeld
<1>1. \A x \in Accounts : balance[x] = 0
  BY DEF Init
<1> QED
  BY <1>1, NothingHeld DEF Init, SupplyHeld

(* One account and the supply change by the same amount.                   *)
LEMMA SupplyFollows ==
    ASSUME IInv, SupplyHeld, NEW x \in Accounts, balance'[x] \in Nat,
           \A y \in Accounts : y # x => balance'[y] = balance[y],
           mint_supply' = mint_supply - balance[x] + balance'[x]
    PROVE  SupplyHeld'
<1>1. balance[x] \in Nat
  BY Types DEF IInv
<1>2. IsFiniteSet(Units(balance, Accounts))
  BY DEF SupplyHeld
<1>3. /\ x \in Accounts /\ balance'[x] \in Nat
      /\ \A y \in Accounts : y # x => balance'[y] = balance[y]
  OBVIOUS
<1>4. /\ IsFiniteSet(Units(balance', Accounts))
      /\ Total(balance', Accounts) = Total(balance, Accounts) - balance[x] + balance'[x]
  BY ONLY <1>1, <1>2, <1>3, OneChanged
<1> QED
  BY <1>4 DEF SupplyHeld

LEMMA TransferKeepsSupply ==
    ASSUME IInv, SupplyHeld, NEW x \in Accounts, NEW y \in Accounts, NEW n \in Nat,
           Transfer(x, y, n)
    PROVE  SupplyHeld'
<1>1. /\ balance \in [Accounts -> Nat] /\ x # y /\ balance[x] >= n
      /\ balance' = [balance EXCEPT ![x] = @ - n, ![y] = @ + n]
      /\ mint_supply' = mint_supply
  BY Types DEF IInv, Transfer, mintVars
<1>2. /\ balance' \in [Accounts -> Nat]
      /\ balance'[x] = balance[x] - n /\ balance'[y] = balance[y] + n
      /\ \A z \in Accounts : z # x /\ z # y => balance'[z] = balance[z]
      /\ balance[x] \in Nat /\ balance[y] \in Nat
  BY <1>1
<1>3. /\ IsFiniteSet(Units(balance', Accounts))
      /\ Total(balance', Accounts)
           = Total(balance, Accounts) - balance[x] - balance[y] + balance'[x] + balance'[y]
      /\ Total(balance, Accounts) \in Nat
  <2>1. IsFiniteSet(Units(balance, Accounts))
    BY DEF SupplyHeld
  <2>2. /\ x \in Accounts /\ y \in Accounts /\ x # y
        /\ balance \in [Accounts -> Nat] /\ balance' \in [Accounts -> Nat]
        /\ \A z \in Accounts : z # x /\ z # y => balance'[z] = balance[z]
    BY <1>1, <1>2
  <2> QED
    BY ONLY <2>1, <2>2, TwoChanged
<1>4. Total(balance', Accounts) = Total(balance, Accounts)
  <2>1. n \in Nat /\ balance[x] \in Nat /\ balance[y] \in Nat
    BY <1>2
  <2> QED
    BY <1>2, <1>3, <2>1
<1> QED
  BY <1>1, <1>3, <1>4 DEF SupplyHeld

LEMMA StepKeepsSupply ==
    ASSUME IInv, SupplyHeld, [Next]_vars
    PROVE  SupplyHeld'
<1>1. ASSUME UNCHANGED <<balance, mint_supply>>
      PROVE  SupplyHeld'
  BY <1>1 DEF SupplyHeld
<1>2. balance \in [Accounts -> Nat] /\ Amounts \subseteq Nat /\ mint_supply \in Nat
  BY Types, Constants DEF IInv
<1>3. ASSUME NEW minter \in Keys, NEW x \in Accounts, NEW n \in Amounts, MintTo(minter, x, n)
      PROVE  SupplyHeld'
  <2>1. /\ balance' = [balance EXCEPT ![x] = @ + n] /\ mint_supply' = mint_supply + n
        /\ n \in Nat /\ balance[x] \in Nat
    BY <1>2, <1>3 DEF MintTo, TokenMint
  <2>2. balance'[x] = balance[x] + n /\ \A y \in Accounts : y # x => balance'[y] = balance[y]
    BY <1>2, <2>1
  <2>3. balance'[x] \in Nat /\ mint_supply' = mint_supply - balance[x] + balance'[x]
    BY <1>2, <2>1, <2>2
  <2> QED
    BY <2>2, <2>3, SupplyFollows
<1>4. ASSUME NEW x \in Accounts, NEW n \in Amounts, Burn(x, n) \/ DirectBurn(x, n)
      PROVE  SupplyHeld'
  <2>1. /\ balance' = [balance EXCEPT ![x] = @ - n] /\ mint_supply' = mint_supply - n
        /\ n \in Nat /\ balance[x] \in Nat /\ balance[x] >= n
    BY <1>2, <1>4 DEF Burn, DirectBurn, TokenBurn
  <2>2. balance'[x] = balance[x] - n /\ \A y \in Accounts : y # x => balance'[y] = balance[y]
    BY <1>2, <2>1
  <2>3. balance'[x] \in Nat /\ mint_supply' = mint_supply - balance[x] + balance'[x]
    BY <1>2, <2>1, <2>2
  <2> QED
    BY <2>2, <2>3, SupplyFollows
<1>5. CASE ProgramStep
  BY <1>1, <1>3, <1>4, <1>5
     DEF ProgramStep, InitializeStablecoin, GrantMinter, RevokeMinter, SetWalletPolicy,
         CanSetWalletPolicy, SetPause, CanSetPause, UpdateConfig, CanUpdateConfig, AcceptAdmin,
         mintVars, accountVars
<1>6. CASE OwnerStep
  <2>1. ASSUME NEW x \in Accounts, OpenAccount(x) \/ CloseAccount(x)
        PROVE  SupplyHeld'
    BY <1>1, <2>1 DEF OpenAccount, CloseAccount, mintVars
  <2>2. TransferAmounts \subseteq Nat
    BY Constants
  <2> QED
    BY <1>4, <1>6, <2>1, <2>2, TransferKeepsSupply DEF OwnerStep
<1>7. CASE UNCHANGED vars
  BY <1>1, <1>7 DEF vars, mintVars, accountVars
<1> QED
  BY <1>5, <1>6, <1>7 DEF Next

(* The accounts of a mint hold together exactly its supply: minting,       *)
(* burning inside and outside the program, and transfers conserve it.      *)
THEOREM SupplyConserved == Spec => []SupplyHeld
<1>1. Init => SupplyHeld
  BY NothingHeldAtFirst
<1>2. IInv /\ SupplyHeld /\ [Next]_vars => SupplyHeld'
  BY StepKeepsSupply
<1> QED
  BY <1>1, <1>2, InductiveInvariant, PTL DEF Spec

(* No account holds more than the supply, and so none more than the cap.   *)
LEMMA HoldingWithinCap ==
    ASSUME IInv, SupplyHeld, NEW x \in Accounts
    PROVE  balance[x] <= mint_supply /\ mint_supply <= supply_cap
<1>1. balance[x] \in Nat
  BY Types DEF IInv
<1>2. balance[x] <= mint_supply
  BY <1>1, HoldingIsPart DEF SupplyHeld
<1> QED
  BY <1>2 DEF IInv, SupplyWithinCap

-----------------------------------------------------------------------------
(* The capped ledger.                                                      *)

AllowedNow == {x \in Accounts : policy[x] = "Allowed"}

LEMMA ThawedMayMove ==
    ASSUME IInv, NEW x \in Accounts, state[x] = "Thawed"
    PROVE  x \in AllowedNow
  BY DEF IInv, DefaultDeny, AllowedNow

LEMMA LedgerStarts ==
    ASSUME Init
    PROVE  Ledger!Init
<1>1. {x \in Accounts : policy[x] = "Allowed"} = {}
  BY DEF Init
<1> QED
  BY <1>1 DEF Init, Ledger!Init

LEMMA IssueStep ==
    ASSUME IInv, NEW minter \in Keys, NEW x \in Accounts, NEW n \in Amounts,
           MintTo(minter, x, n)
    PROVE  Ledger!Issue(x, n)
<1>1. /\ ~paused /\ policy[x] = "Allowed" /\ mint_supply + n <= supply_cap
      /\ balance' = [balance EXCEPT ![x] = @ + n] /\ mint_supply' = mint_supply + n
      /\ UNCHANGED <<supply_cap, paused, policy>>
  BY DEF MintTo, TokenMint
<1>2. {y \in Accounts : policy[y] = "Allowed"}' = {y \in Accounts : policy[y] = "Allowed"}
  BY <1>1
<1> QED
  BY <1>1, <1>2 DEF Ledger!Issue

LEMMA RetireStep ==
    ASSUME IInv, NEW x \in Accounts, NEW n \in Amounts, TokenBurn(x, n),
           UNCHANGED <<supply_cap, paused, policy>>
    PROVE  Ledger!Retire(x, n)
<1>1. /\ ~paused /\ state[x] = "Thawed" /\ n <= balance[x]
      /\ balance' = [balance EXCEPT ![x] = @ - n] /\ mint_supply' = mint_supply - n
  <2>1. n \in Nat /\ balance[x] \in Nat
    BY Types, Constants DEF IInv
  <2> QED
    BY <2>1 DEF TokenBurn, IInv, PauseMirrored
<1>2. x \in {y \in Accounts : policy[y] = "Allowed"}
  BY <1>1, ThawedMayMove DEF AllowedNow
<1>3. {y \in Accounts : policy[y] = "Allowed"}' = {y \in Accounts : policy[y] = "Allowed"}
  OBVIOUS
<1> QED
  BY <1>1, <1>2, <1>3 DEF Ledger!Retire

LEMMA MoveStep ==
    ASSUME IInv, NEW x \in Accounts, NEW y \in Accounts, NEW n \in TransferAmounts,
           Transfer(x, y, n)
    PROVE  Ledger!Move(x, y, n)
<1>1. /\ ~paused /\ state[x] = "Thawed" /\ state[y] = "Thawed" /\ x # y /\ n <= balance[x]
      /\ balance' = [balance EXCEPT ![x] = @ - n, ![y] = @ + n]
      /\ UNCHANGED <<mint_supply, supply_cap, paused, policy>>
  <2>1. n \in Nat /\ balance[x] \in Nat
    BY Types, Constants DEF IInv
  <2> QED
    BY <2>1 DEF Transfer, IInv, PauseMirrored, configVars, mintVars
<1>2. {x, y} \subseteq {z \in Accounts : policy[z] = "Allowed"}
  BY <1>1, ThawedMayMove DEF AllowedNow
<1>3. {z \in Accounts : policy[z] = "Allowed"}' = {z \in Accounts : policy[z] = "Allowed"}
  BY <1>1
<1> QED
  BY <1>1, <1>2, <1>3 DEF Ledger!Move

LEMMA DecisionStep ==
    ASSUME IInv, NEW signer \in Keys, NEW x \in Accounts, NEW status \in Status,
           SetWalletPolicy(signer, x, status)
    PROVE  Ledger!Allow(x) \/ Ledger!Block(x)
<1>1. /\ policy' = [policy EXCEPT ![x] = status]
      /\ UNCHANGED <<mint_supply, supply_cap, balance, paused>>
  BY DEF SetWalletPolicy, CanSetWalletPolicy, configVars, mintVars
<1>2. policy \in [Accounts -> Status \cup {"None"}]
  BY Types DEF IInv
<1>3. CASE status = "Allowed"
  <2>1. {y \in Accounts : policy[y] = "Allowed"}' = {y \in Accounts : policy[y] = "Allowed"} \cup {x}
    BY <1>1, <1>2, <1>3
  <2> QED
    BY <1>1, <2>1 DEF Ledger!Allow
<1>4. CASE status = "Blocked"
  <2>1. {y \in Accounts : policy[y] = "Allowed"}' = {y \in Accounts : policy[y] = "Allowed"} \ {x}
    BY <1>1, <1>2, <1>4
  <2> QED
    BY <1>1, <2>1 DEF Ledger!Block
<1> QED
  BY <1>3, <1>4 DEF Status

LEMMA CapStep ==
    ASSUME IInv, NEW signer \in Keys, NEW cap \in Caps \cup {None},
           NEW authority \in Authorities \cup {None}, NEW nominee \in Authorities \cup {None},
           UpdateConfig(signer, cap, authority, nominee)
    PROVE  \/ \E limit \in Caps : Ledger!Limit(limit)
           \/ UNCHANGED <<mint_supply, supply_cap, balance, policy, paused>>
<1>1. /\ cap # None => SupportedCap(cap) /\ cap >= mint_supply
      /\ supply_cap' = IF cap = None THEN supply_cap ELSE cap
      /\ UNCHANGED <<mint_supply, balance, policy, paused>>
  BY DEF UpdateConfig, CanUpdateConfig, mintVars, accountVars
<1>2. CASE cap = None
  BY <1>1, <1>2
<1>3. CASE cap # None
  <2>1. /\ cap \in Caps /\ cap \in Nat /\ mint_supply \in Nat /\ mint_supply <= cap
        /\ cap <= MAX_SUPPLY_CAP /\ supply_cap' = cap
    BY <1>1, <1>3, Types, Constants DEF IInv, SupportedCap
  <2>2. {y \in Accounts : policy[y] = "Allowed"}' = {y \in Accounts : policy[y] = "Allowed"}
    BY <1>1
  <2>3. Ledger!Limit(cap)
    BY <1>1, <2>1, <2>2 DEF Ledger!Limit
  <2> QED
    BY <2>1, <2>3
<1> QED
  BY <1>2, <1>3

LEMMA FirstCapStep ==
    ASSUME IInv, NEW payer \in Keys, NEW cap \in Caps, InitializeStablecoin(payer, cap)
    PROVE  Ledger!Limit(cap)
<1>1. /\ cap \in Nat /\ cap <= MAX_SUPPLY_CAP /\ supply_cap' = cap /\ paused' = FALSE
      /\ mint_supply = 0 /\ paused = FALSE
      /\ UNCHANGED <<mint_supply, balance, policy>>
  BY Constants, Types DEF InitializeStablecoin, SupportedCap, mintVars, accountVars,
     IInv, NothingBeforeMint, PauseMirrored
<1>2. {y \in Accounts : policy[y] = "Allowed"}' = {y \in Accounts : policy[y] = "Allowed"}
  BY <1>1
<1>3. mint_supply <= cap
  BY <1>1, SMT
<1>4. paused' = paused
  BY <1>1, Zenon
<1> QED
  BY <1>1, <1>2, <1>3, <1>4 DEF Ledger!Limit

LEMMA SwitchStep ==
    ASSUME IInv, NEW signer \in Keys, NEW on \in BOOLEAN, SetPause(signer, on)
    PROVE  Ledger!Switch
<1>1. /\ paused' = ~paused /\ UNCHANGED <<mint_supply, supply_cap, balance, policy>>
  BY Types DEF SetPause, CanSetPause, accountVars, IInv
<1> QED
  BY <1>1 DEF Ledger!Switch

LEMMA LedgerStep ==
    ASSUME IInv, [Next]_vars
    PROVE  [Ledger!Next]_(Ledger!vars)
<1>1. ASSUME UNCHANGED <<mint_supply, supply_cap, balance, policy, paused>>
      PROVE  UNCHANGED Ledger!vars
  BY <1>1 DEF Ledger!vars
<1>2. CASE ProgramStep
  <2>1. ASSUME NEW signer \in Keys, NEW move \in PolicyMoves,
               SetWalletPolicy(signer, move[1], move[2])
        PROVE  Ledger!Next
    <3>1. move[1] \in Accounts /\ move[2] \in Status
      BY Constants
    <3> QED
      BY <2>1, <3>1, DecisionStep DEF Ledger!Next
  <2>2. ASSUME NEW signer \in Keys, NEW on \in PauseFlags, SetPause(signer, on)
        PROVE  Ledger!Next
    BY <2>2, Constants, SwitchStep DEF Ledger!Next
  <2>3. ASSUME NEW payer \in Keys, NEW cap \in Caps, InitializeStablecoin(payer, cap)
        PROVE  Ledger!Next
    BY <2>3, FirstCapStep DEF Ledger!Next
  <2>4. ASSUME NEW minter \in Keys, NEW x \in Accounts, NEW n \in Amounts, MintTo(minter, x, n)
        PROVE  Ledger!Next
    BY <2>4, IssueStep DEF Ledger!Next
  <2>5. ASSUME NEW x \in Accounts, NEW n \in Amounts, Burn(x, n)
        PROVE  Ledger!Next
    BY <2>5, RetireStep DEF Burn, Ledger!Next
  <2>6. ASSUME NEW signer \in Keys, NEW cap \in Caps \cup {None},
               NEW authority \in Authorities \cup {None}, NEW nominee \in Authorities \cup {None},
               UpdateConfig(signer, cap, authority, nominee)
        PROVE  [Ledger!Next]_(Ledger!vars)
    BY <1>1, <2>6, CapStep DEF Ledger!Next
  <2>7. ASSUME NEW signer \in Keys, NEW authority \in Authorities, NEW limit \in Allowances,
               GrantMinter(signer, authority, limit)
        PROVE  UNCHANGED Ledger!vars
    BY <1>1, <2>7 DEF GrantMinter, configVars, mintVars, accountVars
  <2>8. ASSUME NEW signer \in Keys, NEW authority \in Authorities, RevokeMinter(signer, authority)
        PROVE  UNCHANGED Ledger!vars
    BY <1>1, <2>8 DEF RevokeMinter, configVars, mintVars, accountVars
  <2>9. ASSUME NEW signer \in Keys, AcceptAdmin(signer)
        PROVE  UNCHANGED Ledger!vars
    BY <1>1, <2>9 DEF AcceptAdmin, mintVars, accountVars
  <2> QED
    BY <1>2, <2>1, <2>2, <2>3, <2>4, <2>5, <2>6, <2>7, <2>8, <2>9 DEF ProgramStep
<1>3. CASE OwnerStep
  <2>1. ASSUME NEW x \in Accounts, OpenAccount(x) \/ CloseAccount(x)
        PROVE  UNCHANGED Ledger!vars
    BY <1>1, <2>1 DEF OpenAccount, CloseAccount, configVars, mintVars
  <2>2. ASSUME NEW x \in Accounts, NEW y \in Accounts, NEW n \in TransferAmounts,
               Transfer(x, y, n)
        PROVE  Ledger!Next
    BY <2>2, MoveStep DEF Ledger!Next
  <2>3. ASSUME NEW x \in Accounts, NEW n \in Amounts, DirectBurn(x, n)
        PROVE  Ledger!Next
    BY <2>3, RetireStep DEF DirectBurn, configVars, Ledger!Next
  <2> QED
    BY <1>3, <2>1, <2>2, <2>3 DEF OwnerStep
<1>4. CASE UNCHANGED vars
  BY <1>1, <1>4 DEF vars, configVars, mintVars, accountVars
<1> QED
  BY <1>2, <1>3, <1>4 DEF Next

(* A stablecoin implements the capped ledger: whatever its authorities,    *)
(* minters and owners do, through the program or around it.                *)
THEOREM LedgerImplemented == Spec => ImplementsLedger
<1>1. Init => Ledger!Init
  BY LedgerStarts
<1>2. IInv /\ [Next]_vars => [Ledger!Next]_(Ledger!vars)
  BY LedgerStep
<1> QED
  BY <1>1, <1>2, InductiveInvariant, PTL DEF Spec, ImplementsLedger, Ledger!Spec
-----------------------------------------------------------------------------
(* The log.                                                                *)

ViewType ==
    [admin : AnyKey, pending_admin : Keys \cup {LostKey, None}, compliance_authority : AnyKey,
     supply_cap : Nat, paused : BOOLEAN, supply : Nat, total_minted : Nat, total_burned : Nat,
     minters : SUBSET AnyKey, allowance : [AnyKey -> Nat], minted : [AnyKey -> Nat],
     retired : Nat, policy : [Accounts -> Status \cup {"None"}]]

(* Creation reports neither counters nor a nomination, and need not.       *)
NoNomineeBeforeMint == ~initialized => pending_admin = None

LogInv == view \in ViewType /\ NoNomineeBeforeMint /\ LogTellsAll

LEMMA NothingToTell ==
    ASSUME EventsInit
    PROVE  LogInv
<1>1. IInv
  BY InitIsInductive DEF EventsInit
<1>2. view \in ViewType
  <2>1. /\ DefaultKey \in AnyKey /\ allowance \in [AnyKey -> Nat] /\ minted \in [AnyKey -> Nat]
        /\ policy \in [Accounts -> Status \cup {"None"}]
    BY <1>1, Types DEF IInv, AnyKey
  <2> QED
    BY <2>1 DEF EventsInit, NewView, ViewType
<1>3. NoNomineeBeforeMint
  BY DEF EventsInit, Init, NoNomineeBeforeMint
<1>4. LogTellsAll
  <2>1. view.supply = 0 /\ mint_supply = 0
    BY DEF EventsInit, Init, NewView
  <2>2. view.supply >= mint_supply
    BY <2>1
  <2> QED
    BY <2>2 DEF EventsInit, Init, NewView, LogTellsAll
<1> QED
  BY <1>2, <1>3, <1>4 DEF LogInv

(* The instructions that create and configure the mint.                    *)
LEMMA ConfigurationTold ==
    ASSUME IInv, LogInv, TypeOK',
           \/ \E payer \in Keys, cap \in Caps : InitializeStablecoinEmits(payer, cap)
           \/ \E signer \in Keys, on \in PauseFlags : SetPauseEmits(signer, on)
           \/ \E signer \in Keys, cap \in Caps \cup {None},
                 authority, nominee \in Authorities \cup {None} :
                     UpdateConfigEmits(signer, cap, authority, nominee)
           \/ \E signer \in Keys : AcceptAdminEmits(signer)
    PROVE  LogInv'
<1>1. /\ admin' \in AnyKey /\ pending_admin' \in Keys \cup {LostKey, None}
      /\ compliance_authority' \in AnyKey /\ supply_cap' \in Nat /\ paused' \in BOOLEAN
  BY StablecoinAssumption DEF TypeOK
<1>2. ASSUME NEW payer \in Keys, NEW cap \in Caps, InitializeStablecoinEmits(payer, cap)
      PROVE  LogInv'
  <2>1. /\ ~initialized /\ pending_admin = None /\ total_minted = 0 /\ total_burned = 0 /\ ~paused
        /\ initialized' /\ admin' = payer /\ pending_admin' = None
        /\ compliance_authority' = payer /\ supply_cap' = cap
        /\ total_minted' = 0 /\ total_burned' = 0 /\ paused' = FALSE
        /\ UNCHANGED <<minters, allowance, minted, retired, policy, mint_supply>>
        /\ view' = [view EXCEPT !.admin = payer, !.compliance_authority = payer, !.supply_cap = cap]
    BY <1>2 DEF InitializeStablecoinEmits, InitializeStablecoin, StablecoinInitialized, Emits,
                IInv, PauseMirrored, NothingBeforeMint, LogInv, NoNomineeBeforeMint,
                roleVars, mintVars
  <2>2. view' \in ViewType
    BY <1>1, <2>1 DEF ViewType, LogInv
  <2>3. LogTellsAll'
    BY <2>1, Types DEF ViewType, LogInv, LogTellsAll, IInv
  <2> QED
    BY <2>1, <2>2, <2>3 DEF LogInv, NoNomineeBeforeMint
<1>3. ASSUME NEW signer \in Keys, NEW on \in PauseFlags, SetPauseEmits(signer, on)
      PROVE  LogInv'
  <2>1. /\ paused' = on /\ view' = [view EXCEPT !.paused = on]
        /\ UNCHANGED <<initialized, admin, pending_admin, compliance_authority, supply_cap,
                       total_minted, total_burned, minters, allowance, minted, retired, policy,
                       mint_supply>>
    BY <1>3 DEF SetPauseEmits, SetPause, PauseChanged, Emits, rotationVars, roleVars
  <2>2. view' \in ViewType
    BY <1>1, <2>1 DEF ViewType, LogInv
  <2>3. LogTellsAll'
    BY <2>1 DEF ViewType, LogInv, LogTellsAll
  <2> QED
    BY <2>1, <2>2, <2>3 DEF LogInv, NoNomineeBeforeMint
<1>4. ASSUME NEW signer \in Keys, NEW cap \in Caps \cup {None},
             NEW authority \in Authorities \cup {None}, NEW nominee \in Authorities \cup {None},
             UpdateConfigEmits(signer, cap, authority, nominee)
      PROVE  LogInv'
  <2>1. /\ initialized /\ initialized' = initialized /\ admin' = admin
        /\ view' = [view EXCEPT !.admin = admin, !.supply_cap = supply_cap',
                                !.compliance_authority = compliance_authority',
                                !.pending_admin = pending_admin']
        /\ UNCHANGED <<total_minted, total_burned, paused, minters, allowance, minted, retired,
                       policy, mint_supply>>
    BY <1>4 DEF UpdateConfigEmits, UpdateConfig, CanUpdateConfig, ConfigUpdated, Emits,
                roleVars, mintVars
  <2>2. view' \in ViewType
    BY <1>1, <2>1 DEF ViewType, LogInv
  <2>3. LogTellsAll'
    BY <2>1 DEF ViewType, LogInv, LogTellsAll
  <2> QED
    BY <2>1, <2>2, <2>3 DEF LogInv, NoNomineeBeforeMint
<1>5. ASSUME NEW signer \in Keys, AcceptAdminEmits(signer)
      PROVE  LogInv'
  <2>1. /\ initialized /\ initialized' = initialized /\ admin' = signer /\ pending_admin' = None
        /\ view' = [view EXCEPT !.admin = signer, !.pending_admin = None]
        /\ UNCHANGED <<compliance_authority, supply_cap, total_minted, total_burned, paused,
                       minters, allowance, minted, retired, policy, mint_supply>>
    BY <1>5 DEF AcceptAdminEmits, AcceptAdmin, AdminAccepted, Emits, roleVars, mintVars
  <2>2. view' \in ViewType
    BY <1>1, <2>1 DEF ViewType, LogInv
  <2>3. LogTellsAll'
    BY <2>1 DEF ViewType, LogInv, LogTellsAll
  <2> QED
    BY <2>1, <2>2, <2>3 DEF LogInv, NoNomineeBeforeMint
<1> QED
  BY <1>2, <1>3, <1>4, <1>5

(* The instructions that grant and revoke roles, decide on accounts, and   *)
(* issue and retire tokens.                                                *)
LEMMA IssuanceTold ==
    ASSUME IInv, LogInv, TypeOK',
           \/ \E signer \in Keys, authority \in Authorities, limit \in Allowances :
                  GrantMinterEmits(signer, authority, limit)
           \/ \E signer \in Keys, authority \in Authorities : RevokeMinterEmits(signer, authority)
           \/ \E signer \in Keys, move \in PolicyMoves :
                  SetWalletPolicyEmits(signer, move[1], move[2])
           \/ \E minter \in Keys, x \in Accounts, n \in Amounts : MintToEmits(minter, x, n)
           \/ \E x \in Accounts, n \in Amounts : BurnEmits(x, n)
    PROVE  LogInv'
<1>1. /\ minters' \subseteq AnyKey /\ retired' \in Nat /\ total_minted' \in Nat
      /\ total_burned' \in Nat /\ mint_supply' \in Nat
      /\ allowance' \in [AnyKey -> Nat] /\ minted' \in [AnyKey -> Nat]
      /\ policy' \in [Accounts -> Status \cup {"None"}]
  BY DEF TypeOK
<1>2. ASSUME NEW signer \in Keys, NEW authority \in Authorities, NEW limit \in Allowances,
             GrantMinterEmits(signer, authority, limit)
      PROVE  LogInv'
  <2>1. /\ minters' = minters \cup {authority}
        /\ allowance' = [allowance EXCEPT ![authority] = limit]
        /\ minted' = [minted EXCEPT ![authority] = 0]
        /\ view' = [view EXCEPT !.minters = @ \cup {authority},
                                !.allowance[authority] = limit, !.minted[authority] = 0]
        /\ UNCHANGED <<initialized, admin, pending_admin, compliance_authority, supply_cap, paused,
                       total_minted, total_burned, retired, policy, mint_supply>>
    BY <1>2 DEF GrantMinterEmits, GrantMinter, MinterGranted, Emits, configVars, rotationVars,
                mintVars
  <2>2. view' = [view EXCEPT !.minters = minters', !.allowance = allowance', !.minted = minted']
    BY <2>1 DEF ViewType, LogInv, LogTellsAll
  <2>3. view' \in ViewType
    BY <1>1, <2>2 DEF ViewType, LogInv
  <2>4. LogTellsAll'
    BY <2>1, <2>2 DEF ViewType, LogInv, LogTellsAll
  <2> QED
    BY <2>1, <2>3, <2>4 DEF LogInv, NoNomineeBeforeMint
<1>3. ASSUME NEW signer \in Keys, NEW authority \in Authorities, RevokeMinterEmits(signer, authority)
      PROVE  LogInv'
  <2>1. /\ minters' = minters \ {authority}
        /\ retired' = retired + minted[authority]
        /\ allowance' = [allowance EXCEPT ![authority] = 0]
        /\ minted' = [minted EXCEPT ![authority] = 0]
        /\ view' = [view EXCEPT !.minters = @ \ {authority}, !.retired = @ + minted[authority],
                                !.allowance[authority] = 0, !.minted[authority] = 0]
        /\ UNCHANGED <<initialized, admin, pending_admin, compliance_authority, supply_cap, paused,
                       total_minted, total_burned, policy, mint_supply>>
    BY <1>3 DEF RevokeMinterEmits, RevokeMinter, MinterRevoked, Emits, configVars, rotationVars,
                mintVars
  <2>2. view' = [view EXCEPT !.minters = minters', !.retired = retired',
                             !.allowance = allowance', !.minted = minted']
    BY <2>1 DEF ViewType, LogInv, LogTellsAll
  <2>3. view' \in ViewType
    BY <1>1, <2>2 DEF ViewType, LogInv
  <2>4. LogTellsAll'
    BY <2>1, <2>2 DEF ViewType, LogInv, LogTellsAll
  <2> QED
    BY <2>1, <2>3, <2>4 DEF LogInv, NoNomineeBeforeMint
<1>4. ASSUME NEW signer \in Keys, NEW x, NEW status, SetWalletPolicyEmits(signer, x, status)
      PROVE  LogInv'
  <2>1. /\ policy' = [policy EXCEPT ![x] = status]
        /\ view' = [view EXCEPT !.policy[x] = status]
        /\ UNCHANGED <<initialized, admin, pending_admin, compliance_authority, supply_cap, paused,
                       total_minted, total_burned, minters, allowance, minted, retired, mint_supply>>
    BY <1>4 DEF SetWalletPolicyEmits, SetWalletPolicy, WalletPolicyChanged, Emits, configVars,
                rotationVars, roleVars, mintVars
  <2>2. view' = [view EXCEPT !.policy = policy']
    BY <2>1 DEF ViewType, LogInv, LogTellsAll
  <2>3. view' \in ViewType
    BY <1>1, <2>2 DEF ViewType, LogInv
  <2>4. LogTellsAll'
    BY <2>1, <2>2 DEF ViewType, LogInv, LogTellsAll
  <2> QED
    BY <2>1, <2>3, <2>4 DEF LogInv, NoNomineeBeforeMint
<1>5. ASSUME NEW minter \in Keys, NEW x \in Accounts, NEW n \in Amounts, MintToEmits(minter, x, n)
      PROVE  LogInv'
  <2>1. /\ minted' = [minted EXCEPT ![minter] = @ + n]
        /\ total_minted' = total_minted + n
        /\ view' = [view EXCEPT !.total_minted = @ + n, !.minted[minter] = minted'[minter],
                                !.supply = mint_supply']
        /\ UNCHANGED <<initialized, admin, pending_admin, compliance_authority, supply_cap, paused,
                       total_burned, minters, allowance, retired, policy>>
    BY <1>5 DEF MintToEmits, MintTo, TokensMinted, Emits, rotationVars
  <2>2. view' = [view EXCEPT !.total_minted = total_minted', !.minted = minted',
                             !.supply = mint_supply']
    <3>1. [minted EXCEPT ![minter] = minted'[minter]] = minted'
      BY <1>1, <2>1, Types DEF IInv
    <3> QED
      BY <2>1, <3>1 DEF ViewType, LogInv, LogTellsAll
  <2>3. view' \in ViewType
    BY <1>1, <2>2 DEF ViewType, LogInv
  <2>4. LogTellsAll'
    <3>1. view'.supply = mint_supply' /\ mint_supply' >= mint_supply'
      BY <1>1, <2>2 DEF ViewType, LogInv
    <3>2. view'.total_minted = total_minted' /\ view'.minted = minted'
      BY <2>2 DEF ViewType, LogInv
    <3> QED
      BY <2>1, <2>2, <3>1, <3>2 DEF ViewType, LogInv, LogTellsAll
  <2> QED
    BY <2>1, <2>3, <2>4 DEF LogInv, NoNomineeBeforeMint
<1>6. ASSUME NEW x \in Accounts, NEW n \in Amounts, BurnEmits(x, n)
      PROVE  LogInv'
  <2>1. /\ total_burned' = total_burned + n
        /\ view' = [view EXCEPT !.total_burned = @ + n, !.supply = mint_supply']
        /\ UNCHANGED <<initialized, admin, pending_admin, compliance_authority, supply_cap, paused,
                       total_minted, minters, allowance, minted, retired, policy>>
    BY <1>6 DEF BurnEmits, Burn, TokensBurned, Emits, rotationVars, roleVars
  <2>2. view' = [view EXCEPT !.total_burned = total_burned', !.supply = mint_supply']
    BY <2>1 DEF ViewType, LogInv, LogTellsAll
  <2>3. view' \in ViewType
    BY <1>1, <2>2 DEF ViewType, LogInv
  <2>4. LogTellsAll'
    BY <1>1, <2>1, <2>2 DEF ViewType, LogInv, LogTellsAll
  <2> QED
    BY <2>1, <2>3, <2>4 DEF LogInv, NoNomineeBeforeMint
<1> QED
  BY <1>2, <1>3, <1>4, <1>5, <1>6

(* What owners do is not told; of all that the reader follows it moves     *)
(* only the supply, and only down.                                         *)
LEMMA OwnersUntold ==
    ASSUME IInv, LogInv, Silent \/ UNCHANGED <<vars, view>>
    PROVE  LogInv'
<1>1. /\ UNCHANGED <<initialized, admin, pending_admin, compliance_authority, supply_cap, paused,
                     total_minted, total_burned, minters, allowance, minted, retired, policy, view>>
      /\ mint_supply' = mint_supply \/ \E n \in Amounts : mint_supply' = mint_supply - n
  BY DEF Silent, OwnerStep, OpenAccount, CloseAccount, Transfer, DirectBurn, TokenBurn,
         vars, configVars, rotationVars, roleVars, mintVars
<1>2. mint_supply' <= view.supply
  <2>1. /\ view.supply \in Nat /\ mint_supply \in Nat /\ mint_supply <= view.supply
        /\ Amounts \subseteq Nat
    BY Types, Constants DEF IInv, LogInv, LogTellsAll, ViewType
  <2> QED
    BY <1>1, <2>1
<1>3. view.supply \in Nat /\ view'.supply >= mint_supply'
  BY <1>1, <1>2 DEF LogInv, ViewType
<1> QED
  BY <1>1, <1>3 DEF LogInv, LogTellsAll, NoNomineeBeforeMint, ViewType

LEMMA EventsAreSteps ==
    ASSUME [EventsNext]_<<vars, view>>
    PROVE  [Next]_vars
  BY DEF EventsNext, Announced, Silent, Next, ProgramStep, InitializeStablecoinEmits,
         GrantMinterEmits, RevokeMinterEmits, SetWalletPolicyEmits, MintToEmits, BurnEmits,
         SetPauseEmits, UpdateConfigEmits, AcceptAdminEmits, vars

(* Whoever reads nothing but the log knows every key, role, policy, cap    *)
(* and counter of the mint, and an upper bound of its supply.              *)
THEOREM LogIsComplete == EventsSpec => []LogTellsAll
<1>1. EventsInit => IInv /\ LogInv
  BY InitIsInductive, NothingToTell DEF EventsInit
<1>2. ASSUME IInv, LogInv, [EventsNext]_<<vars, view>>
      PROVE  IInv' /\ LogInv'
  <2>1. IInv' /\ TypeOK'
    BY <1>2, EventsAreSteps, NextKeeps DEF StepFacts, IInv
  <2>2. CASE Announced
    BY <1>2, <2>1, <2>2, ConfigurationTold, IssuanceTold DEF Announced
  <2>3. CASE Silent \/ UNCHANGED <<vars, view>>
    BY <1>2, <2>1, <2>3, OwnersUntold
  <2> QED
    BY <1>2, <2>1, <2>2, <2>3 DEF EventsNext
<1>3. LogInv => LogTellsAll
  BY DEF LogInv
<1> QED
  BY <1>1, <1>2, <1>3, PTL DEF EventsSpec
=============================================================================
