------------------------------ MODULE Registry ------------------------------
(***************************************************************************)
(* All stablecoins and all pools: what anybody may create, at which        *)
(* addresses, and who may mint what.  Where the other modules follow one   *)
(* mint or one pool, this one follows their identities.                    *)
(*                                                                         *)
(* An address derived by a program is named by its seeds: two derivations  *)
(* with different seeds give different addresses, and an instruction that  *)
(* creates an account fails when its address is in use.  The order of two  *)
(* mint addresses has nothing to do with the symbols they derive from.     *)
(***************************************************************************)
EXTENDS Integers, Sequences, FiniteSets

CONSTANTS
    NUL, Alphanumeric, Punctuation,     \* the bytes a symbol is made of
    Width,                              \* bytes in a symbol
    Rank,                               \* the order of the mints' addresses, by symbol
    Keys,                               \* keys somebody can sign with
    Fees, MAX_FEE_BPS,                  \* fees a pool creator may ask for
    Decimals, STABLECOIN_DECIMALS,      \* decimals a caller may ask for
    Lengths, MAX_NAME_LEN, MAX_URI_LEN, \* lengths of names and URIs a caller may pass
    None

Symbol == [1 .. Width -> {NUL} \cup Alphanumeric \cup Punctuation]

ASSUME RegistryAssumption ==
    /\ Width \in Nat /\ NUL \notin Alphanumeric \cup Punctuation
    /\ Alphanumeric \cap Punctuation = {}
    /\ Rank \in [Symbol -> Nat]
    /\ \A s, t \in Symbol : Rank[s] = Rank[t] => s = t
    /\ None \notin Keys
    /\ MAX_FEE_BPS \in Nat
    /\ Fees \subseteq Nat /\ Decimals \subseteq Nat /\ Lengths \subseteq Nat

VARIABLES
    accounts,       \* derived addresses in use
    admin,          \* MintConfig.admin by symbol, None before the stablecoin exists
    pools,          \* the Pool accounts: their two mints, in order, and their fee
    open            \* history: the pairs of symbol and key with a role granted, not revoked

vars == <<accounts, admin, pools, open>>

Init ==
    /\ accounts = {}
    /\ admin = [s \in Symbol |-> None]
    /\ pools = {}
    /\ open = {}

Exists(s) == admin[s] # None

Free(addresses) == addresses \cap accounts = {}

Create(addresses) ==
    /\ Free(addresses)
    /\ accounts' = accounts \cup addresses

-----------------------------------------------------------------------------
(* Addresses, by the seeds they derive from.  A mint is named by its       *)
(* symbol.                                                                 *)
MintAt(s) == <<"mint", s>>
ConfigAt(s) == <<"config", s>>

RoleAt_Faulty(s, k) == <<"minter", k>>

RoleAt(s, k) == <<"minter", s, k>>

PoolAt(a, b) == <<"pool", a, b>>

VaultAt_Faulty(a, b, m) == <<"vault", m>>

VaultAt(a, b, m) == <<"vault", PoolAt(a, b), m>>

LpMintAt(a, b) == <<"lp_mint", PoolAt(a, b)>>
LockedLpAt(a, b) == <<"locked_lp", PoolAt(a, b)>>

-----------------------------------------------------------------------------
(* The text of a symbol ends before its first NUL.                         *)
TextEnd(s) ==
    IF \E i \in 1 .. Width : s[i] = NUL
    THEN CHOOSE i \in 1 .. Width : s[i] = NUL /\ \A j \in 1 .. i - 1 : s[j] # NUL
    ELSE Width + 1

Text(s) == SubSeq(s, 1, TextEnd(s) - 1)

NormalizeSymbol_Faulty(s) ==
    /\ TextEnd(s) > 1
    /\ \A i \in 1 .. TextEnd(s) - 1 : s[i] \in Alphanumeric

NormalizeSymbol(s) ==
    /\ TextEnd(s) > 1
    /\ \A i \in 1 .. TextEnd(s) - 1 : s[i] \in Alphanumeric
    /\ \A i \in TextEnd(s) .. Width : s[i] = NUL

(* The checks of the supply cap are in module Stablecoin.                  *)
InitializeStablecoin(payer, symbol, decimals, name_len, uri_len) ==
    /\ decimals = STABLECOIN_DECIMALS
    /\ name_len > 0 /\ name_len <= MAX_NAME_LEN
    /\ uri_len > 0 /\ uri_len <= MAX_URI_LEN
    /\ NormalizeSymbol(symbol)
    /\ Create({MintAt(symbol), ConfigAt(symbol)})
    /\ admin' = [admin EXCEPT ![symbol] = payer]
    /\ UNCHANGED <<pools, open>>

(* grant_minter and revoke_minter, for who may mint what; their other      *)
(* checks and the rotation of admins are in module Stablecoin.             *)
GrantMinter(signer, s, k) ==
    /\ Exists(s) /\ signer = admin[s]
    /\ Create({RoleAt(s, k)})
    /\ open' = open \cup {<<s, k>>}
    /\ UNCHANGED <<admin, pools>>

RevokeMinter(signer, s, k) ==
    /\ Exists(s) /\ signer = admin[s]
    /\ RoleAt(s, k) \in accounts
    /\ accounts' = accounts \ {RoleAt(s, k)}
    /\ open' = open \ {<<s, k>>}
    /\ UNCHANGED <<admin, pools>>

(* The role account mint_to asks for.                                      *)
MayMint(k, s) == Exists(s) /\ RoleAt(s, k) \in accounts

-----------------------------------------------------------------------------
(* Extensions of a stablecoin's mint: three at creation, and the one its   *)
(* metadata adds.                                                          *)
MintExtensions == {"DefaultAccountState", "Pausable", "MetadataPointer", "TokenMetadata"}

SupportedMintExtensions == {"DefaultAccountState", "Pausable", "MetadataPointer", "TokenMetadata"}

InOrder_Faulty(a, b) == a # b

InOrder(a, b) == a # b /\ Rank[a] < Rank[b]

PoolAccounts(a, b) ==
    {PoolAt(a, b), VaultAt(a, b, a), VaultAt(a, b, b), LpMintAt(a, b), LockedLpAt(a, b)}

(* Both mints have a config; their decimals are those every stablecoin is  *)
(* created with.                                                           *)
CanInitializePool(a, b, fee_bps) ==
    /\ Exists(a) /\ Exists(b)
    /\ InOrder(a, b)
    /\ fee_bps <= MAX_FEE_BPS
    /\ MintExtensions \subseteq SupportedMintExtensions
    /\ VaultAt(a, b, a) # VaultAt(a, b, b)
    /\ Free(PoolAccounts(a, b))

InitializePool(a, b, fee_bps) ==
    /\ CanInitializePool(a, b, fee_bps)
    /\ Create(PoolAccounts(a, b))
    /\ pools' = pools \cup {[mint_a |-> a, mint_b |-> b, fee_bps |-> fee_bps]}
    /\ UNCHANGED <<admin, open>>

-----------------------------------------------------------------------------
Next ==
    \/ \E payer \in Keys, symbol \in Symbol, decimals \in Decimals,
          name_len, uri_len \in Lengths :
           InitializeStablecoin(payer, symbol, decimals, name_len, uri_len)
    \/ \E signer, k \in Keys, s \in Symbol : GrantMinter(signer, s, k) \/ RevokeMinter(signer, s, k)
    \/ \E a, b \in Symbol, fee_bps \in Fees : InitializePool(a, b, fee_bps)

Spec == Init /\ [][Next]_vars

-----------------------------------------------------------------------------
(* Type invariant.  No pool charges more than MAX_FEE_BPS.                 *)
TypeOK ==
    /\ admin \in [Symbol -> Keys \cup {None}]
    /\ pools \subseteq [mint_a : Symbol, mint_b : Symbol, fee_bps : 0 .. MAX_FEE_BPS]
    /\ open \subseteq Symbol \X Keys

(* No two stablecoins show the same symbol: the address comes from all the *)
(* bytes of a symbol, what wallets display only from those before the      *)
(* first NUL, and nobody gets a second mint for the same text by varying   *)
(* the rest (normalize_symbol).                                            *)
DisplayedSymbolsDistinct ==
    \A s, t \in Symbol : Exists(s) /\ Exists(t) /\ Text(s) = Text(t) => s = t

(* However two creators name the mints and whatever fees they ask for,     *)
(* there is one pool of a pair (initialize_pool, InvalidMintOrder).        *)
OnePoolPerPair ==
    \A p, q \in pools : {p.mint_a, p.mint_b} = {q.mint_a, q.mint_b} => p = q

(* Nobody's stablecoins and pools stand in the way of another pool: any    *)
(* two stablecoins without one can have one, by one of the two orders of   *)
(* their mints, so initialize_pool accepts every mint initialize_stable-   *)
(* coin makes and no two pools want the same address.                      *)
EveryPairCanTrade ==
    \A a, b \in Symbol :
        /\ Exists(a) /\ Exists(b) /\ a # b
        /\ \A p \in pools : {p.mint_a, p.mint_b} # {a, b}
        => \/ CanInitializePool(a, b, 0) /\ ~CanInitializePool(b, a, 0)
           \/ CanInitializePool(b, a, 0) /\ ~CanInitializePool(a, b, 0)

(* A key may mint a stablecoin exactly while that stablecoin's admin has   *)
(* it so: a role one admin grants opens no other mint, nor does one admin  *)
(* take away or use up what another has granted.                           *)
RolesStayApart ==
    \A s \in Symbol, k \in Keys : MayMint(k, s) <=> <<s, k>> \in open
=============================================================================
