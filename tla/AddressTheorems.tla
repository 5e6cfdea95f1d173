-------------------------- MODULE AddressTheorems ---------------------------
(***************************************************************************)
(* Theorems about derived addresses.                                       *)
(*                                                                         *)
(* Module Registry: which exist, for symbols of any width over any bytes,  *)
(* any order of the mints' addresses, any number of keys, stablecoins and  *)
(* pools.                                                                  *)
(*                                                                         *)
(* Module PdaCreation: how an account comes to be at one, for initializers *)
(* that create any number of accounts of any lengths, payers with any      *)
(* purse and strangers who send any gifts.                                 *)
(***************************************************************************)
EXTENDS Registry, PdaCreation, TotalsTheorems,
        SequenceTheorems, NaturalsInduction, WellFoundedInduction, TLAPS

(* The text of a symbol ends at its first NUL.                             *)
LEMMA TextEndBounds ==
    ASSUME NEW s \in Symbol
    PROVE  TextEnd(s) \in 1 .. Width + 1
<1> DEFINE Nuls == {i \in 1 .. Width : s[i] = NUL}
           First(i) == s[i] = NUL /\ \A j \in 1 .. i - 1 : s[j] # NUL
<1>1. CASE Nuls = {}
  BY <1>1, RegistryAssumption DEF TextEnd
<1>2. CASE Nuls # {}
  <2>1. Nuls \subseteq Nat
    BY RegistryAssumption
  <2>2. PICK i \in Nuls : \A j \in Nuls : <<j, i>> \notin OpToRel(<, Nat)
    <3> HIDE DEF Nuls
    <3> QED
      BY <1>2, <2>1, NatLessThanWellFounded, WFMin
  <2>3. \A j \in Nuls : ~(j < i)
    BY <2>1, <2>2 DEF OpToRel
  <2>4. i \in 1 .. Width /\ First(i)
    BY <2>3, RegistryAssumption
  <2>5. TextEnd(s) = CHOOSE k \in 1 .. Width : First(k)
    BY <2>4 DEF TextEnd
  <2>6. TextEnd(s) \in 1 .. Width
    <3> HIDE DEF First
    <3> QED
      BY <2>4, <2>5
  <2> QED
    BY <2>6, RegistryAssumption
<1> QED
  BY <1>1, <1>2

(* The text is the bytes before its end.                                   *)
LEMMA TextBytes ==
    ASSUME NEW s \in Symbol
    PROVE  /\ Len(Text(s)) = TextEnd(s) - 1
           /\ \A i \in 1 .. TextEnd(s) - 1 : Text(s)[i] = s[i]
<1> DEFINE Byte == {NUL} \cup Alphanumeric \cup Punctuation
           e == TextEnd(s)
<1>1. e \in 1 .. Width + 1 /\ Width \in Nat
  BY TextEndBounds, RegistryAssumption
<1>2. \A i \in 1 .. e - 1 : s[i] \in Byte
  BY <1>1 DEF Symbol
<1>3. /\ Len(SubSeq(s, 1, e - 1)) = IF 1 <= e - 1 THEN (e - 1) - 1 + 1 ELSE 0
      /\ \A i \in 1 .. (e - 1) - 1 + 1 : SubSeq(s, 1, e - 1)[i] = s[1 + i - 1]
  <2> HIDE DEF Byte, e
  <2>1. e - 1 \in Int /\ 1 \in Int
    BY <1>1
  <2> QED
    BY <1>2, <2>1, SubSeqProperties
<1>4. Text(s) = SubSeq(s, 1, e - 1)
  BY DEF Text
<1> HIDE DEF e
<1>5. Len(Text(s)) = e - 1
  BY <1>1, <1>3, <1>4
<1>6. ASSUME NEW i \in 1 .. e - 1 PROVE Text(s)[i] = s[i]
  <2>1. i \in 1 .. (e - 1) - 1 + 1 /\ 1 + i - 1 = i
    BY <1>1
  <2> QED
    BY <1>3, <1>4, <2>1
<1> QED
  BY <1>5, <1>6 DEF e

(* So two normalized symbols with the same text are the same bytes.        *)
LEMMA NormalizedByText ==
    ASSUME NEW s \in Symbol, NEW t \in Symbol,
           NormalizeSymbol(s), NormalizeSymbol(t), Text(s) = Text(t)
    PROVE  s = t
<1>1. TextEnd(s) \in 1 .. Width + 1 /\ TextEnd(t) \in 1 .. Width + 1 /\ Width \in Nat
  BY TextEndBounds, RegistryAssumption
<1>2. TextEnd(s) = TextEnd(t)
  BY <1>1, TextBytes
<1>3. ASSUME NEW i \in 1 .. Width PROVE s[i] = t[i]
  <2>1. CASE i < TextEnd(s)
    <3>1. i \in 1 .. TextEnd(s) - 1 /\ i \in 1 .. TextEnd(t) - 1
      BY <1>1, <1>2, <2>1
    <3>2. Text(s)[i] = s[i] /\ Text(t)[i] = t[i]
      BY <3>1, TextBytes
    <3> QED
      BY <3>2
  <2>2. CASE ~(i < TextEnd(s))
    <3>1. i \in TextEnd(s) .. Width /\ i \in TextEnd(t) .. Width
      BY <1>1, <1>2, <2>2
    <3> QED
      BY <3>1 DEF NormalizeSymbol
  <2> QED
    BY <2>1, <2>2
<1>4. /\ s = [i \in 1 .. Width |-> s[i]]
      /\ t = [i \in 1 .. Width |-> t[i]]
  BY DEF Symbol
<1> QED
  BY ONLY <1>3, <1>4

-----------------------------------------------------------------------------
(* The inductive invariant.                                                *)

(* A stablecoin that exists has a normalized symbol.                       *)
Normalized == \A s \in Symbol : Exists(s) => NormalizeSymbol(s)

(* A pool's address is in use, and its mints are in order.                 *)
PoolsInUse ==
    \A p \in pools : /\ PoolAt(p.mint_a, p.mint_b) \in accounts
                     /\ Rank[p.mint_a] < Rank[p.mint_b]

(* At most one pool has a given address.                                   *)
PoolsByAddress ==
    \A p, q \in pools : p.mint_a = q.mint_a /\ p.mint_b = q.mint_b => p = q

(* A role is in use exactly while it is granted, and only on a stablecoin  *)
(* that exists.                                                            *)
RolesInUse ==
    \A s \in Symbol, k \in Keys :
        /\ RoleAt(s, k) \in accounts <=> <<s, k>> \in open
        /\ <<s, k>> \in open => Exists(s)

(* An address a pool would need is in use only if the pool exists.         *)
PoolAccountsInUse ==
    \A a, b \in Symbol :
        ~Free(PoolAccounts(a, b)) => \E p \in pools : p.mint_a = a /\ p.mint_b = b

IInv ==
    TypeOK /\ Normalized /\ PoolsInUse /\ PoolsByAddress /\ RolesInUse /\ PoolAccountsInUse

-----------------------------------------------------------------------------
(* Addresses of different kinds, or from different seeds, differ.          *)
LEMMA AddressesDiffer ==
    ASSUME NEW s, NEW k, NEW t, NEW a, NEW b, NEW c, NEW d, NEW m
    PROVE  /\ RoleAt(s, k) # MintAt(t) /\ RoleAt(s, k) # ConfigAt(t)
           /\ RoleAt(s, k) # PoolAt(a, b) /\ RoleAt(s, k) # VaultAt(a, b, m)
           /\ RoleAt(s, k) # LpMintAt(a, b) /\ RoleAt(s, k) # LockedLpAt(a, b)
           /\ RoleAt(s, k) = RoleAt(t, m) => s = t /\ k = m
           /\ PoolAt(a, b) = PoolAt(c, d) => a = c /\ b = d
  BY DEF RoleAt, MintAt, ConfigAt, PoolAt, VaultAt, LpMintAt, LockedLpAt

LEMMA PoolAccountsDiffer ==
    ASSUME NEW a, NEW b, NEW c, NEW d, PoolAccounts(a, b) \cap PoolAccounts(c, d) # {}
    PROVE  a = c /\ b = d
<1>1. PICK x : x \in PoolAccounts(a, b) /\ x \in PoolAccounts(c, d)
  OBVIOUS
<1> QED
  BY <1>1 DEF PoolAccounts, PoolAt, VaultAt, LpMintAt, LockedLpAt

LEMMA MintIsNoPoolAccount ==
    ASSUME NEW a, NEW b, NEW s
    PROVE  PoolAccounts(a, b) \cap {MintAt(s), ConfigAt(s)} = {}
<1>1. MintAt(s) \notin PoolAccounts(a, b)
  BY DEF PoolAccounts, MintAt, PoolAt, VaultAt, LpMintAt, LockedLpAt
<1>2. ConfigAt(s) \notin PoolAccounts(a, b)
  BY DEF PoolAccounts, ConfigAt, PoolAt, VaultAt, LpMintAt, LockedLpAt
<1> QED
  BY <1>1, <1>2

LEMMA RoleIsNoPoolAccount ==
    ASSUME NEW a, NEW b, NEW s, NEW k
    PROVE  PoolAccounts(a, b) \cap {RoleAt(s, k)} = {}
<1>1. RoleAt(s, k) \notin PoolAccounts(a, b)
  BY DEF PoolAccounts, RoleAt, PoolAt, VaultAt, LpMintAt, LockedLpAt
<1> QED
  BY <1>1

(* A pool's addresses stay free unless one of them is taken.               *)
LEMMA StillFree ==
    ASSUME NEW taken, accounts' \subseteq accounts \cup taken,
           NEW a, NEW b, PoolAccounts(a, b) \cap taken = {}
    PROVE  Free(PoolAccounts(a, b)) => Free(PoolAccounts(a, b))'
<1> SUFFICES ASSUME PoolAccounts(a, b) \cap accounts = {}
             PROVE  PoolAccounts(a, b) \cap accounts' = {}
  BY DEF Free
<1> QED
  OBVIOUS

-----------------------------------------------------------------------------
(* Each action keeps it.                                                   *)
LEMMA InitIsInductive ==
    ASSUME Init
    PROVE  IInv
  BY DEF Init, IInv, TypeOK, Normalized, PoolsInUse, PoolsByAddress, RolesInUse, Exists,
         PoolAccountsInUse, Free

LEMMA InitializeStablecoinStep ==
    ASSUME IInv, NEW payer \in Keys, NEW symbol \in Symbol, NEW decimals, NEW name_len, NEW uri_len,
           InitializeStablecoin(payer, symbol, decimals, name_len, uri_len)
    PROVE  IInv'
<1>1. /\ NormalizeSymbol(symbol)
      /\ accounts' = accounts \cup {MintAt(symbol), ConfigAt(symbol)}
      /\ admin' = [admin EXCEPT ![symbol] = payer]
      /\ pools' = pools /\ open' = open
  BY DEF InitializeStablecoin, Create
<1>2. /\ admin' \in [Symbol -> Keys \cup {None}]
      /\ \A s \in Symbol : Exists(s)' <=> Exists(s) \/ s = symbol
  BY <1>1, RegistryAssumption DEF IInv, TypeOK, Exists
<1>3. TypeOK'
  BY <1>1, <1>2 DEF IInv, TypeOK
<1>4. Normalized'
  BY <1>1, <1>2 DEF IInv, Normalized
<1>5. PoolsInUse' /\ PoolsByAddress'
  BY <1>1 DEF IInv, PoolsInUse, PoolsByAddress
<1>6. RolesInUse'
  <2>1. \A t \in Symbol, j \in Keys : RoleAt(t, j) \in accounts' <=> RoleAt(t, j) \in accounts
    BY <1>1, AddressesDiffer
  <2> QED
    BY <1>1, <1>2, <2>1 DEF IInv, RolesInUse
<1>7. PoolAccountsInUse'
  <2>1. ASSUME NEW a, NEW b
        PROVE  Free(PoolAccounts(a, b)) => Free(PoolAccounts(a, b))'
    <3>1. PoolAccounts(a, b) \cap {MintAt(symbol), ConfigAt(symbol)} = {}
      BY MintIsNoPoolAccount
    <3>2. accounts' \subseteq accounts \cup {MintAt(symbol), ConfigAt(symbol)}
      BY <1>1
    <3> QED
      BY ONLY <3>1, <3>2, StillFree
  <2> QED
    BY <1>1, <2>1 DEF IInv, PoolAccountsInUse
<1> QED
  BY <1>3, <1>4, <1>5, <1>6, <1>7 DEF IInv

LEMMA GrantMinterStep ==
    ASSUME IInv, NEW signer, NEW s \in Symbol, NEW k \in Keys, GrantMinter(signer, s, k)
    PROVE  IInv'
<1>1. /\ Exists(s)
      /\ accounts' = accounts \cup {RoleAt(s, k)}
      /\ open' = open \cup {<<s, k>>}
      /\ admin' = admin /\ pools' = pools
  BY DEF GrantMinter, Create
<1>2. TypeOK' /\ Normalized'
  BY <1>1 DEF IInv, TypeOK, Normalized, Exists
<1>3. PoolsInUse' /\ PoolsByAddress'
  BY <1>1 DEF IInv, PoolsInUse, PoolsByAddress
<1>4. RolesInUse'
  <2>1. \A t \in Symbol, j \in Keys :
            RoleAt(t, j) \in accounts' <=> RoleAt(t, j) \in accounts \/ (t = s /\ j = k)
    BY <1>1, AddressesDiffer
  <2>2. \A t \in Symbol, j \in Keys :
            <<t, j>> \in open' <=> <<t, j>> \in open \/ (t = s /\ j = k)
    BY <1>1
  <2> QED
    BY <1>1, <2>1, <2>2 DEF IInv, RolesInUse, Exists
<1>5. PoolAccountsInUse'
  <2>1. ASSUME NEW a, NEW b
        PROVE  Free(PoolAccounts(a, b)) => Free(PoolAccounts(a, b))'
    <3>1. PoolAccounts(a, b) \cap {RoleAt(s, k)} = {}
      BY RoleIsNoPoolAccount
    <3>2. accounts' \subseteq accounts \cup {RoleAt(s, k)}
      BY <1>1
    <3> QED
      BY ONLY <3>1, <3>2, StillFree
  <2> QED
    BY <1>1, <2>1 DEF IInv, PoolAccountsInUse
<1> QED
  BY <1>2, <1>3, <1>4, <1>5 DEF IInv

LEMMA RevokeMinterStep ==
    ASSUME IInv, NEW signer, NEW s \in Symbol, NEW k \in Keys, RevokeMinter(signer, s, k)
    PROVE  IInv'
<1>1. /\ accounts' = accounts \ {RoleAt(s, k)}
      /\ open' = open \ {<<s, k>>}
      /\ admin' = admin /\ pools' = pools
  BY DEF RevokeMinter
<1>2. TypeOK' /\ Normalized'
  BY <1>1 DEF IInv, TypeOK, Normalized, Exists
<1>3. PoolsInUse' /\ PoolsByAddress'
  <2>1. \A a, b : PoolAt(a, b) \in accounts => PoolAt(a, b) \in accounts'
    BY <1>1, AddressesDiffer
  <2> QED
    BY <1>1, <2>1 DEF IInv, PoolsInUse, PoolsByAddress
<1>4. RolesInUse'
  <2>1. \A t \in Symbol, j \in Keys :
            RoleAt(t, j) \in accounts' <=> RoleAt(t, j) \in accounts /\ ~(t = s /\ j = k)
    BY <1>1, AddressesDiffer
  <2>2. \A t \in Symbol, j \in Keys :
            <<t, j>> \in open' <=> <<t, j>> \in open /\ ~(t = s /\ j = k)
    BY <1>1
  <2> QED
    BY <1>1, <2>1, <2>2 DEF IInv, RolesInUse, Exists
<1>5. PoolAccountsInUse'
  <2>1. ASSUME NEW a, NEW b
        PROVE  Free(PoolAccounts(a, b)) => Free(PoolAccounts(a, b))'
    <3>1. accounts' \subseteq accounts \cup {} /\ PoolAccounts(a, b) \cap {} = {}
      BY <1>1
    <3> QED
      BY ONLY <3>1, StillFree
  <2> QED
    BY <1>1, <2>1 DEF IInv, PoolAccountsInUse
<1> QED
  BY <1>2, <1>3, <1>4, <1>5 DEF IInv

LEMMA InitializePoolStep ==
    ASSUME IInv, NEW a \in Symbol, NEW b \in Symbol, NEW fee_bps \in Nat,
           InitializePool(a, b, fee_bps)
    PROVE  IInv'
<1> DEFINE new == [mint_a |-> a, mint_b |-> b, fee_bps |-> fee_bps]
<1>1. /\ InOrder(a, b) /\ fee_bps <= MAX_FEE_BPS
      /\ PoolAt(a, b) \notin accounts
      /\ PoolAt(a, b) \in accounts'
      /\ accounts' = accounts \cup PoolAccounts(a, b)
      /\ pools' = pools \cup {new}
      /\ admin' = admin /\ open' = open
  BY DEF InitializePool, CanInitializePool, Create, Free, PoolAccounts
<1>2. new.mint_a = a /\ new.mint_b = b
  OBVIOUS
<1>3. new \in [mint_a : Symbol, mint_b : Symbol, fee_bps : 0 .. MAX_FEE_BPS]
  BY <1>1, RegistryAssumption
<1>4. TypeOK' /\ Normalized'
  <2> HIDE DEF new
  <2> QED
    BY <1>1, <1>3 DEF IInv, TypeOK, Normalized, Exists
<1>5. PoolsInUse'
  <2> HIDE DEF new
  <2>1. SUFFICES ASSUME NEW p \in pools'
                 PROVE  /\ PoolAt(p.mint_a, p.mint_b) \in accounts'
                        /\ Rank[p.mint_a] < Rank[p.mint_b]
    BY DEF PoolsInUse
  <2>2. CASE p = new
    BY <1>1, <1>2, <2>2 DEF InOrder
  <2>3. CASE p \in pools
    BY <1>1, <2>3 DEF IInv, PoolsInUse
  <2> QED
    BY <1>1, <2>1, <2>2, <2>3
<1>6. PoolsByAddress'
  <2> HIDE DEF new
  <2>1. \A p \in pools : ~(p.mint_a = a /\ p.mint_b = b)
    BY <1>1 DEF IInv, PoolsInUse
  <2> QED
    BY <1>1, <1>2, <2>1 DEF IInv, PoolsByAddress
<1>7. RolesInUse'
  <2>1. \A t \in Symbol, j \in Keys : RoleAt(t, j) \in accounts' <=> RoleAt(t, j) \in accounts
    BY <1>1, RoleIsNoPoolAccount
  <2> QED
    BY <1>1, <2>1 DEF IInv, RolesInUse, Exists
<1>8. PoolAccountsInUse'
  <2>1. SUFFICES ASSUME NEW c \in Symbol, NEW d \in Symbol, ~Free(PoolAccounts(c, d))'
                 PROVE  \E p \in pools' : p.mint_a = c /\ p.mint_b = d
    BY DEF PoolAccountsInUse
  <2>2. \/ ~Free(PoolAccounts(c, d)) \/ PoolAccounts(a, b) \cap PoolAccounts(c, d) # {}
    BY <1>1, <2>1 DEF Free, PoolAccounts, PoolAt, VaultAt, LpMintAt, LockedLpAt
  <2>3. CASE ~Free(PoolAccounts(c, d))
    BY <1>1, <2>3 DEF IInv, PoolAccountsInUse
  <2>4. CASE PoolAccounts(a, b) \cap PoolAccounts(c, d) # {}
    <3>1. a = c /\ b = d
      BY <2>4, PoolAccountsDiffer
    <3> QED
      BY <1>1, <1>2, <3>1
  <2> QED
    BY <2>2, <2>3, <2>4
<1> QED
  BY <1>4, <1>5, <1>6, <1>7, <1>8 DEF IInv

-----------------------------------------------------------------------------
(* Every reachable state satisfies the inductive invariant.                *)
THEOREM InductiveInvariant == Spec => []IInv
<1>1. Init => IInv
  BY InitIsInductive
<1>2. IInv /\ [Next]_vars => IInv'
  <2>1. IInv /\ UNCHANGED vars => IInv'
    BY DEF vars, IInv, TypeOK, Normalized, PoolsInUse, PoolsByAddress, RolesInUse, Exists,
           PoolAccountsInUse, Free
  <2>2. IInv /\ Next => IInv'
    <3>1. SUFFICES ASSUME IInv, Next PROVE IInv'
      OBVIOUS
    <3>2. CASE \E payer \in Keys, symbol \in Symbol, decimals \in Decimals,
                  name_len, uri_len \in Lengths :
                   InitializeStablecoin(payer, symbol, decimals, name_len, uri_len)
      BY <3>1, <3>2, InitializeStablecoinStep
    <3>3. CASE \E signer, k \in Keys, s \in Symbol :
                   GrantMinter(signer, s, k) \/ RevokeMinter(signer, s, k)
      BY <3>1, <3>3, GrantMinterStep, RevokeMinterStep
    <3>4. CASE \E a, b \in Symbol, fee_bps \in Fees : InitializePool(a, b, fee_bps)
      BY <3>1, <3>4, InitializePoolStep, RegistryAssumption
    <3> QED
      BY <3>1, <3>2, <3>3, <3>4 DEF Next
  <2> QED
    BY <2>1, <2>2
<1> QED
  BY <1>1, <1>2, PTL DEF Spec

(* Whatever bytes people ask for, no two stablecoins show the same symbol. *)
THEOREM SymbolsDiffer == Spec => []DisplayedSymbolsDistinct
<1>1. IInv => DisplayedSymbolsDistinct
  BY NormalizedByText DEF IInv, Normalized, DisplayedSymbolsDistinct
<1> QED
  BY <1>1, InductiveInvariant, PTL

(* In whatever order creators name two mints, they get one pool.           *)
THEOREM PoolsDiffer == Spec => []OnePoolPerPair
<1>1. IInv => OnePoolPerPair
  <2> SUFFICES ASSUME IInv, NEW p \in pools, NEW q \in pools,
                      {p.mint_a, p.mint_b} = {q.mint_a, q.mint_b}
               PROVE  p = q
    BY DEF OnePoolPerPair
  <2>1. /\ p.mint_a \in Symbol /\ p.mint_b \in Symbol
        /\ q.mint_a \in Symbol /\ q.mint_b \in Symbol
    BY DEF IInv, TypeOK
  <2>2. \A s \in Symbol : Rank[s] \in Nat
    BY RegistryAssumption
  <2>3. Rank[p.mint_a] < Rank[p.mint_b] /\ Rank[q.mint_a] < Rank[q.mint_b]
    BY DEF IInv, PoolsInUse
  <2>4. \/ p.mint_a = q.mint_a /\ p.mint_b = q.mint_b
        \/ p.mint_a = q.mint_b /\ p.mint_b = q.mint_a
    OBVIOUS
  <2>5. p.mint_a = q.mint_a /\ p.mint_b = q.mint_b
    BY <2>1, <2>2, <2>3, <2>4
  <2> QED
    BY <2>5 DEF IInv, PoolsByAddress
<1> QED
  BY <1>1, InductiveInvariant, PTL

(* A key mints exactly the stablecoins whose admins let it.                *)
THEOREM RolesApart == Spec => []RolesStayApart
<1>1. IInv => RolesStayApart
  BY DEF IInv, RolesInUse, RolesStayApart, MayMint
<1> QED
  BY <1>1, InductiveInvariant, PTL

(* Whatever others have created, two stablecoins without a pool can have   *)
(* one, in one order of their mints and not in the other.                  *)
THEOREM PairsCanTrade == Spec => []EveryPairCanTrade
<1>1. IInv => EveryPairCanTrade
  <2>1. SUFFICES ASSUME IInv, NEW a \in Symbol, NEW b \in Symbol, Exists(a), Exists(b), a # b,
                        \A p \in pools : {p.mint_a, p.mint_b} # {a, b}
                 PROVE  \/ CanInitializePool(a, b, 0) /\ ~CanInitializePool(b, a, 0)
                        \/ CanInitializePool(b, a, 0) /\ ~CanInitializePool(a, b, 0)
    BY DEF EveryPairCanTrade
  <2>2. Free(PoolAccounts(a, b)) /\ Free(PoolAccounts(b, a))
    BY <2>1 DEF IInv, PoolAccountsInUse
  <2>3. /\ VaultAt(a, b, a) # VaultAt(a, b, b) /\ VaultAt(b, a, b) # VaultAt(b, a, a)
        /\ MintExtensions \subseteq SupportedMintExtensions
    BY <2>1 DEF VaultAt, MintExtensions, SupportedMintExtensions
  <2>4. /\ 0 <= MAX_FEE_BPS /\ Rank[a] \in Nat /\ Rank[b] \in Nat /\ Rank[a] # Rank[b]
    BY <2>1, RegistryAssumption
  <2>5. \/ InOrder(a, b) /\ ~InOrder(b, a)
        \/ InOrder(b, a) /\ ~InOrder(a, b)
    BY <2>1, <2>4 DEF InOrder
  <2> QED
    BY <2>1, <2>2, <2>3, <2>4, <2>5 DEF CanInitializePool
<1> QED
  BY <1>1, InductiveInvariant, PTL

-----------------------------------------------------------------------------
(* The inductive invariant of a transaction that creates accounts.         *)

Programs == {"System"} \cup {Owner[x] : x \in Address}

Account == [lamports : Nat, owner : Programs, len : Nat]

CreationTyped ==
    /\ children \in Instructions
    /\ account \in [Child -> Account]
    /\ purse \in Nat
    /\ at \in 1 .. Len(children)
    /\ step \in {"idle", "create", "allocate", "assign", "initialize", "commit", "done"}
    /\ saved \in [account : [Child -> Account], purse : Nat]

(* Before its transaction an address is only funded.                       *)
Unused(a) == a.owner = "System" /\ a.len = 0

FoundUnused ==
    /\ \A x \in Child : Unused(saved.account[x])
    /\ step = "idle" => \A x \in Child : Unused(account[x])

(* The transaction has not touched the addresses it has yet to come to.    *)
RestUntouched ==
    step \notin {"idle", "commit", "done"} =>
        \A i \in at .. Len(children) :
            i > at \/ step = "create" => account[children[i]] = saved.account[children[i]]

(* The calls are over.                                                     *)
AllCalled == step \in {"commit", "done"}

(* The addresses it has left behind are finished, all of them at its end.  *)
Finished(x) ==
    /\ account[x].owner = Owner[x]
    /\ account[x].len = FinalSpace[x]
    /\ account[x].lamports >= Funding(x)

FinishedSoFar ==
    /\ step # "idle" => \A i \in 1 .. at : i < at \/ AllCalled => Finished(children[i])
    /\ AllCalled => at = Len(children)

(* Where it is at work, the address has come as far as the call before.    *)
TargetPrepared ==
    /\ step = "allocate" => Unused(account[target])
    /\ step = "assign" => account[target].owner = "System" /\ account[target].len = Space[target]
    /\ step = "initialize" => account[target].owner = Owner[target] /\ account[target].len = Space[target]
    /\ step \in {"allocate", "assign", "initialize"} => account[target].lamports >= Funding(target)

(* So far the payer has paid what was missing at the addresses it funded.  *)
Funded == {children[i] : i \in 1 .. at - 1} \cup (IF step = "create" THEN {} ELSE {target})

PaidSoFar == step # "idle" => purse = saved.purse - Total(Due, Funded)

CreationInv ==
    /\ CreationTyped /\ FoundUnused /\ RestUntouched
    /\ FinishedSoFar /\ TargetPrepared /\ PaidSoFar

-----------------------------------------------------------------------------
(* The addresses of an instruction.                                        *)
LEMMA ChildrenDiffer ==
    ASSUME CreationTyped
    PROVE  /\ Len(children) \in Nat /\ 1 <= Len(children)
           /\ \A i \in 1 .. Len(children) : children[i] \in Child /\ children[i] \in Address
           /\ \A i, j \in 1 .. Len(children) : children[i] = children[j] => i = j
           /\ target \in Child /\ target \in Address
           /\ Child \subseteq Address
<1>1. children \in Instructions /\ at \in 1 .. Len(children)
  BY DEF CreationTyped
<1>2. /\ children \in Seq(Address) /\ children # << >>
      /\ \A i, j \in 1 .. Len(children) : children[i] = children[j] => i = j
  BY <1>1, CreationAssumption
<1>3. Len(children) \in Nat /\ 1 <= Len(children)
  BY <1>2
<1>4. \A i \in 1 .. Len(children) : children[i] \in Child /\ children[i] \in Address
  BY <1>2 DEF Child
<1>5. target \in Child /\ target \in Address
  BY <1>1, <1>4 DEF target
<1>6. Child \subseteq Address
  BY <1>4 DEF Child
<1> QED
  BY <1>2, <1>3, <1>4, <1>5, <1>6

LEMMA FundingType ==
    ASSUME NEW x \in Address
    PROVE  /\ Funding(x) \in Nat /\ FinalSpace[x] \in Nat /\ Space[x] \in Nat /\ Overhead \in Nat
           /\ "System" \in Programs /\ Owner[x] \in Programs /\ Owner[x] # "System"
  BY CreationAssumption DEF Funding, Rent, Programs

(* What is missing, for some or all of the addresses.                      *)
LEMMA DueTotals ==
    ASSUME CreationTyped, NEW S \in SUBSET Child
    PROVE  /\ Due \in [Child -> Nat]
           /\ IsFiniteSet(Units(Due, S)) /\ Total(Due, S) \in Nat
           /\ Missing \in Nat /\ Total(Due, S) <= Missing
<1>1. ASSUME NEW x \in Child PROVE Lacking(x, saved.account[x].lamports) \in Nat
  <2>1. saved.account[x].lamports \in Nat
    BY DEF CreationTyped, Account
  <2>2. Funding(x) \in Nat
    BY ChildrenDiffer, FundingType
  <2> QED
    BY <2>1, <2>2 DEF Lacking
<1>2. Due \in [Child -> Nat]
  BY <1>1 DEF Due
<1>3. IsFiniteSet(Child)
  <2> DEFINE child == [i \in 1 .. Len(children) |-> children[i]]
  <2>1. child \in Surjection(1 .. Len(children), Child)
    BY DEF Surjection, Child
  <2>2. IsFiniteSet(1 .. Len(children))
    BY ChildrenDiffer, FS_Interval
  <2> HIDE DEF child
  <2> QED
    BY <2>1, <2>2, FS_Surjection
<1>4. IsFiniteSet(Units(Due, Child))
  BY <1>2, <1>3, FinitelyMany
<1> QED
  BY <1>2, <1>4, PartOfTotal DEF Missing

(* Funding the target adds what is due there to what is paid.              *)
LEMMA TargetJoinsFunded ==
    ASSUME CreationTyped, step = "create"
    PROVE  /\ Funded \in SUBSET Child /\ target \notin Funded
           /\ Total(Due, Funded \cup {target}) = Total(Due, Funded) + Due[target]
           /\ Total(Due, Funded) \in Nat /\ Due[target] \in Nat
           /\ Total(Due, Funded) + Due[target] <= Missing
<1>1. /\ at \in 1 .. Len(children) /\ Len(children) \in Nat
      /\ Funded = {children[i] : i \in 1 .. at - 1}
  BY ChildrenDiffer DEF Funded, CreationTyped
<1>2. Funded \in SUBSET Child
  BY <1>1, ChildrenDiffer
<1>3. target \notin Funded
  BY <1>1, ChildrenDiffer DEF target
<1>4. target \in Child /\ Funded \cup {target} \in SUBSET Child
  BY <1>2, ChildrenDiffer
<1>5. /\ Due \in [Child -> Nat]
      /\ IsFiniteSet(Units(Due, Funded)) /\ Total(Due, Funded) \in Nat
  BY <1>2, DueTotals
<1>6. Due[target] \in Nat
  BY <1>4, <1>5
<1>7. Total(Due, Funded \cup {target}) = Total(Due, Funded) + Due[target]
  BY <1>3, <1>5, <1>6, Joined
<1>8. Total(Due, Funded \cup {target}) <= Missing
  BY <1>4, DueTotals
<1> QED
  BY <1>2, <1>3, <1>5, <1>6, <1>7, <1>8

(* A call that works on the target leaves the rest of the invariant alone. *)
LEMMA SameInstruction ==
    ASSUME children' = children, saved' = saved
    PROVE  /\ Child' = Child /\ Due' = Due
           /\ \A x : Unused(saved'.account[x]) <=> Unused(saved.account[x])
<1>1. Child' = Child
  BY DEF Child
<1>2. ASSUME NEW x \in Child
      PROVE  Lacking(x, saved.account[x].lamports)' = Lacking(x, saved.account[x].lamports)
  BY DEF Lacking, Funding, Rent
<1> QED
  BY <1>1, <1>2 DEF Due

LEMMA CreationInitIsInductive ==
    ASSUME CreationInit
    PROVE  CreationInv
<1>1. /\ children \in Instructions /\ account = [x \in Child |-> Empty] /\ purse \in Purses
      /\ at = 1 /\ step = "idle" /\ saved = [account |-> account, purse |-> purse]
  BY DEF CreationInit
<1>2. account \in [Child -> Account] /\ \A x \in Child : Unused(account[x])
  BY <1>1 DEF Empty, Account, Programs, Unused
<1>3. at \in 1 .. Len(children)
  BY <1>1, CreationAssumption
<1>4. CreationTyped
  BY <1>1, <1>2, <1>3, CreationAssumption DEF CreationTyped
<1> QED
  BY <1>1, <1>2, <1>4
  DEF CreationInv, FoundUnused, RestUntouched, FinishedSoFar, AllCalled, TargetPrepared, PaidSoFar

LEMMA BeginStep ==
    ASSUME CreationInv, Begin
    PROVE  CreationInv'
<1>1. /\ step = "idle" /\ step' = "create" /\ at' = 1
      /\ saved' = [account |-> account, purse |-> purse]
      /\ children' = children /\ account' = account /\ purse' = purse
  BY DEF Begin
<1>2. CreationTyped
  BY DEF CreationInv
<1>3. Child' = Child /\ 1 \in 1 .. Len(children)
  BY <1>1, <1>2, ChildrenDiffer DEF Child
<1>4. CreationTyped'
  BY <1>1, <1>2, <1>3 DEF CreationTyped
<1>5. FoundUnused'
  BY <1>1, <1>3 DEF CreationInv, FoundUnused, Unused
<1>6. RestUntouched' /\ FinishedSoFar' /\ TargetPrepared'
  BY <1>1 DEF RestUntouched, FinishedSoFar, AllCalled, TargetPrepared
<1>7. PaidSoFar'
  <2>1. Funded' = {}
    BY <1>1 DEF Funded
  <2>2. Total(Due', {}) = 0
    BY NothingHeld
  <2>3. purse \in Nat
    BY <1>2 DEF CreationTyped
  <2>4. PaidSoFar' <=> (step' # "idle" => purse' = saved'.purse - Total(Due', Funded'))
    BY DEF PaidSoFar
  <2> QED
    BY <1>1, <2>1, <2>2, <2>3, <2>4
<1> QED
  BY <1>4, <1>5, <1>6, <1>7 DEF CreationInv

(* What every call at the target has in common: all but the account at     *)
(* the target, the payer's purse and the next call stay as they are.       *)
LEMMA AtTheTarget ==
    ASSUME CreationInv, step \in {"create", "allocate", "assign"},
           step' \in {"allocate", "assign", "initialize"},
           children' = children, at' = at, saved' = saved, purse' \in Nat,
           NEW a \in Account, account' = [account EXCEPT ![target] = a]
    PROVE  /\ CreationTyped' /\ FoundUnused' /\ RestUntouched' /\ FinishedSoFar'
           /\ target' = target /\ account'[target] = a
           /\ Funded' = {children[i] : i \in 1 .. at - 1} \cup {target}
<1>1. CreationTyped /\ FoundUnused /\ RestUntouched /\ FinishedSoFar
  BY DEF CreationInv
<1>2. Child' = Child /\ target' = target /\ target \in Child
  BY <1>1, SameInstruction, ChildrenDiffer DEF target
<1>3. /\ account' \in [Child -> Account] /\ account'[target] = a
      /\ \A x \in Child : x # target => account'[x] = account[x]
  BY <1>1, <1>2 DEF CreationTyped
<1>4. CreationTyped'
  BY <1>1, <1>2, <1>3 DEF CreationTyped
<1>5. FoundUnused'
  BY <1>1, <1>2 DEF FoundUnused, Unused
<1>6. \A i \in 1 .. Len(children) : i # at => children[i] \in Child /\ children[i] # target
  BY <1>1, ChildrenDiffer DEF target, CreationTyped
<1>7. RestUntouched'
  <2> SUFFICES ASSUME NEW i \in at .. Len(children), i > at
               PROVE  account'[children[i]] = saved.account[children[i]]
    BY DEF RestUntouched
  <2>1. i \in 1 .. Len(children) /\ i # at
    BY <1>1, ChildrenDiffer DEF CreationTyped
  <2> QED
    BY <1>1, <1>3, <1>6, <2>1 DEF RestUntouched
<1>8. FinishedSoFar'
  <2> SUFFICES ASSUME NEW i \in 1 .. at, i < at
               PROVE  Finished(children[i])'
    BY DEF FinishedSoFar, AllCalled
  <2>1. i \in 1 .. Len(children) /\ i # at
    BY <1>1, ChildrenDiffer DEF CreationTyped
  <2>2. Finished(children[i])
    BY <1>1 DEF FinishedSoFar
  <2> QED
    BY <1>3, <1>6, <2>1, <2>2 DEF Finished, Funding, Rent
<1>9. Funded' = {children[i] : i \in 1 .. at - 1} \cup {target}
  BY <1>2 DEF Funded
<1> QED
  BY <1>2, <1>3, <1>4, <1>5, <1>7, <1>8, <1>9

(* At an address the transaction has not come to, what it found.           *)
LEMMA TargetAsFound ==
    ASSUME CreationInv, step = "create"
    PROVE  /\ account[target] = saved.account[target] /\ Unused(account[target])
           /\ account[target] \in Account
           /\ Due[target] = Deficit(target)
           /\ account[target].lamports = 0 => account[target] = Empty /\ Due[target] = Funding(target)
           /\ Funding(target) \in Nat /\ account[target].lamports + Due[target] >= Funding(target)
<1>1. CreationTyped /\ target \in Child /\ target \in Address
  BY ChildrenDiffer DEF CreationInv
<1>2. at \in at .. Len(children)
  BY <1>1, ChildrenDiffer DEF CreationTyped
<1>3. account[target] = saved.account[target]
  BY <1>2 DEF CreationInv, RestUntouched, target
<1>4. Unused(account[target]) /\ account[target] \in Account
  BY <1>1, <1>3 DEF CreationInv, FoundUnused, CreationTyped
<1>5. Due[target] = Deficit(target)
  BY <1>1, <1>3 DEF Due, Deficit
<1>6. account[target].lamports \in Nat /\ Funding(target) \in Nat
  BY <1>1, <1>4, FundingType DEF Account
<1>7. account[target].lamports = 0 => account[target] = Empty
  BY <1>4 DEF Account, Empty, Unused
<1>8. account[target].lamports = 0 => Due[target] = Funding(target)
  BY <1>5, <1>6 DEF Deficit, Lacking
<1>9. account[target].lamports + Due[target] >= Funding(target)
  BY <1>5, <1>6 DEF Deficit, Lacking
<1> QED
  BY <1>3, <1>4, <1>5, <1>6, <1>7, <1>8, <1>9

(* The payer pays what is due at the target.                               *)
LEMMA PaidAtTarget ==
    ASSUME CreationInv, step = "create", step' # "idle", saved' = saved, children' = children,
           purse' = purse - Due[target], Funded' = Funded \cup {target}
    PROVE  PaidSoFar'
<1>1. CreationTyped /\ purse = saved.purse - Total(Due, Funded)
  BY DEF CreationInv, PaidSoFar
<1>2. /\ Total(Due, Funded \cup {target}) = Total(Due, Funded) + Due[target]
      /\ Total(Due, Funded) \in Nat /\ Due[target] \in Nat
  BY <1>1, TargetJoinsFunded
<1>3. Due' = Due
  BY SameInstruction
<1>4. saved.purse \in Nat
  BY <1>1 DEF CreationTyped
<1>5. PaidSoFar' <=> (step' # "idle" => purse' = saved'.purse - Total(Due', Funded'))
  BY DEF PaidSoFar
<1> QED
  BY <1>1, <1>2, <1>3, <1>4, <1>5

LEMMA FundedAtCreate ==
    ASSUME step = "create"
    PROVE  Funded = {children[i] : i \in 1 .. at - 1}
  BY DEF Funded

LEMMA CreateAccountStep ==
    ASSUME CreationInv, CreateAccount
    PROVE  CreationInv'
<1> DEFINE a == [lamports |-> Funding(target), owner |-> Owner[target], len |-> Space[target]]
<1>1. /\ step = "create" /\ step' = "initialize" /\ account[target].lamports = 0
      /\ purse >= Funding(target) /\ purse' = purse - Funding(target)
      /\ account' = [account EXCEPT ![target] = a]
      /\ children' = children /\ at' = at /\ saved' = saved
  BY DEF CreateAccount, CanCreate
<1>2. CreationTyped /\ target \in Address /\ purse \in Nat
  BY ChildrenDiffer DEF CreationInv, CreationTyped
<1>3. Funding(target) \in Nat /\ Space[target] \in Nat /\ Owner[target] \in Programs
  BY <1>2, FundingType
<1>4. a \in Account /\ purse' \in Nat
  BY <1>1, <1>2, <1>3 DEF Account
<1>5. a.lamports = Funding(target) /\ a.owner = Owner[target] /\ a.len = Space[target]
  OBVIOUS
<1> HIDE DEF a
<1>6. /\ CreationTyped' /\ FoundUnused' /\ RestUntouched' /\ FinishedSoFar'
      /\ target' = target /\ account'[target] = a
      /\ Funded' = {children[i] : i \in 1 .. at - 1} \cup {target}
  BY <1>1, <1>4, AtTheTarget
<1>7. TargetPrepared'
  BY <1>1, <1>3, <1>5, <1>6 DEF TargetPrepared, Funding, Rent
<1>8. PaidSoFar'
  BY <1>1, <1>6, TargetAsFound, FundedAtCreate, PaidAtTarget
<1> QED
  BY <1>6, <1>7, <1>8 DEF CreationInv

LEMMA TopUpStep ==
    ASSUME CreationInv, TopUp
    PROVE  CreationInv'
<1> DEFINE a == [account[target] EXCEPT !.lamports = account[target].lamports + Deficit(target)]
<1>1. /\ step = "create" /\ step' = "allocate"
      /\ purse >= Deficit(target) /\ purse' = purse - Deficit(target)
      /\ account' = [account EXCEPT ![target].lamports = @ + Deficit(target)]
      /\ children' = children /\ at' = at /\ saved' = saved
  BY DEF TopUp, CanTopUp
<1>2. account' = [account EXCEPT ![target] = a]
  BY <1>1
<1>3. CreationTyped /\ purse \in Nat
  BY DEF CreationInv, CreationTyped
<1>4. /\ account[target] \in Account /\ Unused(account[target])
      /\ Due[target] = Deficit(target) /\ Deficit(target) \in Nat
      /\ account[target].lamports + Due[target] >= Funding(target)
  BY <1>1, <1>3, TargetAsFound, TargetJoinsFunded
<1>5. /\ a \in Account /\ Unused(a)
      /\ a.lamports = account[target].lamports + Deficit(target)
  BY <1>4 DEF Account, Unused
<1>6. purse' \in Nat
  BY <1>1, <1>3, <1>4
<1> HIDE DEF a
<1>7. /\ CreationTyped' /\ FoundUnused' /\ RestUntouched' /\ FinishedSoFar'
      /\ target' = target /\ account'[target] = a
      /\ Funded' = {children[i] : i \in 1 .. at - 1} \cup {target}
  BY <1>1, <1>2, <1>5, <1>6, AtTheTarget
<1>8. TargetPrepared'
  BY <1>1, <1>4, <1>5, <1>7 DEF TargetPrepared, Funding, Rent
<1>9. PaidSoFar'
  BY <1>1, <1>4, <1>7, FundedAtCreate, PaidAtTarget
<1> QED
  BY <1>7, <1>8, <1>9 DEF CreationInv

(* The calls that pay nothing.                                             *)
LEMMA NothingPaid ==
    ASSUME CreationInv, step # "idle", step' # "idle", saved' = saved, children' = children,
           purse' = purse, Funded' = Funded
    PROVE  PaidSoFar'
<1>1. Due' = Due
  BY SameInstruction
<1>2. PaidSoFar' <=> (step' # "idle" => purse' = saved'.purse - Total(Due', Funded'))
  BY DEF PaidSoFar
<1> QED
  BY <1>1, <1>2 DEF CreationInv, PaidSoFar

LEMMA AllocateStep ==
    ASSUME CreationInv, Allocate
    PROVE  CreationInv'
<1> DEFINE a == [account[target] EXCEPT !.len = Space[target]]
<1>1. /\ step = "allocate" /\ step' = "assign" /\ Unused(account[target])
      /\ account' = [account EXCEPT ![target] = a]
      /\ children' = children /\ at' = at /\ saved' = saved /\ purse' = purse
  BY DEF Allocate, NotInUse, Unused
<1>2. CreationTyped /\ target \in Address /\ target \in Child /\ purse \in Nat
  BY ChildrenDiffer DEF CreationInv, CreationTyped
<1>3. account[target] \in Account /\ Space[target] \in Nat
  BY <1>2, FundingType DEF CreationTyped
<1>4. a \in Account /\ a.owner = "System" /\ a.len = Space[target]
      /\ a.lamports = account[target].lamports
  BY <1>1, <1>3 DEF Account, Unused
<1> HIDE DEF a
<1>5. /\ CreationTyped' /\ FoundUnused' /\ RestUntouched' /\ FinishedSoFar'
      /\ target' = target /\ account'[target] = a
      /\ Funded' = {children[i] : i \in 1 .. at - 1} \cup {target}
  BY <1>1, <1>2, <1>4, AtTheTarget
<1>6. TargetPrepared'
  BY <1>1, <1>4, <1>5 DEF CreationInv, TargetPrepared, Funding, Rent
<1>7. PaidSoFar'
  BY <1>1, <1>5, NothingPaid DEF Funded
<1> QED
  BY <1>5, <1>6, <1>7 DEF CreationInv

LEMMA AssignStep ==
    ASSUME CreationInv, Assign
    PROVE  CreationInv'
<1> DEFINE a == [account[target] EXCEPT !.owner = Owner[target]]
<1>1. /\ step = "assign" /\ step' = "initialize"
      /\ account' = [account EXCEPT ![target] = a]
      /\ children' = children /\ at' = at /\ saved' = saved /\ purse' = purse
  BY DEF Assign
<1>2. CreationTyped /\ target \in Address /\ target \in Child /\ purse \in Nat
  BY ChildrenDiffer DEF CreationInv, CreationTyped
<1>3. account[target] \in Account /\ Owner[target] \in Programs
  BY <1>2, FundingType DEF CreationTyped
<1>4. a \in Account /\ a.owner = Owner[target] /\ a.len = account[target].len
      /\ a.lamports = account[target].lamports
  BY <1>3 DEF Account
<1> HIDE DEF a
<1>5. /\ CreationTyped' /\ FoundUnused' /\ RestUntouched' /\ FinishedSoFar'
      /\ target' = target /\ account'[target] = a
      /\ Funded' = {children[i] : i \in 1 .. at - 1} \cup {target}
  BY <1>1, <1>2, <1>4, AtTheTarget
<1>6. TargetPrepared'
  BY <1>1, <1>4, <1>5 DEF CreationInv, TargetPrepared, Funding, Rent
<1>7. PaidSoFar'
  BY <1>1, <1>5, NothingPaid DEF Funded
<1> QED
  BY <1>5, <1>6, <1>7 DEF CreationInv

LEMMA InitializeStep ==
    ASSUME CreationInv, Initialize
    PROVE  CreationInv'
<1> DEFINE last == at = Len(children)
           a == [account[target] EXCEPT !.len = FinalSpace[target]]
<1>1. /\ step = "initialize" /\ account' = [account EXCEPT ![target] = a]
      /\ children' = children /\ saved' = saved /\ purse' = purse
      /\ last => step' = "commit" /\ at' = at
      /\ ~last => step' = "create" /\ at' = at + 1
  BY DEF Initialize
<1>2. /\ CreationTyped /\ target \in Child /\ target \in Address
      /\ at \in 1 .. Len(children) /\ Len(children) \in Nat
  BY ChildrenDiffer DEF CreationInv, CreationTyped
<1>3. account[target] \in Account /\ FinalSpace[target] \in Nat
  BY <1>2, FundingType DEF CreationTyped
<1>4. /\ a \in Account /\ a.len = FinalSpace[target]
      /\ a.lamports = account[target].lamports /\ a.owner = account[target].owner
  BY <1>3 DEF Account
<1> HIDE DEF a
<1>5. Child' = Child /\ Due' = Due
  BY <1>1, SameInstruction
<1>6. /\ account' \in [Child -> Account] /\ account'[target] = a
      /\ \A x \in Child : x # target => account'[x] = account[x]
  BY <1>1, <1>2, <1>4 DEF CreationTyped
<1>7. CreationTyped'
  BY <1>1, <1>2, <1>5, <1>6 DEF CreationTyped
<1>8. FoundUnused'
  BY <1>1, <1>5 DEF CreationInv, FoundUnused, Unused
<1>9. \A i \in 1 .. Len(children) : i # at => children[i] \in Child /\ children[i] # target
  BY <1>2, ChildrenDiffer DEF target
<1>10. RestUntouched'
  <2> SUFFICES ASSUME ~last, NEW i \in at + 1 .. Len(children)
               PROVE  account'[children[i]] = saved.account[children[i]]
    BY <1>1 DEF RestUntouched
  <2>1. i \in at .. Len(children) /\ i > at /\ i \in 1 .. Len(children) /\ i # at
    BY <1>2
  <2> QED
    BY <1>1, <1>6, <1>9, <2>1 DEF CreationInv, RestUntouched
<1>11. /\ account'[target].owner = Owner[target] /\ account'[target].len = FinalSpace[target]
       /\ account'[target].lamports >= Funding(target)
  BY <1>1, <1>4, <1>6 DEF CreationInv, TargetPrepared
<1>12. ASSUME NEW i \in 1 .. at
       PROVE  /\ account'[children[i]].owner = Owner[children[i]]
              /\ account'[children[i]].len = FinalSpace[children[i]]
              /\ account'[children[i]].lamports >= Funding(children[i])
  <2>1. CASE i = at
    BY <1>11, <2>1 DEF target
  <2>2. CASE i < at
    <3>1. Finished(children[i])
      BY <1>1, <2>2 DEF CreationInv, FinishedSoFar
    <3>2. i \in 1 .. Len(children) /\ i # at
      BY <1>2, <2>2
    <3> QED
      BY <1>6, <1>9, <3>1, <3>2 DEF Finished
  <2> QED
    BY <1>2, <2>1, <2>2
<1>13. FinishedSoFar'
  <2>1. SUFFICES ASSUME NEW i \in 1 .. at', i < at' \/ AllCalled'
                 PROVE  Finished(children[i])'
    BY <1>1 DEF FinishedSoFar, AllCalled
  <2>2. i \in 1 .. at
    BY <1>1, <1>2, <2>1 DEF AllCalled
  <2>3. Finished(children[i])' <=>
            /\ account'[children[i]].owner = Owner[children[i]]
            /\ account'[children[i]].len = FinalSpace[children[i]]
            /\ account'[children[i]].lamports >= Funding(children[i])
    BY <1>1 DEF Finished, Funding, Rent
  <2> QED
    BY <1>12, <2>2, <2>3
<1>14. TargetPrepared'
  BY <1>1 DEF TargetPrepared
<1>15. Funded' = Funded
  <2>1. CASE last
    BY <1>1, <2>1 DEF Funded, target
  <2>2. CASE ~last
    <3>1. Funded' = {children[i] : i \in 1 .. at}
      <4>1. Funded' = {children[i] : i \in 1 .. (at + 1) - 1}
        BY <1>1, <2>2 DEF Funded
      <4>2. (at + 1) - 1 = at
        BY <1>2
      <4> QED
        BY <4>1, <4>2
    <3>2. Funded = {children[i] : i \in 1 .. at - 1} \cup {children[at]}
      BY <1>1 DEF Funded, target
    <3>3. \A i : i \in 1 .. at <=> i \in 1 .. at - 1 \/ i = at
      BY <1>2
    <3> QED
      BY <3>1, <3>2, <3>3
  <2> QED
    BY <2>1, <2>2
<1>16. PaidSoFar'
  BY <1>1, <1>15, NothingPaid
<1> QED
  BY <1>7, <1>8, <1>10, <1>13, <1>14, <1>16 DEF CreationInv

LEMMA CommitStep ==
    ASSUME CreationInv, Commit
    PROVE  CreationInv'
<1>1. /\ step = "commit" /\ step' = "done" /\ children' = children /\ account' = account
      /\ purse' = purse /\ at' = at /\ saved' = saved
  BY DEF Commit
<1>2. CreationTyped /\ Child' = Child /\ Funded' = Funded
  BY <1>1, SameInstruction DEF CreationInv, Funded, target
<1>3. CreationTyped' /\ FoundUnused' /\ RestUntouched' /\ TargetPrepared'
  BY <1>1, <1>2
  DEF CreationInv, CreationTyped, FoundUnused, Unused, RestUntouched, TargetPrepared
<1>4. FinishedSoFar'
  BY <1>1 DEF CreationInv, FinishedSoFar, AllCalled, Finished, Funding, Rent
<1>5. PaidSoFar'
  BY <1>1, <1>2, NothingPaid
<1> QED
  BY <1>3, <1>4, <1>5 DEF CreationInv

LEMMA AbortStep ==
    ASSUME CreationInv, Abort
    PROVE  CreationInv'
<1>1. /\ step' = "idle" /\ account' = saved.account /\ purse' = saved.purse
      /\ children' = children /\ at' = at /\ saved' = saved
  BY DEF Abort
<1>2. CreationTyped /\ FoundUnused
  BY DEF CreationInv
<1>3. Child' = Child
  BY <1>1, SameInstruction
<1>4. CreationTyped'
  BY <1>1, <1>2, <1>3 DEF CreationTyped
<1>5. FoundUnused'
  BY <1>1, <1>2, <1>3 DEF FoundUnused, Unused
<1> QED
  BY <1>1, <1>4, <1>5 DEF CreationInv, RestUntouched, FinishedSoFar, AllCalled, TargetPrepared, PaidSoFar

LEMMA GiftStep ==
    ASSUME CreationInv, NEW x \in Child, NEW n \in GiftAmounts, Gift(x, n)
    PROVE  CreationInv'
<1>1. /\ step \in {"idle", "done"}
      /\ account' = [account EXCEPT ![x].lamports = @ + n]
      /\ children' = children /\ purse' = purse /\ at' = at /\ step' = step /\ saved' = saved
  BY DEF Gift
<1>2. n \in Nat
  BY CreationAssumption
<1>3. CreationTyped /\ Child' = Child /\ Child \subseteq Address
  BY <1>1, SameInstruction, ChildrenDiffer DEF CreationInv
<1>4. /\ account' \in [Child -> Account]
      /\ \A y \in Child : /\ account'[y].owner = account[y].owner
                          /\ account'[y].len = account[y].len
                          /\ account'[y].lamports >= account[y].lamports
  <2>1. account \in [Child -> Account]
    BY <1>3 DEF CreationTyped
  <2>2. [account[x] EXCEPT !.lamports = @ + n] \in Account
    BY <1>2, <2>1 DEF Account
  <2> QED
    BY <1>1, <1>2, <2>1, <2>2 DEF Account
<1>5. CreationTyped'
  BY <1>1, <1>3, <1>4 DEF CreationTyped
<1>6. FoundUnused'
  BY <1>1, <1>3, <1>4 DEF CreationInv, FoundUnused, Unused
<1>7. RestUntouched' /\ TargetPrepared'
  BY <1>1 DEF RestUntouched, TargetPrepared
<1>8. FinishedSoFar'
  <2>1. SUFFICES ASSUME step = "done", NEW i \in 1 .. at
                 PROVE  Finished(children[i])'
    <3>1. AllCalled => at = Len(children)
      BY DEF CreationInv, FinishedSoFar
    <3>2. (AllCalled' <=> AllCalled) /\ (AllCalled <=> step = "done")
      BY <1>1 DEF AllCalled
    <3> QED
      BY <1>1, <3>1, <3>2 DEF FinishedSoFar
  <2>2. children[i] \in Child /\ children[i] \in Address
    BY <1>3, <2>1, ChildrenDiffer DEF CreationTyped
  <2>3. Finished(children[i])
    BY <2>1 DEF CreationInv, FinishedSoFar, AllCalled
  <2>4. Funding(children[i]) \in Nat /\ account[children[i]].lamports \in Nat
        /\ account'[children[i]].lamports \in Nat
    BY <1>3, <1>4, <2>2, FundingType DEF CreationTyped, Account
  <2>5. Finished(children[i])' <=>
            /\ account'[children[i]].owner = Owner[children[i]]
            /\ account'[children[i]].len = FinalSpace[children[i]]
            /\ account'[children[i]].lamports >= Funding(children[i])
    BY <1>1 DEF Finished, Funding, Rent
  <2> QED
    BY <1>4, <2>2, <2>3, <2>4, <2>5 DEF Finished
<1>9. PaidSoFar'
  <2>1. Funded' = Funded
    BY <1>1 DEF Funded, target
  <2> QED
    BY <1>1, <2>1, NothingPaid DEF PaidSoFar
<1> QED
  BY <1>5, <1>6, <1>7, <1>8, <1>9 DEF CreationInv

LEMMA EarnStep ==
    ASSUME CreationInv, NEW n \in Purses, Earn(n)
    PROVE  CreationInv'
<1>1. /\ step = "idle" /\ step' = step /\ purse' = n /\ n \in Nat
      /\ children' = children /\ account' = account /\ at' = at /\ saved' = saved
  BY CreationAssumption DEF Earn
<1>2. Child' = Child
  BY <1>1, SameInstruction
<1> QED
  BY <1>1, <1>2
  DEF CreationInv, CreationTyped, AllCalled, FoundUnused, Unused, RestUntouched, FinishedSoFar,
      TargetPrepared, PaidSoFar

(* Every state of a transaction, and between transactions, satisfies it.   *)
THEOREM CreationInvariant == CreationSpec => []CreationInv
<1>1. CreationInit => CreationInv
  BY CreationInitIsInductive
<1>2. CreationInv /\ [CreationNext]_creationVars => CreationInv'
  <2>1. CreationInv /\ UNCHANGED creationVars => CreationInv'
    <3>1. SUFFICES ASSUME CreationInv, UNCHANGED creationVars PROVE CreationInv'
      OBVIOUS
    <3>2. /\ children' = children /\ account' = account /\ purse' = purse
          /\ at' = at /\ step' = step /\ saved' = saved
      BY <3>1 DEF creationVars
    <3>3. Child' = Child /\ Due' = Due /\ target' = target
      BY <3>2, SameInstruction DEF target
    <3>4. CreationTyped' /\ FoundUnused' /\ RestUntouched' /\ TargetPrepared'
      BY <3>1, <3>2, <3>3
      DEF CreationInv, CreationTyped, FoundUnused, Unused, RestUntouched, TargetPrepared,
          Funding, Rent
    <3>5. FinishedSoFar'
      BY <3>1, <3>2 DEF CreationInv, FinishedSoFar, AllCalled, Finished, Funding, Rent
    <3>6. PaidSoFar'
      BY <3>1, <3>2, <3>3 DEF CreationInv, PaidSoFar, Funded, Total, Units
    <3> QED
      BY <3>4, <3>5, <3>6 DEF CreationInv
  <2>2. CreationInv /\ CreationNext => CreationInv'
    BY BeginStep, CreateAccountStep, TopUpStep, AllocateStep, AssignStep, InitializeStep,
       CommitStep, AbortStep, GiftStep, EarnStep DEF CreationNext
  <2> QED
    BY <2>1, <2>2
<1> QED
  BY <1>1, <1>2, PTL DEF CreationSpec

(* When the calls are over, all the addresses have been funded.              *)
LEMMA AllFunded ==
    ASSUME CreationInv, AllCalled
    PROVE  /\ at = Len(children) /\ Funded = Child
           /\ \A x \in Child : \E i \in 1 .. at : x = children[i]
<1>1. CreationTyped /\ at = Len(children) /\ Len(children) \in Nat /\ 1 <= Len(children)
  BY ChildrenDiffer DEF CreationInv, FinishedSoFar
<1>2. Funded = {children[i] : i \in 1 .. at - 1} \cup {children[at]}
  BY DEF Funded, target, AllCalled
<1>3. \A i : i \in 1 .. at <=> i \in 1 .. at - 1 \/ i = at
  BY <1>1
<1> QED
  BY <1>1, <1>2, <1>3 DEF Child

(* Strangers cannot make a creation fail: only its payer can be too poor.  *)
THEOREM NobodySquats == CreationSpec => []OnlyPovertyFails
<1>1. CreationInv => OnlyPovertyFails
  <2>1. SUFFICES ASSUME CreationInv, NextCallFails PROVE ~CanAfford
    BY DEF OnlyPovertyFails
  <2>2. CreationTyped /\ target \in Child /\ target \in Address
    BY <2>1, ChildrenDiffer DEF CreationInv
  <2>3. saved.purse \in Nat /\ purse \in Nat /\ Missing \in Nat /\ Rent(0) \in Nat
    <3>1. Missing \in Nat
      <4>1. {} \in SUBSET Child
        OBVIOUS
      <4> QED
        BY <2>2, <4>1, DueTotals
    <3>2. Overhead \in Nat
      BY CreationAssumption
    <3> QED
      BY <2>2, <3>1, <3>2 DEF CreationTyped, Rent
  <2>4. step \in {"create", "commit"}
    <3>1. account[target].lamports >= Funding(target) <=>
              account[target].lamports >= Rent(FinalSpace[target])
      BY DEF Funding
    <3> QED
      BY <2>1, <3>1
      DEF CreationInv, NextCallFails, TargetPrepared, NotInUse, CanInitialize, Unused
  <2>5. CASE step = "create"
    <3>1. ~(IF account[target].lamports = 0 THEN CanCreate ELSE CanTopUp)
      BY <2>1, <2>5 DEF NextCallFails
    <3>2. /\ Unused(account[target]) /\ Due[target] = Deficit(target)
          /\ account[target].lamports = 0 =>
                 account[target] = Empty /\ Due[target] = Funding(target)
      BY <2>1, <2>5, TargetAsFound
    <3>3. ~(purse >= Due[target])
      BY <3>1, <3>2 DEF CanCreate, CanTopUp, NotInUse, Unused
    <3>4. /\ Total(Due, Funded) \in Nat /\ Due[target] \in Nat
          /\ Total(Due, Funded) + Due[target] <= Missing
      BY <2>2, <2>5, TargetJoinsFunded
    <3>5. purse = saved.purse - Total(Due, Funded)
      BY <2>1, <2>5 DEF CreationInv, PaidSoFar
    <3>6. saved.purse < Missing
      BY <2>3, <3>3, <3>4, <3>5
    <3> QED
      BY <2>3, <3>6 DEF CanAfford
  <2>6. CASE step = "commit"
    <3>1. purse # 0 /\ ~(purse >= Rent(0))
      BY <2>1, <2>6 DEF NextCallFails, PayerMayRemain
    <3>2. purse = saved.purse - Missing
      BY <2>1, <2>6, AllFunded DEF CreationInv, PaidSoFar, Missing, AllCalled
    <3> QED
      BY <2>3, <3>1, <3>2 DEF CanAfford
  <2> QED
    BY <2>4, <2>5, <2>6
<1> QED
  BY <1>1, CreationInvariant, PTL

(* The payer pays for what is missing, and once.                           *)
THEOREM NothingPaidTwice == CreationSpec => []PayerPaysWhatIsMissing
<1>1. CreationInv => PayerPaysWhatIsMissing
  BY AllFunded DEF CreationInv, PaidSoFar, PayerPaysWhatIsMissing, Missing, AllCalled
<1> QED
  BY <1>1, CreationInvariant, PTL

(* A transaction that ends well has made every account, exempt from rent.  *)
THEOREM EveryAccountCreated == CreationSpec => []AllCreated
<1>1. CreationInv => AllCreated
  <2>1. SUFFICES ASSUME CreationInv, step = "done", NEW x \in Child
                 PROVE  /\ account[x].owner = Owner[x]
                        /\ account[x].len = FinalSpace[x]
                        /\ account[x].lamports >= Rent(account[x].len)
    BY DEF AllCreated
  <2>2. PICK i \in 1 .. at : x = children[i]
    BY <2>1, AllFunded DEF AllCalled
  <2>3. Finished(x)
    BY <2>1, <2>2 DEF CreationInv, FinishedSoFar, AllCalled
  <2> QED
    BY <2>3 DEF Finished, Funding
<1> QED
  BY <1>1, CreationInvariant, PTL
=============================================================================
