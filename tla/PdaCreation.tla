---------------------------- MODULE PdaCreation ----------------------------
(***************************************************************************)
(* How the two initializers create accounts at addresses that are known    *)
(* before they exist: initialize_pool the pool, its two vaults, its LP     *)
(* mint and its locked LP account, initialize_stablecoin the config and    *)
(* the mint.  Anybody may send lamports to such an address first, and      *)
(* create_account refuses an address that holds any.  The pool and the     *)
(* config are created by Anchor's init before the handler runs, with the   *)
(* same calls as the handler makes for the others.                         *)
(*                                                                         *)
(* Here the calls inside one transaction are steps of their own: it is the *)
(* order of these calls that must work out.  Nobody else acts while a      *)
(* transaction runs, and a call that fails undoes all of it.               *)
(***************************************************************************)
EXTENDS Sequences, Totals

CONSTANTS
    Instructions,   \* for each initializer, the addresses it creates, in order
    Owner,          \* Owner[x]: the program account x is assigned to
    Space,          \* Space[x]: the length account x is created with
    FinalSpace,     \* FinalSpace[x]: its length once initialized (metadata grows a mint)
    Overhead,       \* what the chain adds to a length before it charges rent
    GiftAmounts,    \* lamports a stranger may send
    MaxLamports,    \* bound of the model: strangers leave at most this at one address
    Purses          \* what a payer may have between transactions

Address == UNION {{c[i] : i \in 1 .. Len(c)} : c \in Instructions}

(* The addresses of one instruction differ: their seeds do.                *)
ASSUME CreationAssumption ==
    /\ \A c \in Instructions :
           /\ c \in Seq(Address) /\ c # << >>
           /\ \A i, j \in 1 .. Len(c) : c[i] = c[j] => i = j
    /\ \A x \in Address : Owner[x] # "System"
    /\ Space \in [Address -> Nat] /\ FinalSpace \in [Address -> Nat]
    /\ Overhead \in Nat /\ MaxLamports \in Nat
    /\ GiftAmounts \subseteq Nat /\ Purses \subseteq Nat
    /\ \A n \in Purses : n = 0 \/ n >= Overhead

VARIABLES
    children,       \* the addresses of the instruction that is sent
    account,        \* account[x]: its lamports, owner and length
    purse,          \* the payer's lamports
    at,             \* the position in children the transaction has come to
    step,           \* its next call there; "commit" after the last, "idle" before, "done" at the end
    saved           \* what the transaction found: restored when it fails

creationVars == <<children, account, purse, at, step, saved>>

Child == {children[i] : i \in 1 .. Len(children)}

Rent(len) == Overhead + len

Empty == [lamports |-> 0, owner |-> "System", len |-> 0]

CreationInit ==
    /\ children \in Instructions
    /\ account = [x \in Child |-> Empty]
    /\ purse \in Purses
    /\ at = 1
    /\ step = "idle"
    /\ saved = [account |-> account, purse |-> purse]

-----------------------------------------------------------------------------
target == children[at]

(* The lamports an account is created with: rent for its final length,     *)
(* since growing it later funds nothing.                                   *)
Funding_Faulty(x) == Rent(Space[x])

Funding(x) == Rent(FinalSpace[x])

Lacking(x, lamports) == IF lamports < Funding(x) THEN Funding(x) - lamports ELSE 0

Deficit(x) == Lacking(x, account[x].lamports)

Begin ==
    /\ step = "idle"
    /\ step' = "create"
    /\ at' = 1
    /\ saved' = [account |-> account, purse |-> purse]
    /\ UNCHANGED <<children, account, purse>>

CanCreate ==
    /\ account[target] = Empty          \* else the system program refuses
    /\ purse >= Funding(target)

CreateAccount ==
    /\ step = "create" /\ account[target].lamports = 0
    /\ CanCreate
    /\ account' = [account EXCEPT ![target] =
                      [lamports |-> Funding(target), owner |-> Owner[target], len |-> Space[target]]]
    /\ purse' = purse - Funding(target)
    /\ step' = "initialize"
    /\ UNCHANGED <<children, at, saved>>

(* Nobody but the program can sign for the address, so a funded one still  *)
(* belongs to the system program; one in use is rejected.                  *)
NotInUse == account[target].owner = "System" /\ account[target].len = 0

CanTopUp == NotInUse /\ purse >= Deficit(target)

PayAll_Faulty ==
    /\ step = "create" /\ account[target].lamports > 0
    /\ CanTopUp
    /\ account' = [account EXCEPT ![target].lamports = @ + Funding(target)]
    /\ purse' = purse - Funding(target)
    /\ step' = "allocate"
    /\ UNCHANGED <<children, at, saved>>

TopUp ==
    /\ step = "create" /\ account[target].lamports > 0
    /\ CanTopUp
    /\ account' = [account EXCEPT ![target].lamports = @ + Deficit(target)]
    /\ purse' = purse - Deficit(target)
    /\ step' = "allocate"
    /\ UNCHANGED <<children, at, saved>>

Allocate ==
    /\ step = "allocate"
    /\ NotInUse
    /\ account' = [account EXCEPT ![target].len = Space[target]]
    /\ step' = "assign"
    /\ UNCHANGED <<children, purse, at, saved>>

Assign ==
    /\ step = "assign"
    /\ account[target].owner = "System"
    /\ account' = [account EXCEPT ![target].owner = Owner[target]]
    /\ step' = "initialize"
    /\ UNCHANGED <<children, purse, at, saved>>

(* Its program writes the account, the handler's last check included: the  *)
(* grown account must be exempt from rent.                                 *)
CanInitialize ==
    /\ account[target].owner = Owner[target]
    /\ account[target].len = Space[target]
    /\ account[target].lamports >= Rent(FinalSpace[target])

InitializeShort_Faulty ==
    /\ step = "initialize"
    /\ CanInitialize
    /\ account' = [account EXCEPT ![target].len = FinalSpace[target]]
    /\ IF at + 1 >= Len(children)
       THEN step' = "commit" /\ UNCHANGED at
       ELSE step' = "create" /\ at' = at + 1
    /\ UNCHANGED <<children, purse, saved>>

Initialize ==
    /\ step = "initialize"
    /\ CanInitialize
    /\ account' = [account EXCEPT ![target].len = FinalSpace[target]]
    /\ IF at = Len(children)
       THEN step' = "commit" /\ UNCHANGED at
       ELSE step' = "create" /\ at' = at + 1
    /\ UNCHANGED <<children, purse, saved>>

(* The chain lets no account end up with lamports that are less than the   *)
(* rent of its length: at the end of a transaction, the payer neither.     *)
PayerMayRemain == purse = 0 \/ purse >= Rent(0)

Commit ==
    /\ step = "commit"
    /\ PayerMayRemain
    /\ step' = "done"
    /\ UNCHANGED <<children, account, purse, at, saved>>

(* The next call of the transaction returns an error, or its end is refused. *)
NextCallFails ==
    \/ step = "create" /\ ~(IF account[target].lamports = 0 THEN CanCreate ELSE CanTopUp)
    \/ step = "allocate" /\ ~NotInUse
    \/ step = "assign" /\ account[target].owner # "System"
    \/ step = "initialize" /\ ~CanInitialize
    \/ step = "commit" /\ ~PayerMayRemain

Abort ==
    /\ NextCallFails
    /\ account' = saved.account
    /\ purse' = saved.purse
    /\ step' = "idle"
    /\ UNCHANGED <<children, at, saved>>

(* A stranger sends lamports, under the same rule of the chain.            *)
Gift(x, n) ==
    /\ step \in {"idle", "done"}
    /\ n > 0
    /\ account[x].lamports + n >= Rent(account[x].len)
    /\ account[x].lamports + n <= MaxLamports
    /\ account' = [account EXCEPT ![x].lamports = @ + n]
    /\ UNCHANGED <<children, purse, at, step, saved>>

(* The payer finds or spends lamports elsewhere.                           *)
Earn(n) ==
    /\ step = "idle"
    /\ purse' = n
    /\ UNCHANGED <<children, account, at, step, saved>>

CreationNext ==
    \/ Begin \/ CreateAccount \/ TopUp \/ Allocate \/ Assign \/ Initialize \/ Commit \/ Abort
    \/ \E x \in Child, n \in GiftAmounts : Gift(x, n)
    \/ \E n \in Purses : Earn(n)

CreationSpec == CreationInit /\ [][CreationNext]_creationVars

-----------------------------------------------------------------------------
(* What a transaction has to add to what it finds at its addresses.        *)
Due == [x \in Child |-> Lacking(x, saved.account[x].lamports)]

Missing == Total(Due, Child)

(* The payer can pay for that, and is left with nothing or with its rent.  *)
CanAfford == saved.purse = Missing \/ saved.purse >= Missing + Rent(0)

(* Nobody can squat on an address: whatever strangers have sent there, a   *)
(* transaction fails only if its payer cannot afford what is missing.      *)
(* MintAccountInUse, ChildAccountInUse and MintNotRentExempt are never     *)
(* returned (README.md, pre-funded PDAs).                                  *)
OnlyPovertyFails == NextCallFails => ~CanAfford

(* The payer pays exactly what is missing: what strangers sent counts       *)
(* towards the rent, and no address is paid for twice.                     *)
PayerPaysWhatIsMissing == step = "done" => purse = saved.purse - Missing

(* When it succeeds every account is there, grown to its final length,      *)
(* owned by its program and exempt from rent.                              *)
AllCreated ==
    step = "done" =>
        \A x \in Child : /\ account[x].owner = Owner[x]
                         /\ account[x].len = FinalSpace[x]
                         /\ account[x].lamports >= Rent(account[x].len)
=============================================================================
