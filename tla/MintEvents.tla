------------------------------ MODULE MintEvents ------------------------------
(***************************************************************************)
(* The events the stablecoin program writes to its log, and somebody who   *)
(* follows one mint by reading nothing else: a wallet, an indexer, an      *)
(* auditor.  An instruction writes its event in the step it takes effect.  *)
(* Owners who use Token-2022 alone write none.                             *)
(***************************************************************************)
EXTENDS Stablecoin

VARIABLE view       \* what the reader believes, field by field as the chain keeps it

NewView ==
    [admin |-> DefaultKey, pending_admin |-> None, compliance_authority |-> DefaultKey,
     supply_cap |-> 0, paused |-> FALSE, supply |-> 0, total_minted |-> 0, total_burned |-> 0,
     minters |-> {}, allowance |-> allowance, minted |-> minted, retired |-> 0, policy |-> policy]

EventsInit == Init /\ view = NewView

-----------------------------------------------------------------------------
(* What the reader knows after each event, from its fields alone.          *)

(* The first compliance authority is not told: it is the admin.            *)
StablecoinInitialized(key, cap) ==
    [view EXCEPT !.admin = key, !.compliance_authority = key, !.supply_cap = cap]

MinterGranted(authority, limit) ==
    [view EXCEPT !.minters = @ \cup {authority},
                 !.allowance[authority] = limit, !.minted[authority] = 0]

MinterRevoked(authority, minter_minted) ==
    [view EXCEPT !.minters = @ \ {authority}, !.retired = @ + minter_minted,
                 !.allowance[authority] = 0, !.minted[authority] = 0]

WalletPolicyChanged(x, status) == [view EXCEPT !.policy[x] = status]

TokensMinted(minter, amount, minter_minted, supply) ==
    [view EXCEPT !.total_minted = @ + amount,
                 !.minted[minter] = minter_minted, !.supply = supply]

TokensBurned(amount, supply) ==
    [view EXCEPT !.total_burned = @ + amount, !.supply = supply]

PauseChanged(on) == [view EXCEPT !.paused = on]

ConfigUpdated(key, cap, authority, nominee) ==
    [view EXCEPT !.admin = key, !.supply_cap = cap,
                 !.compliance_authority = authority, !.pending_admin = nominee]

(* That a nomination is used up is not told: accepting says it.            *)
AdminAccepted(key) == [view EXCEPT !.admin = key, !.pending_admin = None]

Emits(told) == view' = told

-----------------------------------------------------------------------------
(* Each instruction with the event it writes.                              *)

InitializeStablecoinEmits(payer, cap) ==
    InitializeStablecoin(payer, cap) /\ Emits(StablecoinInitialized(payer, cap))

GrantMinterEmits(signer, authority, limit) ==
    GrantMinter(signer, authority, limit) /\ Emits(MinterGranted(authority, limit))

RevokeMinterEmits_Faulty(signer, authority) ==
    RevokeMinter(signer, authority) /\ Emits(MinterRevoked(authority, minted'[authority]))

(* The event is written before the role is closed.                         *)
RevokeMinterEmits(signer, authority) ==
    RevokeMinter(signer, authority) /\ Emits(MinterRevoked(authority, minted[authority]))

SetWalletPolicyEmits(signer, x, status) ==
    SetWalletPolicy(signer, x, status) /\ Emits(WalletPolicyChanged(x, status))

MintToEmits(minter, x, n) ==
    MintTo(minter, x, n) /\ Emits(TokensMinted(minter, n, minted'[minter], mint_supply'))

BurnEmits(x, n) == Burn(x, n) /\ Emits(TokensBurned(n, mint_supply'))

SetPauseEmits(signer, on) == SetPause(signer, on) /\ Emits(PauseChanged(on))

(* The whole configuration as it is afterwards, not what was asked for.    *)
UpdateConfigEmits(signer, cap, authority, nominee) ==
    /\ UpdateConfig(signer, cap, authority, nominee)
    /\ Emits(ConfigUpdated(admin, supply_cap', compliance_authority', pending_admin'))

AcceptAdminEmits(signer) == AcceptAdmin(signer) /\ Emits(AdminAccepted(signer))

Announced ==
    \/ \E payer \in Keys, cap \in Caps : InitializeStablecoinEmits(payer, cap)
    \/ \E signer \in Keys, authority \in Authorities, limit \in Allowances :
           GrantMinterEmits(signer, authority, limit)
    \/ \E signer \in Keys, authority \in Authorities : RevokeMinterEmits(signer, authority)
    \/ \E signer \in Keys, move \in PolicyMoves : SetWalletPolicyEmits(signer, move[1], move[2])
    \/ \E minter \in Keys, x \in Accounts, n \in Amounts : MintToEmits(minter, x, n)
    \/ \E x \in Accounts, n \in Amounts : BurnEmits(x, n)
    \/ \E signer \in Keys, on \in PauseFlags : SetPauseEmits(signer, on)
    \/ \E signer \in Keys, cap \in Caps \cup {None}, authority, nominee \in Authorities \cup {None} :
           UpdateConfigEmits(signer, cap, authority, nominee)
    \/ \E signer \in Keys : AcceptAdminEmits(signer)

Silent == OwnerStep /\ UNCHANGED view

EventsNext == Announced \/ Silent

EventsSpec == EventsInit /\ [][EventsNext]_<<vars, view>>

-----------------------------------------------------------------------------
(* The log is complete: its reader knows who may do what, every policy,    *)
(* the pause, the cap, and every counter, those of revoked roles included; *)
(* of the supply it knows an upper bound, since burns through Token-2022   *)
(* alone are not announced (events.rs).                                    *)
LogTellsAll ==
    /\ view.admin = admin /\ view.pending_admin = pending_admin
    /\ view.compliance_authority = compliance_authority
    /\ view.supply_cap = supply_cap /\ view.paused = paused
    /\ view.minters = minters /\ view.allowance = allowance /\ view.minted = minted
    /\ view.retired = retired /\ view.policy = policy
    /\ view.total_minted = total_minted /\ view.total_burned = total_burned
    /\ view.supply >= mint_supply
=============================================================================
