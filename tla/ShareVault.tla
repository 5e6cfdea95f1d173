----------------------------- MODULE ShareVault -----------------------------
(***************************************************************************)
(* What a pool promises to those who hold its shares: two reserves, a      *)
(* number of shares in issue, and a part of them pinned for ever.  Nothing *)
(* is said of formulas, fees, rounding, accounts or policies; module Amm   *)
(* fills these in and implements this one.                                 *)
(***************************************************************************)
EXTENDS Integers

CONSTANTS
    Side,       \* the two assets
    Minimum     \* the least number of shares ever pinned

VARIABLES reserve, shares, pinned

vars == <<reserve, shares, pinned>>

Init ==
    /\ reserve = [s \in Side |-> 0]
    /\ shares = 0
    /\ pinned = 0

(* What a share claims of each asset does not fall.                        *)
ClaimsKept == \A s \in Side : reserve[s] * shares' <= reserve'[s] * shares

(* The first shares, in an empty vault.                                    *)
Found ==
    /\ shares = 0 /\ \A s \in Side : reserve[s] = 0 /\ reserve'[s] > 0
    /\ Minimum <= pinned' /\ pinned' < shares'

(* New shares pay for their claim on both assets.                          *)
Join ==
    /\ shares > 0 /\ shares' > shares
    /\ \A s \in Side : reserve'[s] > reserve[s]
    /\ ClaimsKept
    /\ UNCHANGED pinned

(* Shares are redeemed for no more than their claim, down to the pinned.   *)
Leave ==
    /\ pinned <= shares' /\ shares' < shares
    /\ \A s \in Side : 0 < reserve'[s] /\ reserve'[s] < reserve[s]
    /\ ClaimsKept
    /\ UNCHANGED pinned

(* One asset for the other, at no loss to the product.                     *)
Trade ==
    /\ \E i, o \in Side : i # o /\ reserve'[i] > reserve[i]
                                /\ 0 < reserve'[o] /\ reserve'[o] < reserve[o]
                                /\ reserve'[i] * reserve'[o] >= reserve[i] * reserve[o]
    /\ UNCHANGED <<shares, pinned>>

(* A holder gives shares up for nothing, or pins them for ever.            *)
Forfeit ==
    /\ pinned <= shares' /\ shares' < shares
    /\ UNCHANGED <<reserve, pinned>>

Pin ==
    /\ pinned < pinned' /\ pinned' <= shares
    /\ UNCHANGED <<reserve, shares>>

Next == Found \/ Join \/ Leave \/ Trade \/ Forfeit \/ Pin

Spec == Init /\ [][Next]_vars
=============================================================================
