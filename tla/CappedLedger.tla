---------------------------- MODULE CappedLedger ----------------------------
(***************************************************************************)
(* What a compliant stablecoin promises to those who hold or accept it,    *)
(* and nothing of how: a supply under a cap, holdings that only allowed    *)
(* accounts can have changed, and a switch that stops everything.  Who     *)
(* signs, what roles and counters there are, and which flag of which       *)
(* account stops a transfer is left to module Stablecoin, which implements *)
(* this one.                                                               *)
(***************************************************************************)
EXTENDS Integers

CONSTANTS
    Accounts,       \* accounts that may hold tokens
    Quantities,     \* quantities that may be issued, retired or moved at once
    Limits,         \* caps that may be set
    GreatestCap     \* no cap is greater

VARIABLES supply, cap, holding, allowed, halted

vars == <<supply, cap, holding, allowed, halted>>

Init ==
    /\ supply = 0 /\ cap = 0
    /\ holding = [x \in Accounts |-> 0]
    /\ allowed = {}
    /\ halted = FALSE

Issue(x, n) ==
    /\ ~halted /\ x \in allowed
    /\ supply + n <= cap
    /\ supply' = supply + n
    /\ holding' = [holding EXCEPT ![x] = @ + n]
    /\ UNCHANGED <<cap, allowed, halted>>

Retire(x, n) ==
    /\ ~halted /\ x \in allowed
    /\ n <= holding[x]
    /\ supply' = supply - n
    /\ holding' = [holding EXCEPT ![x] = @ - n]
    /\ UNCHANGED <<cap, allowed, halted>>

Move(x, y, n) ==
    /\ ~halted /\ {x, y} \subseteq allowed
    /\ x # y /\ n <= holding[x]
    /\ holding' = [holding EXCEPT ![x] = @ - n, ![y] = @ + n]
    /\ UNCHANGED <<supply, cap, allowed, halted>>

Allow(x) ==
    /\ allowed' = allowed \cup {x}
    /\ UNCHANGED <<supply, cap, holding, halted>>

Block(x) ==
    /\ allowed' = allowed \ {x}
    /\ UNCHANGED <<supply, cap, holding, halted>>

Switch ==
    /\ halted' = ~halted
    /\ UNCHANGED <<supply, cap, holding, allowed>>

Limit(limit) ==
    /\ supply <= limit /\ limit <= GreatestCap
    /\ cap' = limit
    /\ UNCHANGED <<supply, holding, allowed, halted>>

Next ==
    \/ \E x \in Accounts, n \in Quantities : Issue(x, n) \/ Retire(x, n)
    \/ \E x, y \in Accounts, n \in Quantities : Move(x, y, n)
    \/ \E x \in Accounts : Allow(x) \/ Block(x)
    \/ Switch
    \/ \E limit \in Limits : Limit(limit)

Spec == Init /\ [][Next]_vars
=============================================================================
