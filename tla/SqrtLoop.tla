------------------------------ MODULE SqrtLoop ------------------------------
(***************************************************************************)
(* integer_sqrt of math.rs as the loop it is: the digit-by-digit restoring *)
(* square root, one step per iteration, on unsigned integers up to         *)
(* U128_MAX.  Module AmmMath names its result with the operator            *)
(* IntegerSqrt; here the loop is shown to compute it.                      *)
(***************************************************************************)
EXTENDS AmmMath

CONSTANTS
    TOP_BIT,    \* 1 << 126 in the source: the greatest power of four in the word
    Bits        \* the powers of four up to it

ASSUME SqrtAssumption ==
    /\ TOP_BIT \in Bits
    /\ U128_MAX = 4 * TOP_BIT - 1
    /\ \A b \in Bits :
          /\ b \in Nat \ {0}
          /\ b # 1 => b = 4 * (b \div 4) /\ b \div 4 \in Bits

VARIABLES
    pc,         \* "scale", "digits" or "done"
    value,      \* the argument
    bit, remainder, root

loopVars == <<pc, value, bit, remainder, root>>

LoopInit ==
    /\ value \in 0 .. U128_MAX
    /\ IF value < 2
       THEN pc = "done" /\ bit = 0 /\ remainder = value /\ root = value
       ELSE pc = "scale" /\ bit = TOP_BIT /\ remainder = value /\ root = 0

candidate == root + bit

(* while bit > value { bit >>= 2 }                                         *)
Scale ==
    /\ pc = "scale"
    /\ bit > value
    /\ bit' = bit \div 4
    /\ UNCHANGED <<pc, value, remainder, root>>

StartDigits ==
    /\ pc = "scale"
    /\ bit <= value
    /\ pc' = "digits"
    /\ UNCHANGED <<value, bit, remainder, root>>

DigitStrict_Faulty ==
    /\ pc = "digits" /\ bit # 0
    /\ IF remainder > candidate
       THEN remainder' = remainder - candidate /\ root' = root \div 2 + bit
       ELSE root' = root \div 2 /\ UNCHANGED remainder
    /\ bit' = bit \div 4
    /\ UNCHANGED <<pc, value>>

DigitDoubled_Faulty ==
    /\ pc = "digits" /\ bit # 0
    /\ IF remainder >= candidate
       THEN remainder' = remainder - candidate /\ root' = 2 * root + bit
       ELSE root' = 2 * root /\ UNCHANGED remainder
    /\ bit' = bit \div 4
    /\ UNCHANGED <<pc, value>>

DigitStuck_Faulty ==
    /\ pc = "digits" /\ bit # 0
    /\ IF remainder >= candidate
       THEN remainder' = remainder - candidate /\ root' = root \div 2 + bit /\ bit' = bit \div 4
       ELSE UNCHANGED <<root, remainder, bit>>
    /\ UNCHANGED <<pc, value>>

(* One iteration of while bit != 0.  Its two checked sums return an error   *)
(* when they overflow: SumsFitTheWord says they never do.                  *)
Digit ==
    /\ pc = "digits" /\ bit # 0
    /\ IF remainder >= candidate
       THEN remainder' = remainder - candidate /\ root' = root \div 2 + bit
       ELSE root' = root \div 2 /\ UNCHANGED remainder
    /\ bit' = bit \div 4
    /\ UNCHANGED <<pc, value>>

Return ==
    /\ pc = "digits" /\ bit = 0
    /\ pc' = "done"
    /\ UNCHANGED <<value, bit, remainder, root>>

LoopNext == Scale \/ StartDigits \/ Digit \/ Return

LoopSpec == LoopInit /\ [][LoopNext]_loopVars

(* A program runs alone until it returns.                                  *)
FairLoopSpec == LoopSpec /\ WF_loopVars(LoopNext)

-----------------------------------------------------------------------------
(* The loop invariant.  Write p for the digits found so far: their square,  *)
(* scaled by the digits still to come, and the remainder make up value,    *)
(* and the remainder is too small for one more unit of p.                  *)
Restoring ==
    pc = "digits" =>
        IF bit = 0
        THEN remainder + root * root = value /\ remainder <= 2 * root
        ELSE \E p \in 0 .. value :
                 /\ root = 4 * p * bit
                 /\ remainder + 4 * p * p * bit = value
                 /\ remainder < (8 * p + 4) * bit

(* What it returns is the integer square root, over the whole range of the *)
(* word, zero and the greatest value included.                             *)
RootIsExact == pc = "done" => root = IntegerSqrt(value)

(* No checked_add of the loop overflows, U128_MAX itself included: the two *)
(* error returns of the loop are unreachable.                              *)
SumsFitTheWord ==
    pc = "digits" => candidate <= U128_MAX /\ root \div 2 + bit <= U128_MAX

(* It returns.                                                             *)
Returns == <>(pc = "done")
=============================================================================
