--------------------------- MODULE TotalsTheorems ---------------------------
(***************************************************************************)
(* How a total changes when one holding does.                              *)
(***************************************************************************)
EXTENDS Totals, FiniteSetTheorems, TLAPS

LEMMA UnitOf ==
    ASSUME NEW f, NEW S, NEW x, NEW i
    PROVE  <<x, i>> \in Units(f, S) <=> x \in S /\ i \in 1 .. f[x]
  BY DEF Units

LEMMA UnitsArePairs ==
    ASSUME NEW f, NEW S, NEW p
    PROVE  p \in Units(f, S) <=> \E x \in S : \E i \in 1 .. f[x] : p = <<x, i>>
<1>1. ASSUME NEW x
      PROVE  p \in {x} \X (1 .. f[x]) <=> \E i \in 1 .. f[x] : p = <<x, i>>
  OBVIOUS
<1> QED
  BY <1>1 DEF Units

(* The units of one account.                                               *)
LEMMA Slice ==
    ASSUME NEW x, NEW n \in Nat
    PROVE  /\ IsFiniteSet({x} \X (1 .. n))
           /\ Cardinality({x} \X (1 .. n)) = n
<1>1. IsFiniteSet(1 .. n) /\ Cardinality(1 .. n) = n
  BY FS_Interval
<1>2. IsFiniteSet({x}) /\ Cardinality({x}) = 1
  BY FS_Singleton
<1>3. /\ IsFiniteSet({x} \X (1 .. n))
      /\ Cardinality({x} \X (1 .. n)) = Cardinality({x}) * Cardinality(1 .. n)
  BY <1>1, <1>2, FS_Product
<1> QED
  BY <1>1, <1>2, <1>3

LEMMA DisjointTotal ==
    ASSUME NEW S, NEW T, IsFiniteSet(S), IsFiniteSet(T), S \cap T = {}
    PROVE  /\ IsFiniteSet(S \cup T)
           /\ Cardinality(S \cup T) = Cardinality(S) + Cardinality(T)
<1>1. Cardinality({}) = 0 /\ Cardinality(S) \in Nat /\ Cardinality(T) \in Nat
  BY FS_EmptySet, FS_CardinalityType
<1>2. /\ IsFiniteSet(S \cup T)
      /\ Cardinality(S \cup T) = Cardinality(S) + Cardinality(T) - Cardinality(S \cap T)
  BY FS_Union
<1>3. Cardinality(S \cap T) = 0
  BY <1>1
<1> QED
  BY <1>1, <1>2, <1>3

(* Nobody holds anything.                                                  *)
LEMMA NothingHeld ==
    ASSUME NEW f, NEW S, \A x \in S : f[x] = 0
    PROVE  IsFiniteSet(Units(f, S)) /\ Total(f, S) = 0
<1>1. Units(f, S) = {}
  BY UnitsArePairs
<1> QED
  BY <1>1, FS_EmptySet DEF Total

(* Only the holdings of S count.                                           *)
LEMMA SameHoldings ==
    ASSUME NEW f, NEW g, NEW S, \A x \in S : g[x] = f[x]
    PROVE  Units(g, S) = Units(f, S) /\ Total(g, S) = Total(f, S)
<1>1. \A x \in S : {x} \X (1 .. g[x]) = {x} \X (1 .. f[x])
  OBVIOUS
<1>2. Units(g, S) = Units(f, S)
  BY <1>1 DEF Units
<1> QED
  BY <1>2 DEF Total

(* Whoever holds less, holds less together.                                *)
LEMMA LessHeld ==
    ASSUME NEW f, NEW g, NEW S, IsFiniteSet(Units(g, S)),
           \A x \in S : f[x] \in Nat /\ g[x] \in Nat /\ f[x] <= g[x]
    PROVE  /\ IsFiniteSet(Units(f, S))
           /\ Total(f, S) <= Total(g, S)
           /\ Total(f, S) \in Nat /\ Total(g, S) \in Nat
<1>1. \A x \in S : {x} \X (1 .. f[x]) \subseteq {x} \X (1 .. g[x])
  OBVIOUS
<1>2. Units(f, S) \in SUBSET Units(g, S)
  BY <1>1 DEF Units
<1> QED
  BY <1>2, FS_Subset, FS_CardinalityType DEF Total

(* One holding is at most the total.                                       *)
LEMMA HoldingIsPart ==
    ASSUME NEW f, NEW S, IsFiniteSet(Units(f, S)), NEW x \in S, f[x] \in Nat
    PROVE  f[x] <= Total(f, S) /\ Total(f, S) \in Nat
<1>1. {x} \X (1 .. f[x]) \in SUBSET Units(f, S)
  BY DEF Units
<1>2. Cardinality({x} \X (1 .. f[x])) = f[x]
  BY Slice
<1> QED
  BY <1>1, <1>2, FS_Subset, FS_CardinalityType DEF Total

(* An account joins those that count.                                      *)
LEMMA Joined ==
    ASSUME NEW f, NEW S, IsFiniteSet(Units(f, S)), NEW x, x \notin S, f[x] \in Nat
    PROVE  /\ IsFiniteSet(Units(f, S \cup {x}))
           /\ Total(f, S \cup {x}) = Total(f, S) + f[x]
<1> DEFINE new == {x} \X (1 .. f[x])
<1>1. Units(f, S \cup {x}) = Units(f, S) \cup new
  BY DEF Units
<1>2. Units(f, S) \cap new = {}
  <2> SUFFICES ASSUME NEW p \in Units(f, S), p \in new
               PROVE  FALSE
    OBVIOUS
  <2>1. PICK y \in S : \E i \in 1 .. f[y] : p = <<y, i>>
    BY UnitsArePairs
  <2>2. p[1] = x /\ p[1] = y
    BY <2>1
  <2> QED
    BY <2>1, <2>2
<1>3. IsFiniteSet(new) /\ Cardinality(new) = f[x]
  BY Slice
<1> HIDE DEF new
<1>4. /\ IsFiniteSet(Units(f, S) \cup new)
      /\ Cardinality(Units(f, S) \cup new) = Cardinality(Units(f, S)) + Cardinality(new)
  BY <1>2, <1>3, DisjointTotal
<1> QED
  BY <1>1, <1>3, <1>4 DEF Total

(* An account leaves those that count.                                     *)
LEMMA Left ==
    ASSUME NEW f, NEW S, IsFiniteSet(Units(f, S)), NEW x \in S, f[x] \in Nat
    PROVE  /\ IsFiniteSet(Units(f, S \ {x}))
           /\ Total(f, S \ {x}) = Total(f, S) - f[x]
           /\ Total(f, S) \in Nat /\ f[x] <= Total(f, S)
<1>1. Units(f, S \ {x}) \in SUBSET Units(f, S)
  BY DEF Units
<1>2. IsFiniteSet(Units(f, S \ {x}))
  BY <1>1, FS_Subset
<1>3. (S \ {x}) \cup {x} = S
  OBVIOUS
<1>4. Total(f, S) = Total(f, S \ {x}) + f[x]
  BY <1>2, <1>3, Joined
<1>5. Total(f, S \ {x}) \in Nat /\ Total(f, S) \in Nat
  BY <1>2, FS_CardinalityType DEF Total
<1> QED
  BY <1>2, <1>4, <1>5

(* One holding changes: the total changes by as much.                      *)
LEMMA OneChanged ==
    ASSUME NEW f, NEW g, NEW S, IsFiniteSet(Units(f, S)), NEW x \in S,
           f[x] \in Nat, g[x] \in Nat, \A y \in S : y # x => g[y] = f[y]
    PROVE  /\ IsFiniteSet(Units(g, S))
           /\ Total(g, S) = Total(f, S) - f[x] + g[x]
           /\ Total(g, S) \in Nat /\ Total(f, S) \in Nat
<1>1. /\ IsFiniteSet(Units(f, S \ {x}))
      /\ Total(f, S \ {x}) = Total(f, S) - f[x]
      /\ Total(f, S) \in Nat /\ f[x] <= Total(f, S)
  BY Left
<1>2. \A y \in S \ {x} : g[y] = f[y]
  OBVIOUS
<1>3. Units(g, S \ {x}) = Units(f, S \ {x}) /\ Total(g, S \ {x}) = Total(f, S \ {x})
  BY <1>2, SameHoldings
<1>4. (S \ {x}) \cup {x} = S /\ x \notin S \ {x}
  OBVIOUS
<1>5. IsFiniteSet(Units(g, S \ {x}))
  BY <1>1, <1>3
<1>6. IsFiniteSet(Units(g, S)) /\ Total(g, S) = Total(g, S \ {x}) + g[x]
  BY <1>4, <1>5, Joined
<1> QED
  BY <1>1, <1>3, <1>6

(* Two holdings change.                                                    *)
LEMMA TwoChanged ==
    ASSUME NEW S, NEW f \in [S -> Nat], NEW g \in [S -> Nat], IsFiniteSet(Units(f, S)),
           NEW x \in S, NEW y \in S, x # y, \A z \in S : z # x /\ z # y => g[z] = f[z]
    PROVE  /\ IsFiniteSet(Units(g, S))
           /\ Total(g, S) = Total(f, S) - f[x] - f[y] + g[x] + g[y]
           /\ Total(g, S) \in Nat /\ Total(f, S) \in Nat
<1> DEFINE h == [f EXCEPT ![x] = g[x]]
<1>1. /\ h \in [S -> Nat] /\ h[x] = g[x] /\ h[y] = f[y]
      /\ \A z \in S : z # x => h[z] = f[z]
      /\ \A z \in S : z # y => g[z] = h[z]
  OBVIOUS
<1>2. f[x] \in Nat /\ f[y] \in Nat /\ g[x] \in Nat /\ g[y] \in Nat
  OBVIOUS
<1> HIDE DEF h
<1>3. /\ IsFiniteSet(Units(h, S)) /\ Total(f, S) \in Nat
      /\ Total(h, S) = Total(f, S) - f[x] + h[x]
  BY <1>1, <1>2, OneChanged
<1>4. /\ IsFiniteSet(Units(g, S)) /\ Total(g, S) \in Nat /\ Total(h, S) \in Nat
      /\ Total(g, S) = Total(h, S) - h[y] + g[y]
  <2>1. h[y] \in Nat /\ g[y] \in Nat
    BY <1>1, <1>2
  <2>2. \A z \in S : z # y => g[z] = h[z]
    BY <1>1
  <2>3. IsFiniteSet(Units(h, S)) /\ y \in S
    BY <1>3
  <2>4. /\ IsFiniteSet(Units(g, S))
        /\ Total(g, S) = Total(h, S) - h[y] + g[y]
        /\ Total(g, S) \in Nat /\ Total(h, S) \in Nat
    BY ONLY <2>1, <2>2, <2>3, OneChanged
  <2> QED
    BY <2>4
<1>5. h[x] = g[x] /\ h[y] = f[y]
  BY <1>1
<1> QED
  BY <1>2, <1>3, <1>4, <1>5

(* Two holdings together are at most the total.                            *)
LEMMA TwoHoldingsArePart ==
    ASSUME NEW S, NEW f \in [S -> Nat], IsFiniteSet(Units(f, S)), NEW x \in S, NEW y \in S,
           x # y
    PROVE  f[x] + f[y] <= Total(f, S)
<1>1. /\ IsFiniteSet(Units(f, S \ {x})) /\ Total(f, S \ {x}) = Total(f, S) - f[x]
      /\ Total(f, S) \in Nat
  BY Left
<1>2. f[y] <= Total(f, S \ {x})
  BY <1>1, HoldingIsPart
<1> QED
  BY <1>1, <1>2

(* Those who hold anything hold the same.                                  *)
LEMMA EqualHoldings ==
    ASSUME NEW S, NEW E \in SUBSET S, IsFiniteSet(E), NEW n \in Nat,
           NEW f, \A x \in S : f[x] = IF x \in E THEN n ELSE 0
    PROVE  IsFiniteSet(Units(f, S)) /\ Total(f, S) = n * Cardinality(E)
<1>1. Units(f, S) = E \X (1 .. n)
  <2>1. ASSUME NEW p \in Units(f, S)
        PROVE  p \in E \X (1 .. n)
    <3>1. PICK x \in S : \E i \in 1 .. f[x] : p = <<x, i>>
      BY <2>1, UnitsArePairs
    <3>2. x \in E /\ f[x] = n
      BY <3>1
    <3> QED
      BY <3>1, <3>2
  <2>2. ASSUME NEW p \in E \X (1 .. n)
        PROVE  p \in Units(f, S)
    <3>1. PICK x \in E, i \in 1 .. n : p = <<x, i>>
      OBVIOUS
    <3>2. x \in S /\ i \in 1 .. f[x]
      OBVIOUS
    <3> QED
      BY <3>1, <3>2, UnitsArePairs
  <2> QED
    BY <2>1, <2>2
<1>2. IsFiniteSet(1 .. n) /\ Cardinality(1 .. n) = n
  BY FS_Interval
<1>3. /\ IsFiniteSet(E \X (1 .. n))
      /\ Cardinality(E \X (1 .. n)) = Cardinality(E) * Cardinality(1 .. n)
  BY <1>2, FS_Product
<1>4. Cardinality(E) \in Nat
  BY FS_CardinalityType
<1> QED
  BY <1>1, <1>2, <1>3, <1>4 DEF Total

(* Finitely many accounts hold finitely many units.                        *)
LEMMA FinitelyMany ==
    ASSUME NEW f, NEW S, IsFiniteSet(S), \A x \in S : f[x] \in Nat
    PROVE  IsFiniteSet(Units(f, S)) /\ Total(f, S) \in Nat
<1> DEFINE piece == [x \in S |-> {x} \X (1 .. f[x])]
           Pieces == {{x} \X (1 .. f[x]) : x \in S}
<1>1. piece \in Surjection(S, Pieces)
  BY DEF Surjection
<1>2. IsFiniteSet(Pieces)
  <2> HIDE DEF piece, Pieces
  <2> QED
    BY <1>1, FS_Surjection
<1>3. \A T \in Pieces : IsFiniteSet(T)
  <2>1. ASSUME NEW x \in S PROVE IsFiniteSet({x} \X (1 .. f[x]))
    BY Slice
  <2> QED
    BY <2>1
<1>4. IsFiniteSet(UNION Pieces)
  <2> HIDE DEF Pieces
  <2> QED
    BY <1>2, <1>3, FS_UNION
<1>5. Units(f, S) = UNION Pieces
  BY DEF Units
<1> QED
  BY <1>4, <1>5, FS_CardinalityType DEF Total

(* Some of the accounts hold at most what all of them hold.                *)
LEMMA PartOfTotal ==
    ASSUME NEW f, NEW T, NEW S \in SUBSET T, IsFiniteSet(Units(f, T))
    PROVE  /\ IsFiniteSet(Units(f, S))
           /\ Total(f, S) <= Total(f, T)
           /\ Total(f, S) \in Nat /\ Total(f, T) \in Nat
<1>1. Units(f, S) \in SUBSET Units(f, T)
  BY DEF Units
<1> QED
  BY <1>1, FS_Subset, FS_CardinalityType DEF Total
=============================================================================
