------------------------------- MODULE Totals -------------------------------
(***************************************************************************)
(* What the accounts of a ledger hold together, counted unit by unit: one  *)
(* pair of an account and a number for every unit it holds.  A sum written *)
(* as the size of a set is a sum the theorems on finite sets speak about.  *)
(***************************************************************************)
EXTENDS Integers, FiniteSets

Units(holding, S) == UNION {{x} \X (1 .. holding[x]) : x \in S}

Total(holding, S) == Cardinality(Units(holding, S))
=============================================================================
