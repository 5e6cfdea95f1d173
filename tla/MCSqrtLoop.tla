----------------------------- MODULE MCSqrtLoop -----------------------------
(* SqrtLoop on a ten-bit word: every argument from 0 to the greatest.      *)
EXTENDS SqrtLoop

EvenPowers == {1, 4, 16, 64, 256}
=============================================================================
